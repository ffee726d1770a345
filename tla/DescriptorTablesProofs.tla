----------------------- MODULE DescriptorTablesProofs -----------------------
(***************************************************************************)
(* Proofs about images and samplers, for any sets of them, any formats and *)
(* any number of builds: the lists behind the descriptor sets stay indexed,*)
(* no object of the application ever has ID 0, no sampler outlives its     *)
(* image, a texture object leads the shader to the sampler and the image   *)
(* it was made from, and nothing is left when the context is gone.         *)
(***************************************************************************)
EXTENDS DescriptorTables, SequenceTheorems, FiniteSetTheorems, TLAPS

---------------------------------------------------------------------------
(* Sequences.                                                              *)

\* Popping a stack leaves what was below its top.
LEMMA FrontProperties ==
  ASSUME NEW S, NEW s \in Seq(S), s # <<>>
  PROVE  /\ Len(s) \in Nat /\ Len(s) > 0
         /\ Last(s) \in S /\ Last(s) = s[Len(s)]
         /\ Front(s) \in Seq(S)
         /\ Len(Front(s)) = Len(s) - 1
         /\ \A k \in 1 .. Len(s) - 1 : Front(s)[k] = s[k]
<1>1. Len(s) \in Nat /\ Len(s) > 0
  BY EmptySeq
<1>2. Last(s) = s[Len(s)] /\ s[Len(s)] \in S
  BY <1>1, ElementOfSeq DEF Last
<1> DEFINE n == Len(s) - 1
<1>3. n \in Nat /\ \A i \in 1 .. n : s[i] \in S
  BY <1>1, ElementOfSeq
<1>4. Front(s) = SubSeq(s, 1, n)
  BY DEF Front
<1> HIDE DEF n
<1>5. /\ SubSeq(s, 1, n) \in Seq(S)
      /\ Len(SubSeq(s, 1, n)) = n
      /\ \A k \in 1 .. n : SubSeq(s, 1, n)[k] = s[1 + k - 1]
  BY <1>3, SubSeqProperties
<1>6. \A k \in 1 .. n : 1 + k - 1 = k
  OBVIOUS
<1>7. Front(s) \in Seq(S) /\ Len(Front(s)) = n /\ \A k \in 1 .. n : Front(s)[k] = s[k]
  BY <1>4, <1>5, <1>6
<1> QED BY <1>1, <1>2, <1>7 DEF n
---------------------------------------------------------------------------
(* Lists that hand out IDs, those of IndexedList: objects Objs, slots d,   *)
(* stack f of free IDs, and the ID id[o] of each object.                   *)

NoID == -1

ListTyped(Objs, d, f, id) ==
  /\ d \in Seq(Objs \cup {Null})
  /\ f \in Seq(0 .. Len(d) - 1)
  /\ id \in [Objs -> {NoID} \cup 0 .. Len(d) - 1]

LeadBack(Objs, d, id) ==
  /\ \A o \in Objs : id[o] # NoID => d[id[o] + 1] = o
  /\ \A n \in DOMAIN d : d[n] # Null => id[d[n]] = n - 1

HolesAreFree(d, f) ==
  /\ \A n \in DOMAIN d : d[n] = Null <=> \E k \in DOMAIN f : f[k] = n - 1
  /\ \A j, k \in DOMAIN f : f[j] = f[k] => j = k

Indexed(Objs, d, f, id) == ListTyped(Objs, d, f, id) /\ LeadBack(Objs, d, id) /\ HolesAreFree(d, f)

\* The steps of a list, to the successors d2, f2, id2.
EntersAtEnd(o, d, f, id, d2, f2, id2) ==
  /\ id[o] = NoID /\ f = <<>>
  /\ d2 = Append(d, o) /\ f2 = f /\ id2 = [id EXCEPT ![o] = Len(d)]

EntersHole(o, d, f, id, d2, f2, id2) ==
  /\ id[o] = NoID /\ f # <<>>
  /\ d2 = [d EXCEPT ![Last(f) + 1] = o]
  /\ f2 = Front(f)
  /\ id2 = [id EXCEPT ![o] = Last(f)]

Leaves(o, d, f, id, d2, f2, id2) ==
  /\ id[o] # NoID
  /\ d2 = [d EXCEPT ![id[o] + 1] = Null]
  /\ f2 = Append(f, id[o])
  /\ id2 = [id EXCEPT ![o] = NoID]

LEMMA AtEndStaysIndexed ==
  ASSUME NEW Objs, Null \notin Objs, NEW d, NEW f, NEW id, Indexed(Objs, d, f, id), NEW o \in Objs,
         NEW d2, NEW f2, NEW id2, EntersAtEnd(o, d, f, id, d2, f2, id2)
  PROVE  Indexed(Objs, d2, f2, id2)
<1> DEFINE N == Len(d)
<1>1. /\ d \in Seq(Objs \cup {Null})
      /\ N \in Nat
      /\ DOMAIN d = 1 .. N
      /\ id \in [Objs -> {NoID} \cup 0 .. N - 1]
      /\ id[o] = NoID /\ f = <<>> /\ f2 = f
  BY LenProperties DEF Indexed, ListTyped, EntersAtEnd
<1>2. /\ d2 \in Seq(Objs \cup {Null})
      /\ Len(d2) = N + 1
      /\ DOMAIN d2 = 1 .. N + 1
      /\ d2[N + 1] = o
      /\ \A n \in 1 .. N : d2[n] = d[n]
  <2>1. d2 = Append(d, o) BY DEF EntersAtEnd
  <2> QED BY <1>1, <2>1, AppendProperties, LenProperties
<1>3. /\ id2 = [id EXCEPT ![o] = N]
      /\ \A p \in Objs : id2[p] = IF p = o THEN N ELSE id[p]
  BY <1>1 DEF EntersAtEnd
<1>4. ListTyped(Objs, d2, f2, id2)
  <2>1. id2 \in [Objs -> {NoID} \cup 0 .. N] BY <1>1, <1>3
  <2>2. f2 \in Seq(0 .. N) BY <1>1
  <2> QED BY <1>1, <1>2, <2>1, <2>2 DEF ListTyped
<1>5. \A n \in 1 .. N : d[n] # Null
  BY <1>1 DEF Indexed, HolesAreFree
<1>6. LeadBack(Objs, d2, id2)
  <2>1. ASSUME NEW p \in Objs, id2[p] # NoID PROVE d2[id2[p] + 1] = p
    <3>1. CASE p = o BY <3>1, <1>2, <1>3
    <3>2. CASE p # o
      <4>1. id2[p] = id[p] /\ id[p] \in 0 .. N - 1 BY <1>1, <1>3, <3>2, <2>1
      <4>2. d[id[p] + 1] = p BY <4>1, <2>1 DEF Indexed, LeadBack
      <4>3. id[p] + 1 \in 1 .. N BY <4>1, <1>1
      <4> QED BY <4>1, <4>2, <4>3, <1>2
    <3> QED BY <3>1, <3>2
  <2>2. ASSUME NEW n \in DOMAIN d2, d2[n] # Null PROVE id2[d2[n]] = n - 1
    <3>1. CASE n = N + 1 BY <3>1, <1>1, <1>2, <1>3
    <3>2. CASE n # N + 1
      <4>1. n \in 1 .. N /\ d2[n] = d[n] BY <1>1, <1>2, <3>2
      <4>2. d[n] \in Objs BY <1>1, <4>1, <1>5, ElementOfSeq
      <4>3. id[d[n]] = n - 1 BY <4>1, <1>1, <1>5 DEF Indexed, LeadBack
      <4>4. d[n] # o BY <4>1, <4>3, <1>1 DEF NoID
      <4> QED BY <4>1, <4>2, <4>3, <4>4, <1>3
    <3> QED BY <3>1, <3>2
  <2> QED BY <2>1, <2>2 DEF LeadBack
<1>7. HolesAreFree(d2, f2)
  <2>1. DOMAIN f2 = {} BY <1>1
  <2>2. \A n \in DOMAIN d2 : d2[n] # Null BY <1>1, <1>2, <1>5
  <2> QED BY <2>1, <2>2 DEF HolesAreFree
<1> QED BY <1>4, <1>6, <1>7 DEF Indexed

LEMMA InHoleStaysIndexed ==
  ASSUME NEW Objs, Null \notin Objs, NEW d, NEW f, NEW id, Indexed(Objs, d, f, id), NEW o \in Objs,
         NEW d2, NEW f2, NEW id2, EntersHole(o, d, f, id, d2, f2, id2)
  PROVE  Indexed(Objs, d2, f2, id2)
<1> DEFINE N == Len(d)
           K == Len(f)
           h == Last(f)
<1>1. /\ d \in Seq(Objs \cup {Null})
      /\ N \in Nat
      /\ DOMAIN d = 1 .. N
      /\ id \in [Objs -> {NoID} \cup 0 .. N - 1]
      /\ f \in Seq(0 .. N - 1)
      /\ id[o] = NoID /\ f # <<>>
  BY LenProperties DEF Indexed, ListTyped, EntersHole
<1>2. /\ K \in Nat /\ K > 0
      /\ h \in 0 .. N - 1 /\ h = f[K]
      /\ f2 \in Seq(0 .. N - 1)
      /\ Len(f2) = K - 1
      /\ \A k \in 1 .. K - 1 : f2[k] = f[k]
      /\ DOMAIN f = 1 .. K
      /\ DOMAIN f2 = 1 .. K - 1
  <2>1. f2 = Front(f) BY DEF EntersHole
  <2> QED BY <1>1, <2>1, FrontProperties, LenProperties
<1>3. /\ d2 \in Seq(Objs \cup {Null})
      /\ Len(d2) = N
      /\ DOMAIN d2 = 1 .. N
      /\ \A n \in 1 .. N : d2[n] = IF n = h + 1 THEN o ELSE d[n]
  <2>1. d2 = [d EXCEPT ![h + 1] = o] BY DEF EntersHole
  <2>2. h + 1 \in 1 .. N BY <1>1, <1>2
  <2> QED BY <1>1, <2>1, <2>2, ExceptSeq
<1>4. \A p \in Objs : id2[p] = IF p = o THEN h ELSE id[p]
  BY <1>1 DEF EntersHole
<1>5. ListTyped(Objs, d2, f2, id2)
  <2>1. id2 \in [Objs -> {NoID} \cup 0 .. N - 1] BY <1>1, <1>2 DEF EntersHole
  <2> QED BY <1>2, <1>3, <2>1 DEF ListTyped
<1>6. /\ h + 1 \in 1 .. N
      /\ d[h + 1] = Null
  <2>1. h + 1 \in 1 .. N /\ h = (h + 1) - 1 /\ K \in 1 .. K BY <1>1, <1>2
  <2>2. \A n \in 1 .. N : (\E k \in 1 .. K : f[k] = n - 1) => d[n] = Null
    BY <1>1, <1>2 DEF Indexed, HolesAreFree
  <2>3. f[K] = (h + 1) - 1 BY <2>1, <1>2
  <2> QED BY <2>1, <2>2, <2>3
<1>7. LeadBack(Objs, d2, id2)
  <2>1. ASSUME NEW p \in Objs, id2[p] # NoID PROVE d2[id2[p] + 1] = p
    <3>1. CASE p = o BY <3>1, <1>3, <1>4, <1>6
    <3>2. CASE p # o
      <4>1. id2[p] = id[p] /\ id[p] \in 0 .. N - 1 BY <1>1, <1>4, <3>2, <2>1
      <4>2. d[id[p] + 1] = p BY <4>1, <2>1 DEF Indexed, LeadBack
      <4>3. id[p] + 1 \in 1 .. N /\ id[p] + 1 # h + 1
        BY <4>1, <4>2, <1>1, <1>6
      <4> QED BY <4>1, <4>2, <4>3, <1>3
    <3> QED BY <3>1, <3>2
  <2>2. ASSUME NEW n \in DOMAIN d2, d2[n] # Null PROVE id2[d2[n]] = n - 1
    <3>1. CASE n = h + 1 BY <3>1, <1>2, <1>3, <1>4, <1>6
    <3>2. CASE n # h + 1
      <4>1. n \in 1 .. N /\ d2[n] = d[n] BY <1>3, <3>2
      <4>2. d[n] \in Objs BY <1>1, <4>1, <2>2, ElementOfSeq
      <4>3. id[d[n]] = n - 1 BY <4>1, <1>1, <2>2 DEF Indexed, LeadBack
      <4>4. d[n] # o BY <4>1, <4>3, <1>1 DEF NoID
      <4> QED BY <4>1, <4>2, <4>3, <4>4, <1>4
    <3> QED BY <3>1, <3>2
  <2> QED BY <2>1, <2>2 DEF LeadBack
<1>8. HolesAreFree(d2, f2)
  <2>1. ASSUME NEW j \in 1 .. K - 1, NEW k \in 1 .. K - 1, f2[j] = f2[k]
        PROVE  j = k
    <3>1. j \in DOMAIN f /\ k \in DOMAIN f BY <1>2
    <3>2. f[j] = f[k] BY <1>2, <2>1
    <3> QED BY <3>1, <3>2 DEF Indexed, HolesAreFree
  <2>2. ASSUME NEW k \in 1 .. K - 1 PROVE f[k] # h
    <3>1. k \in DOMAIN f /\ K \in DOMAIN f /\ k # K BY <1>2
    <3> QED BY <3>1, <1>2 DEF Indexed, HolesAreFree
  <2>3. ASSUME NEW n \in 1 .. N
        PROVE  d2[n] = Null <=> \E k \in 1 .. K - 1 : f2[k] = n - 1
    <3>1. d[n] = Null <=> \E k \in 1 .. K : f[k] = n - 1
      BY <1>1, <1>2 DEF Indexed, HolesAreFree
    <3>2. CASE n = h + 1
      <4>1. d2[n] # Null BY <3>2, <1>3
      <4>2. n - 1 = h BY <3>2, <1>2
      <4> QED BY <4>1, <4>2, <2>2, <1>2
    <3>3. CASE n # h + 1
      <4>1. d2[n] = d[n] /\ n - 1 # h BY <3>3, <1>2, <1>3
      <4>2. (\E k \in 1 .. K : f[k] = n - 1)
              <=> \E k \in 1 .. K - 1 : f[k] = n - 1
        BY <4>1, <1>2
      <4> QED BY <4>1, <4>2, <3>1, <1>2
    <3> QED BY <3>2, <3>3
  <2> QED BY <2>1, <2>3, <1>2, <1>3 DEF HolesAreFree
<1> QED BY <1>5, <1>7, <1>8 DEF Indexed

LEMMA LeavingStaysIndexed ==
  ASSUME NEW Objs, Null \notin Objs, NEW d, NEW f, NEW id, Indexed(Objs, d, f, id), NEW o \in Objs,
         NEW d2, NEW f2, NEW id2, Leaves(o, d, f, id, d2, f2, id2)
  PROVE  Indexed(Objs, d2, f2, id2)
<1> DEFINE N == Len(d)
           K == Len(f)
           h == id[o]
<1>1. /\ d \in Seq(Objs \cup {Null})
      /\ N \in Nat
      /\ DOMAIN d = 1 .. N
      /\ id \in [Objs -> {NoID} \cup 0 .. N - 1]
      /\ f \in Seq(0 .. N - 1)
      /\ K \in Nat /\ DOMAIN f = 1 .. K
      /\ h \in 0 .. N - 1 /\ h + 1 \in 1 .. N
      /\ d[h + 1] = o
  <2>1. id[o] # NoID BY DEF Leaves
  <2>2. /\ d \in Seq(Objs \cup {Null})
        /\ id \in [Objs -> {NoID} \cup 0 .. N - 1]
        /\ f \in Seq(0 .. N - 1)
    BY DEF Indexed, ListTyped
  <2>3. N \in Nat /\ DOMAIN d = 1 .. N /\ K \in Nat /\ DOMAIN f = 1 .. K
    BY <2>2, LenProperties
  <2>4. h \in 0 .. N - 1 /\ h + 1 \in 1 .. N BY <2>1, <2>2, <2>3
  <2>5. d[h + 1] = o BY <2>1 DEF Indexed, LeadBack
  <2> QED BY <2>2, <2>3, <2>4, <2>5
<1>2. /\ f2 \in Seq(0 .. N - 1)
      /\ Len(f2) = K + 1
      /\ DOMAIN f2 = 1 .. K + 1
      /\ f2[K + 1] = h
      /\ \A k \in 1 .. K : f2[k] = f[k]
  <2>1. f2 = Append(f, h) BY DEF Leaves
  <2> QED BY <1>1, <2>1, AppendProperties, LenProperties
<1>3. /\ d2 \in Seq(Objs \cup {Null})
      /\ Len(d2) = N
      /\ DOMAIN d2 = 1 .. N
      /\ \A n \in 1 .. N : d2[n] = IF n = h + 1 THEN Null ELSE d[n]
  <2>1. d2 = [d EXCEPT ![h + 1] = Null] BY DEF Leaves
  <2> QED BY <1>1, <2>1, ExceptSeq
<1>4. \A p \in Objs : id2[p] = IF p = o THEN NoID ELSE id[p]
  BY <1>1 DEF Leaves
<1>5. ListTyped(Objs, d2, f2, id2)
  <2>1. id2 \in [Objs -> {NoID} \cup 0 .. N - 1] BY <1>1 DEF Leaves
  <2> QED BY <1>2, <1>3, <2>1 DEF ListTyped
<1>6. LeadBack(Objs, d2, id2)
  <2>1. ASSUME NEW p \in Objs, id2[p] # NoID PROVE d2[id2[p] + 1] = p
    <3>1. p # o /\ id2[p] = id[p] BY <1>4, <2>1
    <3>2. id[p] \in 0 .. N - 1 /\ id[p] + 1 \in 1 .. N BY <1>1, <2>1, <3>1
    <3>3. d[id[p] + 1] = p BY <2>1, <3>1 DEF Indexed, LeadBack
    <3>4. id[p] + 1 # h + 1 BY <1>1, <3>1, <3>3
    <3> QED BY <3>1, <3>2, <3>3, <3>4, <1>3
  <2>2. ASSUME NEW n \in DOMAIN d2, d2[n] # Null PROVE id2[d2[n]] = n - 1
    <3>1. n \in 1 .. N /\ n # h + 1 /\ d2[n] = d[n] BY <1>3, <2>2
    <3>2. d[n] \in Objs BY <1>1, <2>2, <3>1, ElementOfSeq
    <3>3. id[d[n]] = n - 1 BY <1>1, <2>2, <3>1 DEF Indexed, LeadBack
    <3>4. d[n] # o BY <3>1, <3>3, <1>1
    <3> QED BY <3>1, <3>2, <3>3, <3>4, <1>4
  <2> QED BY <2>1, <2>2 DEF LeadBack
<1>7. HolesAreFree(d2, f2)
  <2>1. \A k \in 1 .. K : f[k] # h
    <3>1. d[h + 1] # Null BY <1>1
    <3>2. \A n \in 1 .. N : (\E k \in 1 .. K : f[k] = n - 1) => d[n] = Null
      BY <1>1 DEF Indexed, HolesAreFree
    <3>3. (h + 1) - 1 = h BY <1>1
    <3>4. ~ \E k \in 1 .. K : f[k] = (h + 1) - 1 BY <1>1, <3>1, <3>2
    <3> HIDE DEF h, K
    <3> QED BY <3>3, <3>4
  <2>2. ASSUME NEW j \in 1 .. K + 1, NEW k \in 1 .. K + 1, f2[j] = f2[k]
        PROVE  j = k
    <3>1. CASE j \in 1 .. K /\ k \in 1 .. K
      <4>1. f[j] = f[k] BY <1>2, <2>2, <3>1
      <4> QED BY <4>1, <3>1, <1>1 DEF Indexed, HolesAreFree
    <3>2. CASE j = K + 1 /\ k \in 1 .. K BY <1>2, <2>1, <2>2, <3>2
    <3>3. CASE j \in 1 .. K /\ k = K + 1 BY <1>2, <2>1, <2>2, <3>3
    <3> QED BY <1>1, <3>1, <3>2, <3>3
  <2>3. ASSUME NEW n \in 1 .. N
        PROVE  d2[n] = Null <=> \E k \in 1 .. K + 1 : f2[k] = n - 1
    <3>1. d[n] = Null <=> \E k \in 1 .. K : f[k] = n - 1
      BY <1>1 DEF Indexed, HolesAreFree
    <3>2. CASE n = h + 1
      <4>1. d2[n] = Null BY <3>2, <1>3
      <4>2. f2[K + 1] = n - 1 /\ K + 1 \in 1 .. K + 1 BY <3>2, <1>1, <1>2
      <4> QED BY <4>1, <4>2
    <3>3. CASE n # h + 1
      <4>1. d2[n] = d[n] /\ n - 1 # h BY <3>3, <1>1, <1>3
      <4>2. \A k \in 1 .. K + 1 : k \in 1 .. K \/ k = K + 1 BY <1>1
      <4>3. \A k \in 1 .. K : k \in 1 .. K + 1 BY <1>1
      <4>4. (\E k \in 1 .. K : f[k] = n - 1)
              <=> \E k \in 1 .. K + 1 : f2[k] = n - 1
        <5> HIDE DEF h, K
        <5> QED BY <4>1, <4>2, <4>3, <1>2
      <4> QED BY <4>1, <4>4, <3>1
    <3> QED BY <3>2, <3>3
  <2> QED BY <2>2, <2>3, <1>2, <1>3 DEF HolesAreFree
<1> QED BY <1>5, <1>6, <1>7 DEF Indexed

\* A list without holes, whose IDs lead back, is no longer than there are objects.
LEMMA FullListIsCompact ==
  ASSUME NEW Objs, IsFiniteSet(Objs), NEW d \in Seq(Objs), NEW id, \A n \in 1 .. Len(d) : id[d[n]] = n - 1
  PROVE  Len(d) <= Cardinality(Objs)
<1> DEFINE g == [n \in 1 .. Len(d) |-> d[n]]
<1>1. Len(d) \in Nat BY LenProperties
<1>2. g \in [1 .. Len(d) -> Objs] BY ElementOfSeq
<1>3. ASSUME NEW j \in 1 .. Len(d), NEW k \in 1 .. Len(d), g[j] = g[k] PROVE j = k
  <2>1. id[d[j]] = j - 1 /\ id[d[k]] = k - 1 /\ d[j] = d[k] BY <1>3
  <2> QED BY <1>1, <2>1
<1>4. g \in Injection(1 .. Len(d), Objs)
  BY <1>2, <1>3 DEF Injection, IsInjective
<1>5. Cardinality(1 .. Len(d)) <= Cardinality(Objs)
  <2> HIDE DEF g
  <2> QED BY <1>4, FS_Injection
<1>6. Cardinality(1 .. Len(d)) = Len(d)
  <2>1. Cardinality(1 .. Len(d)) = IF 1 > Len(d) THEN 0 ELSE Len(d) - 1 + 1
    <3> DEFINE n == Len(d)
    <3>1. 1 \in Int /\ n \in Int BY <1>1
    <3> HIDE DEF n
    <3>2. Cardinality(1 .. n) = IF 1 > n THEN 0 ELSE n - 1 + 1 BY <3>1, FS_Interval, Zenon
    <3> QED BY <3>2 DEF n
  <2>2. (IF 1 > Len(d) THEN 0 ELSE Len(d) - 1 + 1) = Len(d) BY <1>1
  <2> QED BY <2>1, <2>2
<1> QED BY <1>5, <1>6

---------------------------------------------------------------------------
(* What entering and leaving a list does to the IDs.                       *)

LEMMA EntryGivesAnID ==
  ASSUME NEW Objs, NEW d, NEW f, NEW id, Indexed(Objs, d, f, id), NEW o \in Objs,
         NEW d2, NEW f2, NEW id2,
         EntersAtEnd(o, d, f, id, d2, f2, id2) \/ EntersHole(o, d, f, id, d2, f2, id2)
  PROVE  /\ id2[o] \in Nat
         /\ \A p \in Objs \ {o} : id2[p] = id[p]
         /\ d = <<>> /\ f = <<>> => id2[o] = 0
<1>1. d \in Seq(Objs \cup {Null}) /\ f \in Seq(0 .. Len(d) - 1) /\ id \in [Objs -> {NoID} \cup 0 .. Len(d) - 1]
  BY DEF Indexed, ListTyped
<1>2. Len(d) \in Nat /\ (d = <<>> => Len(d) = 0) BY <1>1, LenProperties
<1>3. ASSUME NEW n \in Nat, id2 = [id EXCEPT ![o] = n]
      PROVE  id2[o] = n /\ \A p \in Objs \ {o} : id2[p] = id[p]
  BY <1>1, <1>3
<1>4. CASE EntersAtEnd(o, d, f, id, d2, f2, id2)
  <2>1. id2 = [id EXCEPT ![o] = Len(d)] BY <1>4 DEF EntersAtEnd
  <2> QED BY <2>1, <1>2, <1>3
<1>5. CASE EntersHole(o, d, f, id, d2, f2, id2)
  <2>1. f # <<>> /\ id2 = [id EXCEPT ![o] = Last(f)] BY <1>5 DEF EntersHole
  <2>2. Last(f) \in 0 .. Len(d) - 1 BY <2>1, <1>1, FrontProperties
  <2>3. Last(f) \in Nat BY <2>2, <1>2
  <2> QED BY <2>1, <2>3, <1>3
<1> QED BY <1>4, <1>5

LEMMA LeavingTakesTheID ==
  ASSUME NEW Objs, NEW d, NEW f, NEW id, Indexed(Objs, d, f, id), NEW o \in Objs,
         NEW d2, NEW f2, NEW id2, Leaves(o, d, f, id, d2, f2, id2)
  PROVE  id2[o] = NoID /\ \A p \in Objs \ {o} : id2[p] = id[p]
  BY DEF Indexed, ListTyped, Leaves

LEMMA IDsAreNatural ==
  ASSUME NEW Objs, NEW d, NEW f, NEW id, Indexed(Objs, d, f, id), NEW o \in Objs, id[o] # NoID
  PROVE  /\ id[o] \in Nat /\ Len(d) \in Nat /\ id[o] < Len(d) /\ id[o] + 1 \in DOMAIN d
         /\ d[id[o] + 1] = o
         /\ \A p \in Objs : id[p] = id[o] => p = o
<1>1. d \in Seq(Objs \cup {Null}) /\ id \in [Objs -> {NoID} \cup 0 .. Len(d) - 1]
  BY DEF Indexed, ListTyped
<1>2. Len(d) \in Nat /\ DOMAIN d = 1 .. Len(d) BY <1>1, LenProperties
<1>3. id[o] \in 0 .. Len(d) - 1 BY <1>1
<1>4. \A p \in Objs : id[p] # NoID => d[id[p] + 1] = p BY DEF Indexed, LeadBack
<1> QED BY <1>2, <1>3, <1>4

---------------------------------------------------------------------------
(* The two lists are such lists.                                           *)

IndexedImages == Indexed(AllImages, imageData, imageFreeIDs, imageID)
IndexedSamplers == Indexed(AllSamplers, samplerData, samplerFreeIDs, samplerID)

LEMMA ImageListIsIndexed ==
  /\ ImageList!Indexed <=> IndexedImages
  /\ ImageList!Indexed' <=> IndexedImages'
<1> USE DEF ImageList!Indexed, ImageList!TypeOK, ImageList!IDsLeadBack, ImageList!FreeIDsAreTheHoles,
      ImageList!None, IndexedImages, Indexed, ListTyped, LeadBack, HolesAreFree, NoID
<1>1. ImageList!Indexed <=> IndexedImages OBVIOUS
<1>2. ImageList!Indexed' <=> IndexedImages' OBVIOUS
<1> QED BY <1>1, <1>2

LEMMA SamplerListIsIndexed ==
  /\ SamplerList!Indexed <=> IndexedSamplers
  /\ SamplerList!Indexed' <=> IndexedSamplers'
<1> USE DEF SamplerList!Indexed, SamplerList!TypeOK, SamplerList!IDsLeadBack,
      SamplerList!FreeIDsAreTheHoles, SamplerList!None,
      IndexedSamplers, Indexed, ListTyped, LeadBack, HolesAreFree, NoID
<1>1. SamplerList!Indexed <=> IndexedSamplers OBVIOUS
<1>2. SamplerList!Indexed' <=> IndexedSamplers' OBVIOUS
<1> QED BY <1>1, <1>2

LEMMA ImageListSteps ==
  ASSUME NEW o
  PROVE  /\ ImageList!Track(o) <=>
              \/ EntersAtEnd(o, imageData, imageFreeIDs, imageID, imageData', imageFreeIDs', imageID')
              \/ EntersHole(o, imageData, imageFreeIDs, imageID, imageData', imageFreeIDs', imageID')
         /\ ImageList!Forget(o) <=>
              Leaves(o, imageData, imageFreeIDs, imageID, imageData', imageFreeIDs', imageID')
  BY DEF ImageList!Track, ImageList!TrackAtEnd, ImageList!TrackInHole, ImageList!Forget, ImageList!None,
    ImageList!Last, ImageList!Front, EntersAtEnd, EntersHole, Leaves, NoID, Last, Front

LEMMA SamplerListSteps ==
  ASSUME NEW o
  PROVE  /\ SamplerList!Track(o) <=>
              \/ EntersAtEnd(o, samplerData, samplerFreeIDs, samplerID,
                             samplerData', samplerFreeIDs', samplerID')
              \/ EntersHole(o, samplerData, samplerFreeIDs, samplerID,
                            samplerData', samplerFreeIDs', samplerID')
         /\ SamplerList!Forget(o) <=>
              Leaves(o, samplerData, samplerFreeIDs, samplerID,
                     samplerData', samplerFreeIDs', samplerID')
  BY DEF SamplerList!Track, SamplerList!TrackAtEnd, SamplerList!TrackInHole, SamplerList!Forget,
    SamplerList!None, SamplerList!Last, SamplerList!Front, EntersAtEnd, EntersHole, Leaves, NoID,
    Last, Front

LEMMA TrackImage ==
  ASSUME ImageList!Indexed, NEW o \in AllImages, ImageList!Track(o)
  PROVE  /\ ImageList!Indexed'
         /\ imageID'[o] \in Nat
         /\ \A p \in AllImages \ {o} : imageID'[p] = imageID[p]
         /\ imageData = <<>> /\ imageFreeIDs = <<>> => imageID'[o] = 0
<1>1. Indexed(AllImages, imageData, imageFreeIDs, imageID) BY ImageListIsIndexed DEF IndexedImages
<1>2. \/ EntersAtEnd(o, imageData, imageFreeIDs, imageID, imageData', imageFreeIDs', imageID')
      \/ EntersHole(o, imageData, imageFreeIDs, imageID, imageData', imageFreeIDs', imageID')
  BY ImageListSteps
<1>3. Null \notin AllImages BY ObjectsDiffer
<1>4. Indexed(AllImages, imageData', imageFreeIDs', imageID')
  BY <1>1, <1>2, <1>3, AtEndStaysIndexed, InHoleStaysIndexed
<1>5. ImageList!Indexed' BY <1>4, ImageListIsIndexed DEF IndexedImages
<1> QED BY <1>1, <1>2, <1>5, EntryGivesAnID

LEMMA TrackSampler ==
  ASSUME SamplerList!Indexed, NEW o \in AllSamplers, SamplerList!Track(o)
  PROVE  /\ SamplerList!Indexed'
         /\ samplerID'[o] \in Nat
         /\ \A p \in AllSamplers \ {o} : samplerID'[p] = samplerID[p]
         /\ samplerData = <<>> /\ samplerFreeIDs = <<>> => samplerID'[o] = 0
<1>1. Indexed(AllSamplers, samplerData, samplerFreeIDs, samplerID)
  BY SamplerListIsIndexed DEF IndexedSamplers
<1>2. \/ EntersAtEnd(o, samplerData, samplerFreeIDs, samplerID,
                     samplerData', samplerFreeIDs', samplerID')
      \/ EntersHole(o, samplerData, samplerFreeIDs, samplerID,
                    samplerData', samplerFreeIDs', samplerID')
  BY SamplerListSteps
<1>3. Null \notin AllSamplers BY ObjectsDiffer
<1>4. Indexed(AllSamplers, samplerData', samplerFreeIDs', samplerID')
  BY <1>1, <1>2, <1>3, AtEndStaysIndexed, InHoleStaysIndexed
<1>5. SamplerList!Indexed' BY <1>4, SamplerListIsIndexed DEF IndexedSamplers
<1> QED BY <1>1, <1>2, <1>5, EntryGivesAnID

LEMMA ForgetImage ==
  ASSUME ImageList!Indexed, NEW o \in AllImages, ImageList!Forget(o)
  PROVE  /\ ImageList!Indexed'
         /\ imageID'[o] = -1
         /\ \A p \in AllImages \ {o} : imageID'[p] = imageID[p]
<1>1. Indexed(AllImages, imageData, imageFreeIDs, imageID) BY ImageListIsIndexed DEF IndexedImages
<1>2. Leaves(o, imageData, imageFreeIDs, imageID, imageData', imageFreeIDs', imageID')
  BY ImageListSteps
<1>3. Null \notin AllImages BY ObjectsDiffer
<1>4. Indexed(AllImages, imageData', imageFreeIDs', imageID')
  BY <1>1, <1>2, <1>3, LeavingStaysIndexed
<1>5. ImageList!Indexed' BY <1>4, ImageListIsIndexed DEF IndexedImages
<1> QED BY <1>1, <1>2, <1>5, LeavingTakesTheID DEF NoID

LEMMA ForgetSampler ==
  ASSUME SamplerList!Indexed, NEW o \in AllSamplers, SamplerList!Forget(o)
  PROVE  /\ SamplerList!Indexed'
         /\ samplerID'[o] = -1
         /\ \A p \in AllSamplers \ {o} : samplerID'[p] = samplerID[p]
<1>1. Indexed(AllSamplers, samplerData, samplerFreeIDs, samplerID)
  BY SamplerListIsIndexed DEF IndexedSamplers
<1>2. Leaves(o, samplerData, samplerFreeIDs, samplerID, samplerData', samplerFreeIDs', samplerID')
  BY SamplerListSteps
<1>3. Null \notin AllSamplers BY ObjectsDiffer
<1>4. Indexed(AllSamplers, samplerData', samplerFreeIDs', samplerID')
  BY <1>1, <1>2, <1>3, LeavingStaysIndexed
<1>5. SamplerList!Indexed' BY <1>4, SamplerListIsIndexed DEF IndexedSamplers
<1> QED BY <1>1, <1>2, <1>5, LeavingTakesTheID DEF NoID

LEMMA ImageIDs ==
  ASSUME ImageList!Indexed, NEW o \in AllImages, imageID[o] # -1
  PROVE  /\ imageID[o] \in Nat /\ Len(imageData) \in Nat /\ imageID[o] < Len(imageData)
         /\ imageID[o] + 1 \in DOMAIN imageData /\ imageData[imageID[o] + 1] = o
         /\ \A p \in AllImages : imageID[p] = imageID[o] => p = o
<1>1. Indexed(AllImages, imageData, imageFreeIDs, imageID) BY ImageListIsIndexed DEF IndexedImages
<1> QED BY <1>1, IDsAreNatural DEF NoID

LEMMA SamplerIDs ==
  ASSUME SamplerList!Indexed, NEW o \in AllSamplers, samplerID[o] # -1
  PROVE  /\ samplerID[o] \in Nat /\ Len(samplerData) \in Nat /\ samplerID[o] < Len(samplerData)
         /\ samplerID[o] + 1 \in DOMAIN samplerData /\ samplerData[samplerID[o] + 1] = o
         /\ \A p \in AllSamplers : samplerID[p] = samplerID[o] => p = o
<1>1. Indexed(AllSamplers, samplerData, samplerFreeIDs, samplerID)
  BY SamplerListIsIndexed DEF IndexedSamplers
<1> QED BY <1>1, IDsAreNatural DEF NoID

LEMMA KeepImage ==
  ASSUME ImageList!Indexed, UNCHANGED <<imageData, imageFreeIDs, imageID>>
  PROVE  ImageList!Indexed'
  BY DEF ImageList!Indexed, ImageList!TypeOK, ImageList!IDsLeadBack, ImageList!FreeIDsAreTheHoles, ImageList!None

LEMMA KeepSampler ==
  ASSUME SamplerList!Indexed, UNCHANGED <<samplerData, samplerFreeIDs, samplerID>>
  PROVE  SamplerList!Indexed'
  BY DEF SamplerList!Indexed, SamplerList!TypeOK, SamplerList!IDsLeadBack, SamplerList!FreeIDsAreTheHoles, SamplerList!None

---------------------------------------------------------------------------
(* The list on its own: ImageList, of whatever set of objects.             *)

\* A list without holes is no longer than there are objects.
LEMMA FullIndexedIsCompact ==
  ASSUME NEW Objs, IsFiniteSet(Objs), NEW d, NEW f, NEW id, Indexed(Objs, d, f, id), f = <<>>
  PROVE  Len(d) <= Cardinality(Objs)
<1>1. d \in Seq(Objs \cup {Null}) BY DEF Indexed, ListTyped
<1>2. Len(d) \in Nat /\ DOMAIN d = 1 .. Len(d) BY <1>1, LenProperties
<1>3. \A n \in DOMAIN d : d[n] # Null BY DEF Indexed, HolesAreFree
<1>4. \A n \in 1 .. Len(d) : d[n] \in Objs BY <1>1, <1>2, <1>3, ElementOfSeq
<1>5. d \in Seq(Objs) BY <1>1, <1>2, <1>4
<1>6. \A n \in 1 .. Len(d) : id[d[n]] = n - 1 BY <1>2, <1>3 DEF Indexed, LeadBack
<1> QED BY <1>5, <1>6, FullListIsCompact

LEMMA ListNextKeepsIndexed ==
  ImageList!Indexed /\ [ImageList!Next]_(ImageList!vars) => ImageList!Indexed'
<1> SUFFICES ASSUME ImageList!Indexed, [ImageList!Next]_(ImageList!vars) PROVE ImageList!Indexed'
  OBVIOUS
<1>1. ASSUME NEW o \in AllImages, ImageList!Track(o) PROVE ImageList!Indexed'
  BY <1>1, TrackImage
<1>2. ASSUME NEW o \in AllImages, ImageList!Forget(o) PROVE ImageList!Indexed'
  BY <1>2, ForgetImage
<1>3. CASE UNCHANGED ImageList!vars
  BY <1>3, KeepImage DEF ImageList!vars
<1> QED BY <1>1, <1>2, <1>3 DEF ImageList!Next

LEMMA ListInitIndexed == ImageList!Init => ImageList!Indexed
  BY DEF ImageList!Init, ImageList!Indexed, ImageList!TypeOK, ImageList!IDsLeadBack,
    ImageList!FreeIDsAreTheHoles, ImageList!None

\* The inductive invariant of IndexedListOf and ListOf, type invariant included.
THEOREM IndexedAlways == ImageList!Spec => []ImageList!Indexed
  BY ListInitIndexed, ListNextKeepsIndexed, PTL DEF ImageList!Spec

\* track() and forget(): the ID an object was given leads back to it as long as
\* the object is in the list.
THEOREM IDsAlwaysLeadBack == ImageList!Spec => []ImageList!IDsLeadBack
<1>1. ImageList!Indexed => ImageList!IDsLeadBack BY DEF ImageList!Indexed
<1> QED BY <1>1, IndexedAlways, PTL

\* The list a descriptor set is sized by never has more slots than there are
\* objects, because it only grows when it has no hole.
THEOREM ListIsCompact ==
  ASSUME IsFiniteSet(AllImages)
  PROVE  ImageList!Spec => []ImageList!ListStaysCompact
<1> DEFINE Compact == Len(imageData) <= Cardinality(AllImages)
<1>1. ImageList!Init => Compact
  <2> SUFFICES ASSUME ImageList!Init PROVE Compact OBVIOUS
  <2>1. Len(imageData) = 0 BY DEF ImageList!Init
  <2> QED BY <2>1, FS_CardinalityType
<1>2. ImageList!Indexed /\ Compact /\ [ImageList!Next]_(ImageList!vars) => Compact'
  <2> SUFFICES ASSUME ImageList!Indexed, Compact, [ImageList!Next]_(ImageList!vars) PROVE Compact'
    OBVIOUS
  <2>1. Indexed(AllImages, imageData, imageFreeIDs, imageID) BY ImageListIsIndexed DEF IndexedImages
  <2>2. imageData \in Seq(AllImages \cup {Null}) /\ imageFreeIDs \in Seq(0 .. Len(imageData) - 1)
    BY <2>1 DEF Indexed, ListTyped
  <2>3. ASSUME NEW o \in AllImages,
               EntersAtEnd(o, imageData, imageFreeIDs, imageID, imageData', imageFreeIDs', imageID')
        PROVE  Compact'
    <3>1. Null \notin AllImages BY ObjectsDiffer
    <3>2. Indexed(AllImages, imageData', imageFreeIDs', imageID')
      BY <2>1, <2>3, <3>1, AtEndStaysIndexed
    <3>3. imageFreeIDs' = <<>> BY <2>3 DEF EntersAtEnd
    <3> QED BY <3>2, <3>3, FullIndexedIsCompact
  <2>4. ASSUME Len(imageData') = Len(imageData) PROVE Compact' BY <2>4
  <2>5. ASSUME NEW o \in AllImages,
               EntersHole(o, imageData, imageFreeIDs, imageID, imageData', imageFreeIDs', imageID')
        PROVE  Compact'
    <3>1. Last(imageFreeIDs) \in 0 .. Len(imageData) - 1
      BY <2>2, <2>5, FrontProperties DEF EntersHole
    <3>2. imageData' = [imageData EXCEPT ![Last(imageFreeIDs) + 1] = o] BY <2>5 DEF EntersHole
    <3>3. Len(imageData) \in Nat BY <2>2, LenProperties
    <3>4. Last(imageFreeIDs) + 1 \in 1 .. Len(imageData) /\ o \in AllImages \cup {Null} BY <3>1, <3>3
    <3>5. Len(imageData') = Len(imageData) BY <2>2, <3>2, <3>4, ExceptSeq
    <3> QED BY <3>5, <2>4
  <2>6. ASSUME NEW o \in AllImages,
               Leaves(o, imageData, imageFreeIDs, imageID, imageData', imageFreeIDs', imageID')
        PROVE  Compact'
    <3>1. imageData' = [imageData EXCEPT ![imageID[o] + 1] = Null] BY <2>6 DEF Leaves
    <3>2. imageID[o] + 1 \in 1 .. Len(imageData)
      BY <2>1, <2>2, <2>6, IDsAreNatural, LenProperties DEF Leaves
    <3>3. Len(imageData') = Len(imageData) BY <2>2, <3>1, <3>2, ExceptSeq
    <3> QED BY <3>3, <2>4
  <2>7. CASE UNCHANGED ImageList!vars BY <2>7, <2>4 DEF ImageList!vars
  <2> QED BY <2>3, <2>5, <2>6, <2>7, ImageListSteps DEF ImageList!Next
<1>3. Compact <=> ImageList!ListStaysCompact
  BY Zenon DEF ImageList!ListStaysCompact, ImageList!Cardinality, Cardinality
<1> QED BY <1>1, <1>2, <1>3, IndexedAlways, PTL DEF ImageList!Spec

---------------------------------------------------------------------------
(* The inductive invariant.                                                *)

\* Who holds whom: the references of the application and of the samplers.
References ==
  /\ live \subseteq AllImages \cup AllSamplers
  /\ appUseCount \subseteq live \cap (Images \cup Samplers)
  /\ live \cap Samplers \subseteq appUseCount
  /\ image \in [AllSamplers -> AllImages \cup {Null}]
  /\ \A s \in Samplers \cap live : image[s] \in Images \cap live
  /\ DefaultSampler \in live => image[DefaultSampler] = DefaultImage

\* What is constructed is in its list.
Identified ==
  /\ \A i \in AllImages \cap live : imageID[i] # -1
  /\ \A s \in AllSamplers \cap live : samplerID[s] # -1

\* The default objects come first and have ID 0 until the context ends.
DefaultsFirst ==
  /\ phase \in {"new", "running", "terminating", "ended"}
  /\ phase = "new" =>
       /\ live = {}
       /\ imageData = <<>> /\ imageFreeIDs = <<>>
       /\ samplerData = <<>> /\ samplerFreeIDs = <<>>
  /\ phase \in {"running", "terminating"} =>
       /\ {DefaultImage, DefaultSampler} \subseteq live
       /\ imageID[DefaultImage] = 0 /\ samplerID[DefaultSampler] = 0
  /\ phase \in {"new", "ended"} => live \cap AllSamplers = {}

NoZeroIDs ==
  /\ \A i \in Images : imageID[i] # 0
  /\ \A s \in Samplers : samplerID[s] # 0

Inv == ListsAreIndexed /\ References /\ Identified /\ DefaultsFirst /\ NoZeroIDs

\* The objects of the application and those of the context are apart.
LEMMA Apart ==
  /\ DefaultImage \in AllImages /\ DefaultSampler \in AllSamplers
  /\ Images \subseteq AllImages /\ Samplers \subseteq AllSamplers
  /\ DefaultImage \notin Images /\ DefaultSampler \notin Samplers
  /\ AllImages \cap AllSamplers = {}
  /\ AllImages = Images \cup {DefaultImage} /\ AllSamplers = Samplers \cup {DefaultSampler}
  /\ Null \notin AllImages \cup AllSamplers
  BY ObjectsDiffer DEF AllImages, AllSamplers

LEMMA InitInv == Init => Inv
<1> SUFFICES ASSUME Init PROVE Inv OBVIOUS
<1>1. ListsAreIndexed
  <2>1. ImageList!Indexed
    BY DEF Init, ImageList!Init, ImageList!Indexed, ImageList!TypeOK, ImageList!IDsLeadBack,
      ImageList!FreeIDsAreTheHoles, ImageList!None
  <2>2. SamplerList!Indexed
    BY DEF Init, SamplerList!Init, SamplerList!Indexed, SamplerList!TypeOK,
      SamplerList!IDsLeadBack, SamplerList!FreeIDsAreTheHoles, SamplerList!None
  <2> QED BY <2>1, <2>2 DEF ListsAreIndexed
<1>2. References BY DEF Init, References
<1>3. Identified /\ DefaultsFirst
  BY DEF Init, Identified, DefaultsFirst, ImageList!Init, SamplerList!Init
<1>4. NoZeroIDs
  BY Apart DEF Init, NoZeroIDs, ImageList!Init, SamplerList!Init, ImageList!None,
    SamplerList!None
<1> QED BY <1>1, <1>2, <1>3, <1>4 DEF Inv

\* An object that enters a list behind the default one does not get its ID.
LEMMA NewImageIsNotZero ==
  ASSUME Inv, phase = "running", NEW i \in Images, ImageList!Track(i)
  PROVE  imageID'[i] # 0 /\ imageID'[i] \in Nat
<1>1. /\ ImageList!Indexed' /\ imageID'[i] \in Nat
      /\ imageID'[DefaultImage] = imageID[DefaultImage]
  BY Apart, TrackImage DEF Inv, ListsAreIndexed
<1>2. imageID'[DefaultImage] = 0 BY <1>1 DEF Inv, DefaultsFirst
<1>3. \A p \in AllImages : imageID'[p] = imageID'[DefaultImage] => p = DefaultImage
  <2>1. IndexedImages' BY <1>1, ImageListIsIndexed
  <2>2. Indexed(AllImages, imageData', imageFreeIDs', imageID') BY <2>1 DEF IndexedImages
  <2>3. imageID'[DefaultImage] # NoID BY <1>2 DEF NoID
  <2> QED BY <2>2, <2>3, Apart, IDsAreNatural
<1> QED BY <1>1, <1>2, <1>3, Apart

LEMMA NewSamplerIsNotZero ==
  ASSUME Inv, phase = "running", NEW s \in Samplers, SamplerList!Track(s)
  PROVE  samplerID'[s] # 0 /\ samplerID'[s] \in Nat
<1>1. /\ SamplerList!Indexed' /\ samplerID'[s] \in Nat
      /\ samplerID'[DefaultSampler] = samplerID[DefaultSampler]
  BY Apart, TrackSampler DEF Inv, ListsAreIndexed
<1>2. samplerID'[DefaultSampler] = 0 BY <1>1 DEF Inv, DefaultsFirst
<1>3. \A p \in AllSamplers : samplerID'[p] = samplerID'[DefaultSampler] => p = DefaultSampler
  <2>1. IndexedSamplers' BY <1>1, SamplerListIsIndexed
  <2>2. Indexed(AllSamplers, samplerData', samplerFreeIDs', samplerID')
    BY <2>1 DEF IndexedSamplers
  <2>3. samplerID'[DefaultSampler] # NoID BY <1>2 DEF NoID
  <2> QED BY <2>2, <2>3, Apart, IDsAreNatural
<1> QED BY <1>1, <1>2, <1>3, Apart

---------------------------------------------------------------------------
(* The steps.                                                              *)

LEMMA ConstructKeepsInv ==
  ASSUME Inv, Construct
  PROVE  Inv'
<1>1. /\ ImageList!Track(DefaultImage) /\ SamplerList!Track(DefaultSampler)
      /\ live' = {DefaultImage, DefaultSampler} /\ appUseCount' = appUseCount
      /\ image' = [image EXCEPT ![DefaultSampler] = DefaultImage]
      /\ phase = "new" /\ phase' = "running"
  BY DEF Construct
<1>2. /\ ImageList!Indexed' /\ imageID'[DefaultImage] = 0
      /\ \A i \in AllImages \ {DefaultImage} : imageID'[i] = imageID[i]
  BY <1>1, Apart, TrackImage DEF Inv, ListsAreIndexed, DefaultsFirst
<1>3. /\ SamplerList!Indexed' /\ samplerID'[DefaultSampler] = 0
      /\ \A s \in AllSamplers \ {DefaultSampler} : samplerID'[s] = samplerID[s]
  BY <1>1, Apart, TrackSampler DEF Inv, ListsAreIndexed, DefaultsFirst
<1>4. ListsAreIndexed' BY <1>2, <1>3 DEF ListsAreIndexed
<1>5. appUseCount = {}
  BY <1>1, Apart DEF Inv, References, DefaultsFirst
<1>6. References'
  BY <1>1, <1>5, Apart DEF Inv, References
<1>7. Identified' BY <1>1, <1>2, <1>3, Apart DEF Identified
<1>8. DefaultsFirst' BY <1>1, <1>2, <1>3 DEF DefaultsFirst
<1>9. NoZeroIDs' BY <1>2, <1>3, Apart DEF Inv, NoZeroIDs
<1> QED BY <1>4, <1>6, <1>7, <1>8, <1>9 DEF Inv

LEMMA CreateImageKeepsInv ==
  ASSUME Inv, NEW i \in Images, NEW format \in Formats, CreateImage(i, format)
  PROVE  Inv'
<1>1. /\ phase = "running" /\ phase' = phase /\ ImageList!Track(i)
      /\ \/ live' = live \cup {i} /\ appUseCount' = appUseCount \cup {i}
         \/ live' = live /\ appUseCount' = appUseCount
      /\ UNCHANGED <<samplerData, samplerFreeIDs, samplerID, image>>
  BY DEF CreateImage, samplerVars
<1>2. /\ ImageList!Indexed' /\ imageID'[i] # 0 /\ imageID'[i] # -1
      /\ \A p \in AllImages \ {i} : imageID'[p] = imageID[p]
  <2>1. imageID'[i] # 0 /\ imageID'[i] \in Nat BY <1>1, NewImageIsNotZero
  <2> QED BY <1>1, <2>1, Apart, TrackImage DEF Inv, ListsAreIndexed
<1>3. SamplerList!Indexed' BY <1>1, KeepSampler DEF Inv, ListsAreIndexed
<1>4. ListsAreIndexed' BY <1>2, <1>3 DEF ListsAreIndexed
<1>5. References' BY <1>1, Apart DEF Inv, References
<1>6. Identified' BY <1>1, <1>2, Apart DEF Inv, Identified
<1>7. DefaultsFirst' BY <1>1, <1>2, Apart DEF Inv, DefaultsFirst
<1>8. NoZeroIDs' BY <1>1, <1>2, Apart DEF Inv, NoZeroIDs
<1> QED BY <1>4, <1>5, <1>6, <1>7, <1>8 DEF Inv

LEMMA CreateSamplerKeepsInv ==
  ASSUME Inv, NEW s \in Samplers, NEW i \in Images, CreateSampler(s, i)
  PROVE  Inv'
<1>1. /\ phase = "running" /\ phase' = phase /\ SamplerList!Track(s)
      /\ i \in live /\ s \notin live
      /\ live' = live \cup {s} /\ appUseCount' = appUseCount \cup {s}
      /\ image' = [image EXCEPT ![s] = i]
      /\ UNCHANGED <<imageData, imageFreeIDs, imageID>>
  BY DEF CreateSampler, imageVars
<1>2. /\ SamplerList!Indexed' /\ samplerID'[s] # 0 /\ samplerID'[s] # -1
      /\ \A p \in AllSamplers \ {s} : samplerID'[p] = samplerID[p]
  <2>1. samplerID'[s] # 0 /\ samplerID'[s] \in Nat BY <1>1, NewSamplerIsNotZero
  <2> QED BY <1>1, <2>1, Apart, TrackSampler DEF Inv, ListsAreIndexed
<1>3. ImageList!Indexed' BY <1>1, KeepImage DEF Inv, ListsAreIndexed
<1>4. ListsAreIndexed' BY <1>2, <1>3 DEF ListsAreIndexed
<1>5. References' BY <1>1, Apart DEF Inv, References
<1>6. Identified' BY <1>1, <1>2, Apart DEF Inv, Identified
<1>7. DefaultsFirst' BY <1>1, <1>2, Apart DEF Inv, DefaultsFirst
<1>8. NoZeroIDs' BY <1>1, <1>2, Apart DEF Inv, NoZeroIDs
<1> QED BY <1>4, <1>5, <1>6, <1>7, <1>8 DEF Inv

LEMMA DropImageKeepsInv ==
  ASSUME Inv, NEW i \in Images, DropImage(i)
  PROVE  Inv'
<1>1. /\ phase = "terminating" /\ phase' = phase /\ i \in appUseCount
      /\ appUseCount' = appUseCount \ {i}
      /\ UNCHANGED <<samplerData, samplerFreeIDs, samplerID, image>>
  BY DEF DropImage, samplerVars
<1>2. SamplerList!Indexed' BY <1>1, KeepSampler DEF Inv, ListsAreIndexed
<1>3. CASE i \in Held({})
  <2>1. live' = live /\ UNCHANGED <<imageData, imageFreeIDs, imageID>>
    BY <1>3 DEF DropImage, imageVars
  <2>2. ListsAreIndexed' BY <2>1, <1>2, KeepImage DEF Inv, ListsAreIndexed
  <2>3. References' BY <1>1, <2>1, Apart DEF Inv, References
  <2>4. Identified' /\ DefaultsFirst' /\ NoZeroIDs'
    BY <1>1, <2>1 DEF Inv, Identified, DefaultsFirst, NoZeroIDs
  <2> QED BY <2>2, <2>3, <2>4 DEF Inv
<1>4. CASE i \notin Held({})
  <2>1. live' = live \ {i} /\ ImageList!Forget(i)
    BY <1>4 DEF DropImage
  <2>2. /\ ImageList!Indexed' /\ imageID'[i] = -1
        /\ \A p \in AllImages \ {i} : imageID'[p] = imageID[p]
    BY <2>1, Apart, ForgetImage DEF Inv, ListsAreIndexed
  <2>3. ListsAreIndexed' BY <2>2, <1>2 DEF ListsAreIndexed
  <2>4. \A s \in AllSamplers \cap live : image[s] # i BY <1>4 DEF Held
  <2>5. References' BY <1>1, <2>1, <2>4, Apart DEF Inv, References
  <2>6. Identified' BY <1>1, <2>1, <2>2, Apart DEF Inv, Identified
  <2>7. DefaultsFirst' BY <1>1, <2>1, <2>2, Apart DEF Inv, DefaultsFirst
  <2>8. NoZeroIDs' BY <1>1, <2>2, Apart DEF Inv, NoZeroIDs
  <2> QED BY <2>3, <2>5, <2>6, <2>7, <2>8 DEF Inv
<1> QED BY <1>3, <1>4

LEMMA DropSamplerKeepsInv ==
  ASSUME Inv, NEW s \in Samplers, DropSampler(s)
  PROVE  Inv'
<1>1. /\ phase = "terminating" /\ phase' = phase /\ s \in appUseCount
      /\ appUseCount' = appUseCount \ {s}
      /\ image' = [image EXCEPT ![s] = Null]
      /\ SamplerList!Forget(s)
  BY DEF DropSampler
<1>2. s \in live /\ image[s] \in Images /\ image[s] \in live BY <1>1 DEF Inv, References
<1>3. /\ SamplerList!Indexed' /\ samplerID'[s] = -1
      /\ \A p \in AllSamplers \ {s} : samplerID'[p] = samplerID[p]
  BY <1>1, Apart, ForgetSampler DEF Inv, ListsAreIndexed
<1>4. image' \in [AllSamplers -> AllImages \cup {Null}]
  BY <1>1, Apart DEF Inv, References
<1>5. \A t \in AllSamplers \ {s} : image'[t] = image[t] BY <1>1 DEF Inv, References
<1>6. CASE image[s] \in appUseCount \cup Held({s})
  <2>1. live' = live \ {s} /\ UNCHANGED <<imageData, imageFreeIDs, imageID>>
    BY <1>6 DEF DropSampler, imageVars
  <2>2. ListsAreIndexed' BY <2>1, <1>3, KeepImage DEF Inv, ListsAreIndexed
  <2>3. References' BY <1>1, <1>4, <1>5, <2>1, Apart DEF Inv, References
  <2>4. Identified' BY <2>1, <1>3, Apart DEF Inv, Identified
  <2>5. DefaultsFirst' BY <1>1, <1>3, <2>1, Apart DEF Inv, DefaultsFirst
  <2>6. NoZeroIDs' BY <1>3, <2>1, Apart DEF Inv, NoZeroIDs
  <2> QED BY <2>2, <2>3, <2>4, <2>5, <2>6 DEF Inv
<1>7. CASE image[s] \notin appUseCount \cup Held({s})
  <2>1. live' = live \ {s, image[s]} /\ ImageList!Forget(image[s])
    BY <1>7 DEF DropSampler
  <2>2. /\ ImageList!Indexed' /\ imageID'[image[s]] = -1
        /\ \A p \in AllImages \ {image[s]} : imageID'[p] = imageID[p]
    BY <2>1, <1>2, Apart, ForgetImage DEF Inv, ListsAreIndexed
  <2>3. ListsAreIndexed' BY <2>2, <1>3 DEF ListsAreIndexed
  <2>4. \A t \in (AllSamplers \cap live) \ {s} : image[t] # image[s] BY <1>7 DEF Held
  <2>5. References'
    BY <1>1, <1>2, <1>4, <1>5, <1>7, <2>1, <2>4, Apart DEF Inv, References
  <2>6. Identified' BY <1>2, <1>3, <2>1, <2>2, Apart DEF Inv, Identified
  <2>7. DefaultsFirst' BY <1>1, <1>2, <1>3, <2>1, <2>2, Apart DEF Inv, DefaultsFirst
  <2>8. NoZeroIDs' BY <1>2, <1>3, <2>2, Apart DEF Inv, NoZeroIDs
  <2> QED BY <2>3, <2>5, <2>6, <2>7, <2>8 DEF Inv
<1> QED BY <1>6, <1>7

LEMMA EndContextKeepsInv ==
  ASSUME Inv, EndContext
  PROVE  Inv'
<1>1. /\ phase = "terminating" /\ phase' = "ended"
      /\ appUseCount = {} /\ appUseCount' = {}
      /\ SamplerList!Forget(DefaultSampler) /\ ImageList!Forget(DefaultImage)
      /\ image' = [image EXCEPT ![DefaultSampler] = Null]
      /\ live' = live \ {DefaultSampler, DefaultImage}
  BY DEF EndContext
<1>2. /\ ImageList!Indexed' /\ imageID'[DefaultImage] = -1
      /\ \A p \in AllImages \ {DefaultImage} : imageID'[p] = imageID[p]
  BY <1>1, Apart, ForgetImage DEF Inv, ListsAreIndexed
<1>3. /\ SamplerList!Indexed' /\ samplerID'[DefaultSampler] = -1
      /\ \A p \in AllSamplers \ {DefaultSampler} : samplerID'[p] = samplerID[p]
  BY <1>1, Apart, ForgetSampler DEF Inv, ListsAreIndexed
<1>4. ListsAreIndexed' BY <1>2, <1>3 DEF ListsAreIndexed
<1>5. live' \cap AllSamplers = {} BY <1>1, Apart DEF Inv, References
<1>6. image' \in [AllSamplers -> AllImages \cup {Null}]
  BY <1>1, Apart DEF Inv, References
<1>7. References' BY <1>1, <1>5, <1>6, Apart DEF Inv, References
<1>8. Identified' BY <1>1, <1>2, <1>5, Apart DEF Inv, Identified
<1>9. DefaultsFirst' BY <1>1, <1>5 DEF DefaultsFirst
<1>10. NoZeroIDs' BY <1>2, <1>3, Apart DEF Inv, NoZeroIDs
<1> QED BY <1>4, <1>7, <1>8, <1>9, <1>10 DEF Inv

\* Builds, and the call of vknTerminate(), leave all of this alone.
LEMMA OthersKeepInv ==
  ASSUME Inv, UNCHANGED <<imageVars, samplerVars, live, image, appUseCount>>,
         phase' = phase \/ (phase = "running" /\ phase' = "terminating")
  PROVE  Inv'
<1>1. ListsAreIndexed'
  BY KeepImage, KeepSampler DEF Inv, ListsAreIndexed, imageVars, samplerVars
<1>2. References' BY DEF Inv, References
<1>3. Identified' /\ NoZeroIDs' BY DEF Inv, Identified, NoZeroIDs, imageVars, samplerVars
<1>4. DefaultsFirst' BY DEF Inv, DefaultsFirst, imageVars, samplerVars
<1> QED BY <1>1, <1>2, <1>3, <1>4 DEF Inv

---------------------------------------------------------------------------
(* The theorems.                                                           *)

LEMMA NextKeepsInv == Inv /\ [Next]_vars => Inv'
<1> SUFFICES ASSUME Inv, [Next]_vars PROVE Inv' OBVIOUS
<1>1. CASE Construct BY <1>1, ConstructKeepsInv
<1>2. CASE \E i \in Images, format \in Formats : CreateImage(i, format)
  BY <1>2, CreateImageKeepsInv
<1>3. CASE \E s \in Samplers, i \in Images : CreateSampler(s, i)
  BY <1>3, CreateSamplerKeepsInv
<1>4. CASE BuildPipeline
  <2>1. UNCHANGED <<imageVars, samplerVars, live, image, appUseCount>> /\ phase' = phase
    BY <1>4 DEF BuildPipeline, imageVars, samplerVars
  <2> QED BY <2>1, OthersKeepInv
<1>5. CASE Terminate
  BY <1>5, OthersKeepInv DEF Terminate
<1>6. CASE \E i \in Images : DropImage(i) BY <1>6, DropImageKeepsInv
<1>7. CASE \E s \in Samplers : DropSampler(s) BY <1>7, DropSamplerKeepsInv
<1>8. CASE EndContext BY <1>8, EndContextKeepsInv
<1>9. CASE UNCHANGED vars
  <2>1. UNCHANGED <<imageVars, samplerVars, live, image, appUseCount>> /\ phase' = phase
    BY <1>9 DEF vars, imageVars, samplerVars
  <2> QED BY <2>1, OthersKeepInv
<1> QED BY <1>1, <1>2, <1>3, <1>4, <1>5, <1>6, <1>7, <1>8, <1>9 DEF Next

LEMMA InvAlways == Spec => []Inv
  BY InitInv, NextKeepsInv, PTL DEF Spec

\* RTPipeline's two lists: IDs lead back to their objects, free IDs are the
\* holes, whatever is created, fails, and is dropped.
THEOREM ListsAreAlwaysIndexed == Spec => []ListsAreIndexed
<1>1. Inv => ListsAreIndexed BY DEF Inv
<1> QED BY <1>1, InvAlways, PTL

\* vknSamplerGetObject(): 0 stays free to mean "no texture".
THEOREM ZeroIsAlwaysInvalid == Spec => []ZeroIsInvalid
<1>1. ASSUME Inv, NEW s \in Samplers \cap live PROVE TextureObject(s) # 0
  <2>1. samplerID[s] # -1 /\ samplerID[s] # 0 /\ image[s] \in AllImages \cap live
    BY <1>1, Apart DEF Inv, References, Identified, NoZeroIDs
  <2>2. samplerID[s] \in Nat BY <1>1, <2>1, Apart, SamplerIDs DEF Inv, ListsAreIndexed
  <2>3. imageID[image[s]] \in Nat
    BY <1>1, <2>1, ImageIDs DEF Inv, ListsAreIndexed, Identified
  <2>4. HalfWord * imageID[image[s]] \in Nat BY <2>3, HalvesDoNotOverlap
  <2> QED BY <2>1, <2>2, <2>4 DEF TextureObject
<1>2. Inv => ZeroIsInvalid BY <1>1 DEF Inv, NoZeroIDs, ZeroIsInvalid
<1> QED BY <1>2, InvAlways, PTL

\* ~Sampler and ~Image: whatever order terminate() drops the references in, an
\* image dies after the last sampler that holds it.
THEOREM SamplersAlwaysKeepTheirImage == Spec => []SamplersKeepTheirImage
<1>1. ASSUME Inv, NEW s \in AllSamplers \cap live PROVE image[s] \in live
  <2>1. CASE s \in Samplers BY <1>1, <2>1 DEF Inv, References
  <2>2. CASE s = DefaultSampler
    <3>1. image[s] = DefaultImage BY <1>1, <2>2 DEF Inv, References
    <3>2. phase \in {"running", "terminating"} BY <1>1 DEF Inv, DefaultsFirst
    <3> QED BY <1>1, <3>1, <3>2 DEF Inv, DefaultsFirst
  <2> QED BY <2>1, <2>2, Apart
<1>2. Inv => SamplersKeepTheirImage BY <1>1 DEF SamplersKeepTheirImage
<1> QED BY <1>2, InvAlways, PTL

---------------------------------------------------------------------------
(* The descriptor sets.                                                    *)

ImageTrios == TypeOfTrio(1 .. MaxBuilds, AllImages \cup {Null, Garbage})
SamplerTrios == TypeOfTrio(1 .. MaxBuilds, AllSamplers \cup {Null, Garbage})

\* A set is in the pool it was allocated from, and fits.
Fits(d) ==
  /\ d.allocated => d.poolHandle = d.pool /\ d.layout <= d.poolSize /\ Len(d.written) = d.layout
  /\ ~ d.strayFree

TriosFit ==
  /\ imageDS \in ImageTrios /\ Fits(imageDS)
  /\ samplerDS \in SamplerTrios /\ Fits(samplerDS)

\* While the context runs its lists only grow, so that what was written into a
\* set is still what the list says, and a sampler in the set was made, like its
\* image, before the build.
GrownSince ==
  /\ phase = "new" => imageDS.written = <<>> /\ samplerDS.written = <<>>
  /\ phase = "running" =>
       /\ imageFreeIDs = <<>> /\ samplerFreeIDs = <<>>
       /\ \A n \in DOMAIN samplerData : samplerData[n] \in live
       /\ Len(samplerDS.written) <= Len(samplerData)
       /\ \A n \in 1 .. Len(samplerDS.written) : samplerDS.written[n] = samplerData[n]
       /\ Len(imageDS.written) <= Len(imageData)
       /\ \A n \in 1 .. Len(imageDS.written) :
            imageData[n] \in live => imageDS.written[n] = imageData[n]
       /\ \A s \in Samplers \cap live :
            samplerID[s] < Len(samplerDS.written) => imageID[image[s]] < Len(imageDS.written)

\* An image of the application lives because somebody holds it.
ImagesAreHeld ==
  \A i \in Images \cap live : i \in appUseCount \/ \E s \in Samplers \cap live : image[s] = i

Counted ==
  /\ asked \in [Images -> Formats \cup {Null}]
  /\ builds \in 0 .. MaxBuilds

SetsInv == TriosFit /\ GrownSince /\ ImagesAreHeld /\ Counted /\ NothingLeft

LEMMA InitSetsInv == Init => SetsInv
<1> SUFFICES ASSUME Init PROVE SetsInv OBVIOUS
<1>1. TriosFit
  <2>1. imageDS = NewTrio /\ samplerDS = NewTrio BY DEF Init
  <2>2. NewTrio \in ImageTrios /\ NewTrio \in SamplerTrios
    BY EmptySeq DEF NewTrio, ImageTrios, SamplerTrios, TypeOfTrio, NoHandle
  <2>3. Fits(NewTrio) BY DEF NewTrio, Fits
  <2> QED BY <2>1, <2>2, <2>3 DEF TriosFit
<1>2. GrownSince BY DEF Init, GrownSince, NewTrio
<1>3. ImagesAreHeld /\ NothingLeft BY DEF Init, ImagesAreHeld, NothingLeft
<1>4. Counted BY BuildsAreBounded DEF Init, Counted
<1> QED BY <1>1, <1>2, <1>3, <1>4 DEF SetsInv

---------------------------------------------------------------------------
(* What the operations on a trio do to it.                                 *)

LEMMA FreeFits ==
  ASSUME NEW D, NEW d \in TypeOfTrio(1 .. MaxBuilds, D), Fits(d)
  PROVE  /\ SetFree(d) \in TypeOfTrio(1 .. MaxBuilds, D)
         /\ SetFree(d).allocated = FALSE /\ SetFree(d).strayFree = FALSE
         /\ SetFree(d).layout = d.layout
<1>1. <<>> \in Seq(D) BY EmptySeq
<1>2. CASE d.allocated BY <1>1, <1>2 DEF SetFree, Fits, TypeOfTrio
<1>3. CASE ~ d.allocated BY <1>3 DEF SetFree, Fits, TypeOfTrio
<1> QED BY <1>2, <1>3

LEMMA DestroyedHelperFits ==
  ASSUME NEW D, NEW d \in TypeOfTrio(1 .. MaxBuilds, D), Fits(d)
  PROVE  /\ DestroyHelper(d) \in TypeOfTrio(1 .. MaxBuilds, D)
         /\ Fits(DestroyHelper(d)) /\ NothingAllocated(DestroyHelper(d))
<1> DEFINE e == SetFree(d)
<1>1. e \in TypeOfTrio(1 .. MaxBuilds, D) /\ e.allocated = FALSE /\ e.strayFree = FALSE
  BY FreeFits
<1> HIDE DEF e
<1>2. LayoutDestroy(PoolDestroy(e)) \in TypeOfTrio(1 .. MaxBuilds, D)
  BY <1>1 DEF LayoutDestroy, PoolDestroy, TypeOfTrio, NoHandle
<1>3. Fits(LayoutDestroy(PoolDestroy(e))) /\ NothingAllocated(LayoutDestroy(PoolDestroy(e)))
  BY <1>1 DEF LayoutDestroy, PoolDestroy, Fits, NothingAllocated, TypeOfTrio
<1> QED BY <1>2, <1>3 DEF DestroyHelper, e

LEMMA MaxWithOne ==
  ASSUME NEW n \in Nat, n > 0
  PROVE  Max({1, n}) = n
<1>1. \A x \in {1, n} : (\A y \in {1, n} : x >= y) <=> x = n OBVIOUS
<1> QED BY <1>1 DEF Max

\* What DSHelper::createDS() leaves when there is something to describe.
LEMMA CreatedFits ==
  ASSUME NEW D, NEW d \in TypeOfTrio(1 .. MaxBuilds, D), Fits(d),
         builds \in 0 .. MaxBuilds, builds < MaxBuilds,
         NEW list, NEW reading, Len(list) \in Nat, Len(list) > 0,
         Descriptors(list, reading) \in Seq(D), Len(Descriptors(list, reading)) = Len(list)
  PROVE  LET e == CreateDS(CreateLayout(d, list), list, reading)
         IN  e \in TypeOfTrio(1 .. MaxBuilds, D) /\ Fits(e) /\ e.written = Descriptors(list, reading)
<1> DEFINE n == Len(list)
           w == Descriptors(list, reading)
           h == builds + 1
           T == TypeOfTrio(1 .. MaxBuilds, D)
           d1 == LayoutCreate(d, n)
           d2 == SetFree(d1)
           d3 == PoolDestroy(d2)
           d4 == PoolCreate(d3, h, n)
           d5 == SetCreate(d4, w)
<1>1. CreateLayout(d, list) = d1 BY MaxWithOne DEF CreateLayout
<1>2. h \in 1 .. MaxBuilds BY BuildsAreBounded
<1>3. CreateDS(CreateLayout(d, list), list, reading) = d5
  BY <1>1 DEF CreateDS
<1> HIDE DEF n, w, h
<1>4. n \in Nat /\ w \in Seq(D) /\ Len(w) = n BY DEF n, w
\* The layout changes under a set that fitted, which is freed at once.
<1>5. d1 \in T /\ d1.layout = n /\ d1.allocated = d.allocated /\ d1.pool = d.pool
      /\ d1.poolHandle = d.poolHandle /\ d1.strayFree = FALSE
  BY <1>4 DEF LayoutCreate, TypeOfTrio, Fits
<1>6. d2 \in T /\ d2.layout = n /\ d2.allocated = FALSE /\ d2.strayFree = FALSE
  <2> HIDE DEF d1
  <2>1. <<>> \in Seq(D) BY EmptySeq
  <2>2. CASE d1.allocated BY <1>5, <2>1, <2>2 DEF SetFree, Fits, TypeOfTrio
  <2>3. CASE ~ d1.allocated BY <1>5, <2>3 DEF SetFree, TypeOfTrio
  <2> QED BY <2>2, <2>3
<1> HIDE DEF d1, d2
<1>7. d3 \in T /\ d3.layout = n /\ d3.allocated = FALSE /\ d3.strayFree = FALSE
  BY <1>6 DEF PoolDestroy, TypeOfTrio, NoHandle
<1> HIDE DEF d3
<1>8. d4 \in T /\ d4.layout = n /\ d4.allocated = FALSE /\ d4.strayFree = FALSE
      /\ d4.pool = h /\ d4.poolSize = n
  BY <1>2, <1>4, <1>7 DEF PoolCreate, PoolDestroy, TypeOfTrio, NoHandle
<1> HIDE DEF d4
<1>9. d5 \in T /\ d5.layout = n /\ d5.strayFree = FALSE /\ d5.pool = h /\ d5.poolHandle = h
      /\ d5.poolSize = n /\ d5.written = w
  <2>1. SetFree(d4) = d4 BY <1>8 DEF SetFree
  <2> QED BY <1>2, <1>4, <1>8, <2>1 DEF SetCreate, TypeOfTrio
<1> HIDE DEF d5, T
<1>10. Fits(d5) BY <1>4, <1>9 DEF Fits
<1> QED BY <1>3, <1>9, <1>10 DEF w, T

---------------------------------------------------------------------------
(* The steps and the sets.                                                 *)

\* What is known of the lists between the calls.
LEMMA ListsTyped ==
  ASSUME Inv
  PROVE  /\ imageData \in Seq(AllImages \cup {Null}) /\ Len(imageData) \in Nat
         /\ DOMAIN imageData = 1 .. Len(imageData)
         /\ samplerData \in Seq(AllSamplers \cup {Null}) /\ Len(samplerData) \in Nat
         /\ DOMAIN samplerData = 1 .. Len(samplerData)
         /\ \A n \in DOMAIN imageData : imageData[n] # Null => imageID[imageData[n]] = n - 1
         /\ imageID \in [AllImages -> Int] /\ samplerID \in [AllSamplers -> Int]
<1>1. Indexed(AllImages, imageData, imageFreeIDs, imageID)
  BY ImageListIsIndexed DEF IndexedImages, Inv, ListsAreIndexed
<1>2. Indexed(AllSamplers, samplerData, samplerFreeIDs, samplerID)
  BY SamplerListIsIndexed DEF IndexedSamplers, Inv, ListsAreIndexed
<1>3. /\ imageData \in Seq(AllImages \cup {Null}) /\ samplerData \in Seq(AllSamplers \cup {Null})
      /\ imageID \in [AllImages -> {NoID} \cup 0 .. Len(imageData) - 1]
      /\ samplerID \in [AllSamplers -> {NoID} \cup 0 .. Len(samplerData) - 1]
  BY <1>1, <1>2 DEF Indexed, ListTyped
<1>4. Len(imageData) \in Nat /\ Len(samplerData) \in Nat BY <1>3, LenProperties
<1>5. imageID \in [AllImages -> Int] /\ samplerID \in [AllSamplers -> Int]
  BY <1>3, <1>4 DEF NoID
<1> QED BY <1>1, <1>3, <1>4, <1>5, LenProperties DEF Indexed, LeadBack

\* While there is no hole an object enters at the end.
LEMMA ImageEntersAtEnd ==
  ASSUME Inv, NEW o \in AllImages, ImageList!Track(o), imageFreeIDs = <<>>
  PROVE  /\ imageFreeIDs' = <<>> /\ imageID[o] = -1 /\ imageID'[o] = Len(imageData)
         /\ \A p \in AllImages \ {o} : imageID'[p] = imageID[p]
         /\ Len(imageData') = Len(imageData) + 1
         /\ DOMAIN imageData' = 1 .. Len(imageData) + 1
         /\ imageData'[Len(imageData) + 1] = o
         /\ \A n \in 1 .. Len(imageData) : imageData'[n] = imageData[n] /\ imageData[n] # o
<1>1. EntersAtEnd(o, imageData, imageFreeIDs, imageID, imageData', imageFreeIDs', imageID')
  BY ImageListSteps DEF EntersHole
<1>2. /\ imageID[o] = -1 /\ imageFreeIDs' = <<>>
      /\ imageData' = Append(imageData, o) /\ imageID' = [imageID EXCEPT ![o] = Len(imageData)]
  BY <1>1 DEF EntersAtEnd, NoID
<1>3. /\ Append(imageData, o) \in Seq(AllImages \cup {Null})
      /\ Len(Append(imageData, o)) = Len(imageData) + 1
      /\ Append(imageData, o)[Len(imageData) + 1] = o
      /\ \A n \in 1 .. Len(imageData) : Append(imageData, o)[n] = imageData[n]
  BY ListsTyped, AppendProperties
<1>4. DOMAIN imageData' = 1 .. Len(imageData) + 1 BY <1>2, <1>3, LenProperties
<1>5. ASSUME NEW n \in 1 .. Len(imageData), imageData[n] = o PROVE FALSE
  <2>1. n \in DOMAIN imageData /\ o # Null BY <1>5, Apart, ListsTyped
  <2>2. imageID[imageData[n]] = n - 1 BY <1>5, <2>1, ListsTyped
  <2>3. n - 1 = -1 BY <1>2, <1>5, <2>2
  <2> QED BY <1>5, <2>3, ListsTyped
<1> QED BY <1>2, <1>3, <1>4, <1>5, ListsTyped

LEMMA SamplerEntersAtEnd ==
  ASSUME Inv, NEW o \in AllSamplers, SamplerList!Track(o), samplerFreeIDs = <<>>
  PROVE  /\ samplerFreeIDs' = <<>> /\ samplerID'[o] = Len(samplerData)
         /\ \A p \in AllSamplers \ {o} : samplerID'[p] = samplerID[p]
         /\ Len(samplerData') = Len(samplerData) + 1
         /\ DOMAIN samplerData' = 1 .. Len(samplerData) + 1
         /\ samplerData'[Len(samplerData) + 1] = o
         /\ \A n \in 1 .. Len(samplerData) : samplerData'[n] = samplerData[n]
<1>1. EntersAtEnd(o, samplerData, samplerFreeIDs, samplerID,
                  samplerData', samplerFreeIDs', samplerID')
  BY SamplerListSteps DEF EntersHole
<1>2. /\ samplerFreeIDs' = <<>> /\ samplerData' = Append(samplerData, o)
      /\ samplerID' = [samplerID EXCEPT ![o] = Len(samplerData)]
  BY <1>1 DEF EntersAtEnd
<1>3. /\ Append(samplerData, o) \in Seq(AllSamplers \cup {Null})
      /\ Len(Append(samplerData, o)) = Len(samplerData) + 1
      /\ Append(samplerData, o)[Len(samplerData) + 1] = o
      /\ \A n \in 1 .. Len(samplerData) : Append(samplerData, o)[n] = samplerData[n]
  BY ListsTyped, AppendProperties
<1>4. DOMAIN samplerData' = 1 .. Len(samplerData) + 1 BY <1>2, <1>3, LenProperties
<1> QED BY <1>2, <1>3, <1>4, ListsTyped

LEMMA WrittenTyped ==
  ASSUME TriosFit
  PROVE  Len(imageDS.written) \in Nat /\ Len(samplerDS.written) \in Nat
<1>1. /\ imageDS.written \in Seq(AllImages \cup {Null, Garbage})
      /\ samplerDS.written \in Seq(AllSamplers \cup {Null, Garbage})
  BY DEF TriosFit, ImageTrios, SamplerTrios, TypeOfTrio
<1> QED BY <1>1, LenProperties

LEMMA ConstructKeepsSetsInv ==
  ASSUME Inv, SetsInv, Construct
  PROVE  SetsInv'
<1>1. /\ ImageList!Track(DefaultImage) /\ SamplerList!Track(DefaultSampler)
      /\ live' = {DefaultImage, DefaultSampler} /\ phase = "new" /\ phase' = "running"
      /\ UNCHANGED <<imageDS, samplerDS, appUseCount, asked, builds>>
  BY DEF Construct
<1>2. /\ imageData = <<>> /\ imageFreeIDs = <<>> /\ samplerData = <<>> /\ samplerFreeIDs = <<>>
  BY <1>1 DEF Inv, DefaultsFirst
<1>3. TriosFit' BY <1>1 DEF SetsInv, TriosFit, Fits
<1>4. GrownSince'
  <2>1. /\ imageFreeIDs' = <<>> /\ samplerFreeIDs' = <<>>
        /\ Len(imageData') \in Nat /\ Len(samplerData') \in Nat
        /\ DOMAIN samplerData' = 1 .. 1 /\ samplerData'[1] = DefaultSampler
    BY <1>1, <1>2, Apart, ImageEntersAtEnd, SamplerEntersAtEnd, ListsTyped
  <2>2. imageDS'.written = <<>> /\ samplerDS'.written = <<>>
    BY <1>1 DEF SetsInv, GrownSince
  <2>3. Samplers \cap live' = {} BY <1>1, Apart
  <2>4. \A n \in DOMAIN samplerData' : samplerData'[n] \in live' BY <1>1, <2>1
  <2> QED BY <1>1, <2>1, <2>2, <2>3, <2>4 DEF GrownSince
<1>5. ImagesAreHeld' BY <1>1, Apart DEF ImagesAreHeld
<1>6. Counted' /\ NothingLeft' BY <1>1 DEF SetsInv, Counted, NothingLeft
<1> QED BY <1>3, <1>4, <1>5, <1>6 DEF SetsInv

LEMMA CreateImageKeepsSetsInv ==
  ASSUME Inv, SetsInv, NEW i \in Images, NEW format \in Formats, CreateImage(i, format)
  PROVE  SetsInv'
<1>1. /\ phase = "running" /\ phase' = phase /\ ImageList!Track(i)
      /\ asked' = [asked EXCEPT ![i] = format]
      /\ \/ live' = live \cup {i} /\ appUseCount' = appUseCount \cup {i}
         \/ live' = live /\ appUseCount' = appUseCount
      /\ UNCHANGED <<samplerData, samplerFreeIDs, samplerID, imageDS, samplerDS, image, builds>>
  BY DEF CreateImage, samplerVars
<1>2. TriosFit' BY <1>1 DEF SetsInv, TriosFit, Fits
<1>3. GrownSince'
  <2>1. /\ imageFreeIDs' = <<>> /\ imageID[i] = -1
        /\ \A p \in AllImages \ {i} : imageID'[p] = imageID[p]
        /\ Len(imageData') = Len(imageData) + 1 /\ Len(imageData) \in Nat
        /\ \A n \in 1 .. Len(imageData) : imageData'[n] = imageData[n] /\ imageData[n] # i
    BY <1>1, Apart, ImageEntersAtEnd, ListsTyped DEF SetsInv, GrownSince
  <2>2. Len(imageDS.written) \in Nat BY WrittenTyped DEF SetsInv
  <2>3. /\ Len(imageDS.written) <= Len(imageData)
        /\ \A n \in 1 .. Len(imageDS.written) :
             imageData[n] \in live => imageDS.written[n] = imageData[n]
    BY <1>1 DEF SetsInv, GrownSince
  <2>4. Len(imageDS'.written) <= Len(imageData') BY <1>1, <2>1, <2>2, <2>3
  <2>5. ASSUME NEW n \in 1 .. Len(imageDS'.written), imageData'[n] \in live'
        PROVE  imageDS'.written[n] = imageData'[n]
    <3>1. n \in 1 .. Len(imageDS.written) /\ n \in 1 .. Len(imageData) BY <1>1, <2>1, <2>2, <2>3
    <3>2. imageData'[n] = imageData[n] /\ imageData[n] # i BY <2>1, <3>1
    <3>3. imageData[n] \in live BY <1>1, <2>5, <3>2
    <3> QED BY <1>1, <2>3, <3>1, <3>2, <3>3
  <2>6. ASSUME NEW s \in Samplers \cap live', samplerID'[s] < Len(samplerDS'.written)
        PROVE  imageID'[image'[s]] < Len(imageDS'.written)
    <3>1. s \in Samplers \cap live /\ image[s] \in Images \cap live
      BY <1>1, Apart DEF Inv, References
    <3>2. image[s] # i BY <3>1, <2>1, Apart DEF Inv, Identified
    <3>3. imageID'[image[s]] = imageID[image[s]] BY <2>1, <3>1, <3>2, Apart
    <3>4. imageID[image[s]] < Len(imageDS.written)
      BY <1>1, <2>6, <3>1 DEF SetsInv, GrownSince
    <3> QED BY <1>1, <3>3, <3>4
  <2>7. /\ samplerFreeIDs' = <<>>
        /\ \A n \in DOMAIN samplerData' : samplerData'[n] \in live'
        /\ Len(samplerDS'.written) <= Len(samplerData')
        /\ \A n \in 1 .. Len(samplerDS'.written) : samplerDS'.written[n] = samplerData'[n]
    BY <1>1 DEF SetsInv, GrownSince
  <2>8. phase' # "new" BY <1>1
  <2> QED BY <2>1, <2>4, <2>5, <2>6, <2>7, <2>8 DEF GrownSince
<1>4. ImagesAreHeld'
  <2> SUFFICES ASSUME NEW j \in Images, j \in live'
               PROVE  j \in appUseCount' \/ \E s \in Samplers \cap live' : image'[s] = j
    BY DEF ImagesAreHeld
  <2>1. CASE j \in live BY <1>1, <2>1 DEF SetsInv, ImagesAreHeld
  <2>2. CASE j \notin live BY <1>1, <2>2
  <2> QED BY <2>1, <2>2
<1>5. Counted' BY <1>1 DEF SetsInv, Counted
<1>6. NothingLeft' BY <1>1 DEF NothingLeft
<1> QED BY <1>2, <1>3, <1>4, <1>5, <1>6 DEF SetsInv

LEMMA CreateSamplerKeepsSetsInv ==
  ASSUME Inv, SetsInv, NEW s \in Samplers, NEW i \in Images, CreateSampler(s, i)
  PROVE  SetsInv'
<1>1. /\ phase = "running" /\ phase' = phase /\ SamplerList!Track(s)
      /\ s \notin live /\ live' = live \cup {s} /\ appUseCount' = appUseCount \cup {s}
      /\ image' = [image EXCEPT ![s] = i]
      /\ UNCHANGED <<imageData, imageFreeIDs, imageID, imageDS, samplerDS, asked, builds>>
  BY DEF CreateSampler, imageVars
<1>2. image \in [AllSamplers -> AllImages \cup {Null}] /\ s \in AllSamplers
  BY Apart DEF Inv, References
<1>3. TriosFit' BY <1>1 DEF SetsInv, TriosFit, Fits
<1>4. GrownSince'
  <2>1. /\ samplerFreeIDs' = <<>> /\ samplerID'[s] = Len(samplerData)
        /\ \A p \in AllSamplers \ {s} : samplerID'[p] = samplerID[p]
        /\ Len(samplerData') = Len(samplerData) + 1 /\ Len(samplerData) \in Nat
        /\ DOMAIN samplerData' = 1 .. Len(samplerData) + 1
        /\ DOMAIN samplerData = 1 .. Len(samplerData)
        /\ samplerData'[Len(samplerData) + 1] = s
        /\ \A n \in 1 .. Len(samplerData) : samplerData'[n] = samplerData[n]
    BY <1>1, <1>2, SamplerEntersAtEnd, ListsTyped DEF SetsInv, GrownSince
  <2>2. Len(samplerDS.written) \in Nat BY WrittenTyped DEF SetsInv
  <2>3. /\ Len(samplerDS.written) <= Len(samplerData)
        /\ \A n \in 1 .. Len(samplerDS.written) : samplerDS.written[n] = samplerData[n]
        /\ \A n \in DOMAIN samplerData : samplerData[n] \in live
    BY <1>1 DEF SetsInv, GrownSince
  <2>4. Len(samplerDS'.written) <= Len(samplerData') BY <1>1, <2>1, <2>2, <2>3
  <2>5. \A n \in 1 .. Len(samplerDS'.written) : samplerDS'.written[n] = samplerData'[n]
    BY <1>1, <2>1, <2>2, <2>3
  <2>6. ASSUME NEW n \in DOMAIN samplerData' PROVE samplerData'[n] \in live'
    <3>1. CASE n = Len(samplerData) + 1 BY <1>1, <2>1, <3>1
    <3>2. CASE n # Len(samplerData) + 1
      <4>1. n \in 1 .. Len(samplerData) BY <2>1, <3>2
      <4> QED BY <1>1, <2>1, <2>3, <4>1
    <3> QED BY <3>1, <3>2
  <2>7. ASSUME NEW n \in 1 .. Len(imageDS'.written), imageData'[n] \in live'
        PROVE  imageDS'.written[n] = imageData'[n]
    <3>1. n \in 1 .. Len(imageDS.written) /\ n \in 1 .. Len(imageData)
      BY <1>1, ListsTyped, WrittenTyped DEF SetsInv, GrownSince
    <3>2. imageData[n] \in AllImages \cup {Null} BY <3>1, ListsTyped, ElementOfSeq
    <3>3. imageData[n] # s BY <3>2, <1>2, Apart
    <3>4. imageData[n] \in live BY <1>1, <2>7, <3>3
    <3> QED BY <1>1, <3>1, <3>4 DEF SetsInv, GrownSince
  <2>8. ASSUME NEW t \in Samplers \cap live', samplerID'[t] < Len(samplerDS'.written)
        PROVE  imageID'[image'[t]] < Len(imageDS'.written)
    <3>1. CASE t = s BY <1>1, <2>1, <2>2, <2>3, <2>8, <3>1
    <3>2. CASE t # s
      <4>1. t \in Samplers \cap live /\ t \in AllSamplers BY <1>1, <3>2, Apart
      <4>2. image'[t] = image[t] /\ samplerID'[t] = samplerID[t] BY <1>1, <1>2, <2>1, <3>2, <4>1
      <4>3. samplerID[t] < Len(samplerDS.written) BY <1>1, <2>8, <4>2
      <4>4. imageID[image[t]] < Len(imageDS.written)
        BY <1>1, <4>1, <4>3 DEF SetsInv, GrownSince
      <4> QED BY <1>1, <4>2, <4>4
    <3> QED BY <3>1, <3>2
  <2>9. /\ phase' # "new" /\ imageFreeIDs' = <<>> /\ Len(imageDS'.written) <= Len(imageData')
    BY <1>1 DEF SetsInv, GrownSince
  <2> QED BY <2>1, <2>4, <2>5, <2>6, <2>7, <2>8, <2>9 DEF GrownSince
<1>5. ImagesAreHeld'
  <2> SUFFICES ASSUME NEW j \in Images, j \in live'
               PROVE  j \in appUseCount' \/ \E t \in Samplers \cap live' : image'[t] = j
    BY DEF ImagesAreHeld
  <2>1. j \in live BY <1>1, <1>2, Apart
  <2>2. CASE j \in appUseCount BY <1>1, <2>2
  <2>3. CASE j \notin appUseCount
    <3>1. PICK t \in Samplers \cap live : image[t] = j BY <2>1, <2>3 DEF SetsInv, ImagesAreHeld
    <3>2. t # s /\ t \in live' /\ t \in AllSamplers BY <1>1, <3>1, Apart
    <3>3. image'[t] = j BY <1>1, <1>2, <3>1, <3>2
    <3> QED BY <3>1, <3>2, <3>3
  <2> QED BY <2>2, <2>3
<1>6. Counted' BY <1>1 DEF SetsInv, Counted
<1>7. NothingLeft' BY <1>1 DEF NothingLeft
<1> QED BY <1>3, <1>4, <1>5, <1>6, <1>7 DEF SetsInv

---------------------------------------------------------------------------
(* A build.                                                                *)

\* The default objects are in the lists, so that there is something to describe.
LEMMA ListsAreNotEmpty ==
  ASSUME Inv, phase = "running"
  PROVE  Len(imageData) > 0 /\ Len(samplerData) > 0
<1>1. imageID[DefaultImage] = 0 /\ samplerID[DefaultSampler] = 0
  BY DEF Inv, DefaultsFirst
<1>2. ImageList!Indexed /\ SamplerList!Indexed BY DEF Inv, ListsAreIndexed
<1>3. imageID[DefaultImage] < Len(imageData) BY <1>1, <1>2, Apart, ImageIDs
<1>4. samplerID[DefaultSampler] < Len(samplerData) BY <1>1, <1>2, Apart, SamplerIDs
<1> QED BY <1>1, <1>3, <1>4, ListsTyped

\* Every sampler that was tracked lives, so that none is read through a stray
\* pointer.
LEMMA SamplersDescribed ==
  ASSUME Inv, SetsInv, phase = "running", NEW reading
  PROVE  Descriptors(samplerData, reading) = samplerData
<1>1. Strays(samplerData) = {} BY DEF SetsInv, GrownSince, Strays
<1>2. Descriptors(samplerData, reading) = [n \in DOMAIN samplerData |-> samplerData[n]]
  BY <1>1 DEF Descriptors
<1>3. samplerData = [n \in DOMAIN samplerData |-> samplerData[n]]
  BY ListsTyped, SeqDef
<1> QED BY <1>2, <1>3

LEMMA ImagesDescribed ==
  ASSUME Inv, NEW reading \in Readings(imageData), NEW w, w = Descriptors(imageData, reading)
  PROVE  /\ w \in Seq(AllImages \cup {Null, Garbage})
         /\ Len(w) = Len(imageData)
         /\ \A n \in 1 .. Len(imageData) : imageData[n] \in live => w[n] = imageData[n]
<1>1. Len(imageData) \in Nat /\ DOMAIN imageData = 1 .. Len(imageData) BY ListsTyped
<1>2. w = [n \in 1 .. Len(imageData) |->
             IF n \in Strays(imageData) THEN reading[n] ELSE imageData[n]]
  BY <1>1 DEF Descriptors
<1>3. ASSUME NEW n \in 1 .. Len(imageData) PROVE w[n] \in AllImages \cup {Null, Garbage}
  <2>1. CASE n \in Strays(imageData)
    <3>1. reading[n] \in {Garbage} \cup (Images \cap live) BY <2>1 DEF Readings
    <3> QED BY <1>2, <1>3, <2>1, <3>1, Apart
  <2>2. CASE n \notin Strays(imageData)
    <3>1. imageData[n] \in AllImages \cup {Null} BY <1>3, ListsTyped, ElementOfSeq
    <3> QED BY <1>2, <1>3, <2>2, <3>1
  <2> QED BY <2>1, <2>2
<1>4. w \in [1 .. Len(imageData) -> AllImages \cup {Null, Garbage}] BY <1>2, <1>3
<1>5. w \in Seq(AllImages \cup {Null, Garbage}) BY <1>1, <1>4, SeqDef
<1>6. Len(w) = Len(imageData) BY <1>1, <1>4, <1>5, LenProperties
<1>7. ASSUME NEW n \in 1 .. Len(imageData), imageData[n] \in live PROVE w[n] = imageData[n]
  <2>1. n \notin Strays(imageData) BY <1>7 DEF Strays
  <2> QED BY <1>2, <1>7, <2>1
<1> QED BY <1>5, <1>6, <1>7

LEMMA BuiltSamplers ==
  ASSUME Inv, SetsInv, BuildPipeline
  PROVE  samplerDS' \in SamplerTrios /\ Fits(samplerDS') /\ samplerDS'.written = samplerData
<1> DEFINE D == AllSamplers \cup {Null, Garbage}
<1>1. /\ phase = "running" /\ builds < MaxBuilds
      /\ \E reading \in Readings(samplerData) :
           samplerDS' = CreateDS(CreateLayout(samplerDS, samplerData), samplerData, reading)
  BY DEF BuildPipeline
<1>2. /\ samplerDS \in TypeOfTrio(1 .. MaxBuilds, D) /\ Fits(samplerDS) /\ builds \in 0 .. MaxBuilds
  BY DEF SetsInv, TriosFit, SamplerTrios, Counted
<1>3. Len(samplerData) \in Nat /\ Len(samplerData) > 0 BY <1>1, ListsTyped, ListsAreNotEmpty
<1>4. samplerData \in Seq(D)
  <2>1. samplerData \in Seq(AllSamplers \cup {Null}) /\ AllSamplers \cup {Null} \subseteq D
    BY ListsTyped
  <2> QED BY <2>1, SeqDef
<1> HIDE DEF D
<1>5. ASSUME NEW reading \in Readings(samplerData),
             samplerDS' = CreateDS(CreateLayout(samplerDS, samplerData), samplerData, reading)
      PROVE  samplerDS' \in TypeOfTrio(1 .. MaxBuilds, D) /\ Fits(samplerDS')
             /\ samplerDS'.written = samplerData
  <2>1. Descriptors(samplerData, reading) = samplerData BY <1>1, SamplersDescribed
  <2>2. /\ Descriptors(samplerData, reading) \in Seq(D)
        /\ Len(Descriptors(samplerData, reading)) = Len(samplerData)
    BY <1>4, <2>1
  <2> QED BY <1>1, <1>2, <1>3, <1>5, <2>1, <2>2, CreatedFits
<1>6. /\ samplerDS' \in TypeOfTrio(1 .. MaxBuilds, D) /\ Fits(samplerDS')
      /\ samplerDS'.written = samplerData
  BY <1>1, <1>5
<1> QED BY <1>6 DEF SamplerTrios, D

LEMMA BuiltImages ==
  ASSUME Inv, SetsInv, BuildPipeline
  PROVE  /\ imageDS' \in ImageTrios /\ Fits(imageDS')
         /\ Len(imageDS'.written) = Len(imageData)
         /\ \A n \in 1 .. Len(imageData) :
              imageData[n] \in live => imageDS'.written[n] = imageData[n]
<1> DEFINE D == AllImages \cup {Null, Garbage}
<1>1. /\ phase = "running" /\ builds < MaxBuilds
      /\ \E reading \in Readings(imageData) :
           imageDS' = CreateDS(CreateLayout(imageDS, imageData), imageData, reading)
  BY DEF BuildPipeline
<1>2. /\ imageDS \in TypeOfTrio(1 .. MaxBuilds, D) /\ Fits(imageDS) /\ builds \in 0 .. MaxBuilds
  BY DEF SetsInv, TriosFit, ImageTrios, Counted
<1>3. Len(imageData) \in Nat /\ Len(imageData) > 0 BY <1>1, ListsTyped, ListsAreNotEmpty
<1>4. ASSUME NEW reading \in Readings(imageData),
             imageDS' = CreateDS(CreateLayout(imageDS, imageData), imageData, reading)
      PROVE  /\ imageDS' \in TypeOfTrio(1 .. MaxBuilds, D) /\ Fits(imageDS')
             /\ Len(imageDS'.written) = Len(imageData)
             /\ \A n \in 1 .. Len(imageData) :
                  imageData[n] \in live => imageDS'.written[n] = imageData[n]
  <2>1. /\ Descriptors(imageData, reading) \in Seq(D)
        /\ Len(Descriptors(imageData, reading)) = Len(imageData)
        /\ \A n \in 1 .. Len(imageData) :
             imageData[n] \in live => Descriptors(imageData, reading)[n] = imageData[n]
    BY <1>4, ImagesDescribed
  <2> HIDE DEF D
  <2>2. /\ imageDS' \in TypeOfTrio(1 .. MaxBuilds, D) /\ Fits(imageDS')
        /\ imageDS'.written = Descriptors(imageData, reading)
    BY <1>1, <1>2, <1>3, <1>4, <2>1, CreatedFits
  <2> QED BY <2>1, <2>2
<1> HIDE DEF D
<1>5. /\ imageDS' \in TypeOfTrio(1 .. MaxBuilds, D) /\ Fits(imageDS')
      /\ Len(imageDS'.written) = Len(imageData)
      /\ \A n \in 1 .. Len(imageData) :
           imageData[n] \in live => imageDS'.written[n] = imageData[n]
  BY <1>1, <1>4
<1> QED BY <1>5 DEF ImageTrios, D

LEMMA BuildPipelineKeepsSetsInv ==
  ASSUME Inv, SetsInv, BuildPipeline
  PROVE  SetsInv'
<1>1. /\ phase = "running" /\ phase' = phase /\ builds < MaxBuilds /\ builds' = builds + 1
      /\ UNCHANGED <<imageData, imageFreeIDs, imageID, samplerData, samplerFreeIDs, samplerID,
                     live, image, appUseCount, asked>>
  BY DEF BuildPipeline, imageVars, samplerVars
<1>2. TriosFit'
  <2>1. imageDS' \in ImageTrios /\ Fits(imageDS') BY BuiltImages
  <2>2. samplerDS' \in SamplerTrios /\ Fits(samplerDS') BY BuiltSamplers
  <2> QED BY <2>1, <2>2 DEF TriosFit, ImageTrios, SamplerTrios, Fits
<1>3. GrownSince'
  <2>1. /\ imageFreeIDs' = <<>> /\ samplerFreeIDs' = <<>> /\ phase' # "new"
        /\ \A n \in DOMAIN samplerData' : samplerData'[n] \in live'
    BY <1>1 DEF SetsInv, GrownSince
  <2>2. Len(imageDS'.written) = Len(imageData) /\ samplerDS'.written = samplerData
        /\ Len(imageData) \in Nat /\ Len(samplerData) \in Nat
    BY BuiltImages, BuiltSamplers, ListsTyped
  <2>3. \A n \in 1 .. Len(imageDS'.written) :
          imageData'[n] \in live' => imageDS'.written[n] = imageData'[n]
    BY <1>1, <2>2, BuiltImages
  <2>4. Len(samplerDS'.written) <= Len(samplerData') /\ Len(imageDS'.written) <= Len(imageData')
    BY <1>1, <2>2
  <2>5. \A n \in 1 .. Len(samplerDS'.written) : samplerDS'.written[n] = samplerData'[n]
    BY <1>1, <2>2
  <2>6. ASSUME NEW s \in Samplers \cap live' PROVE imageID'[image'[s]] < Len(imageDS'.written)
    <3>1. image[s] \in AllImages /\ imageID[image[s]] # -1
      BY <1>1, <2>6, Apart DEF Inv, References, Identified
    <3>2. imageID[image[s]] < Len(imageData) BY <3>1, ImageIDs DEF Inv, ListsAreIndexed
    <3> QED BY <1>1, <2>2, <3>2
  <2> QED BY <2>1, <2>3, <2>4, <2>5, <2>6 DEF GrownSince
<1>4. ImagesAreHeld' BY <1>1 DEF SetsInv, ImagesAreHeld
<1>5. Counted' BY <1>1, BuildsAreBounded DEF SetsInv, Counted
<1>6. NothingLeft' BY <1>1 DEF NothingLeft
<1> QED BY <1>2, <1>3, <1>4, <1>5, <1>6 DEF SetsInv

---------------------------------------------------------------------------
(* The end of the context.                                                 *)

\* A sampler that holds an image of the application is the application's.
LEMMA HolderIsTheApplications ==
  ASSUME Inv, NEW gone, NEW i \in Images, i \in Held(gone)
  PROVE  \E s \in Samplers \cap live : s \notin gone /\ image[s] = i
<1>1. PICK s \in (AllSamplers \cap live) \ gone : image[s] = i BY DEF Held
<1>2. s # DefaultSampler BY <1>1, Apart DEF Inv, References
<1> QED BY <1>1, <1>2, Apart

LEMMA DropImageKeepsSetsInv ==
  ASSUME Inv, SetsInv, NEW i \in Images, DropImage(i)
  PROVE  SetsInv'
<1>1. /\ phase = "terminating" /\ phase' = phase /\ appUseCount' = appUseCount \ {i}
      /\ UNCHANGED <<imageDS, samplerDS, image, asked, builds>>
  BY DEF DropImage
<1>2. TriosFit' BY <1>1 DEF SetsInv, TriosFit, Fits
<1>3. GrownSince' BY <1>1 DEF GrownSince
<1>4. ImagesAreHeld'
  <2>1. CASE i \in Held({})
    <3>1. live' = live BY <2>1 DEF DropImage
    <3>2. \E s \in Samplers \cap live : image[s] = i BY <2>1, HolderIsTheApplications
    <3> QED BY <1>1, <3>1, <3>2 DEF SetsInv, ImagesAreHeld
  <2>2. CASE i \notin Held({})
    <3>1. live' = live \ {i} BY <2>2 DEF DropImage
    <3>2. i \notin Samplers BY Apart
    <3> QED BY <1>1, <3>1, <3>2 DEF SetsInv, ImagesAreHeld
  <2> QED BY <2>1, <2>2
<1>5. Counted' BY <1>1 DEF SetsInv, Counted
<1>6. NothingLeft' BY <1>1 DEF NothingLeft
<1> QED BY <1>2, <1>3, <1>4, <1>5, <1>6 DEF SetsInv

LEMMA DropSamplerKeepsSetsInv ==
  ASSUME Inv, SetsInv, NEW s \in Samplers, DropSampler(s)
  PROVE  SetsInv'
<1>1. /\ phase = "terminating" /\ phase' = phase /\ appUseCount' = appUseCount \ {s}
      /\ image' = [image EXCEPT ![s] = Null]
      /\ UNCHANGED <<imageDS, samplerDS, asked, builds>>
  BY DEF DropSampler
<1>2. TriosFit' BY <1>1 DEF SetsInv, TriosFit, Fits
<1>3. GrownSince' BY <1>1 DEF GrownSince
<1>4. \A t \in Samplers \ {s} : image'[t] = image[t] BY <1>1, Apart DEF Inv, References
<1>5. ASSUME NEW j \in Images, j \in live'
      PROVE  j \in appUseCount' \/ \E t \in Samplers \cap live' : image'[t] = j
  <2>1. \/ live' = live \ {s} /\ image[s] \in appUseCount \cup Held({s})
        \/ live' = live \ {s, image[s]}
    BY DEF DropSampler
  <2>2. j \in live /\ j # s BY <1>5, <2>1, Apart
  <2>3. CASE j \in appUseCount BY <1>1, <2>2, <2>3
  <2>4. CASE j \notin appUseCount
    <3>1. \E t \in Samplers \cap live : t # s /\ image[t] = j
      <4>1. PICK t \in Samplers \cap live : image[t] = j
        BY <1>5, <2>2, <2>4 DEF SetsInv, ImagesAreHeld
      <4>2. CASE t # s BY <4>1, <4>2
      <4>3. CASE t = s
        <5>1. j \in Held({s}) BY <1>5, <2>1, <2>4, <4>1, <4>3
        <5> QED BY <5>1, <1>5, HolderIsTheApplications
      <4> QED BY <4>2, <4>3
    <3>2. PICK t \in Samplers \cap live : t # s /\ image[t] = j BY <3>1
    <3>3. t \notin Images BY <3>2, Apart
    <3>4. image[s] \in Images BY DEF DropSampler, Inv, References
    <3>5. t \in live' BY <2>1, <3>2, <3>3, <3>4
    <3> QED BY <1>4, <3>2, <3>5
  <2> QED BY <2>3, <2>4
<1>6. ImagesAreHeld' BY <1>5 DEF ImagesAreHeld
<1>7. Counted' BY <1>1 DEF SetsInv, Counted
<1>8. NothingLeft' BY <1>1 DEF NothingLeft
<1> QED BY <1>2, <1>3, <1>6, <1>7, <1>8 DEF SetsInv

LEMMA EndContextKeepsSetsInv ==
  ASSUME Inv, SetsInv, EndContext
  PROVE  SetsInv'
<1>1. /\ phase' = "ended" /\ appUseCount = {} /\ appUseCount' = {}
      /\ live' = live \ {DefaultSampler, DefaultImage}
      /\ imageDS' = DestroyHelper(imageDS) /\ samplerDS' = DestroyHelper(samplerDS)
      /\ UNCHANGED <<asked, builds>>
  BY DEF EndContext
<1>2. live' = {}
  <2>1. live \cap Samplers = {} BY <1>1 DEF Inv, References
  <2>2. live \cap Images = {} BY <1>1, <2>1 DEF SetsInv, ImagesAreHeld
  <2> QED BY <1>1, <2>1, <2>2, Apart DEF Inv, References
<1>3. /\ imageDS' \in ImageTrios /\ Fits(imageDS') /\ NothingAllocated(imageDS')
  BY <1>1, DestroyedHelperFits DEF SetsInv, TriosFit, ImageTrios
<1>4. /\ samplerDS' \in SamplerTrios /\ Fits(samplerDS') /\ NothingAllocated(samplerDS')
  BY <1>1, DestroyedHelperFits DEF SetsInv, TriosFit, SamplerTrios
<1>5. TriosFit' BY <1>3, <1>4 DEF TriosFit, ImageTrios, SamplerTrios, Fits
<1>6. GrownSince' BY <1>1 DEF GrownSince
<1>7. ImagesAreHeld' BY <1>2 DEF ImagesAreHeld
<1>8. Counted' BY <1>1 DEF SetsInv, Counted
<1>9. NothingLeft' BY <1>2, <1>3, <1>4 DEF NothingLeft, NothingAllocated
<1> QED BY <1>5, <1>6, <1>7, <1>8, <1>9 DEF SetsInv

LEMMA NextKeepsSetsInv == Inv /\ SetsInv /\ [Next]_vars => SetsInv'
<1> SUFFICES ASSUME Inv, SetsInv, [Next]_vars PROVE SetsInv' OBVIOUS
<1>1. CASE Construct BY <1>1, ConstructKeepsSetsInv
<1>2. CASE \E i \in Images, format \in Formats : CreateImage(i, format)
  BY <1>2, CreateImageKeepsSetsInv
<1>3. CASE \E s \in Samplers, i \in Images : CreateSampler(s, i)
  BY <1>3, CreateSamplerKeepsSetsInv
<1>4. CASE BuildPipeline BY <1>4, BuildPipelineKeepsSetsInv
<1>5. CASE Terminate
  <2>1. /\ phase' = "terminating"
        /\ UNCHANGED <<imageDS, samplerDS, live, image, appUseCount, asked, builds>>
    BY <1>5 DEF Terminate
  <2> QED BY <2>1 DEF SetsInv, TriosFit, Fits, GrownSince, ImagesAreHeld, Counted, NothingLeft
<1>6. CASE \E i \in Images : DropImage(i) BY <1>6, DropImageKeepsSetsInv
<1>7. CASE \E s \in Samplers : DropSampler(s) BY <1>7, DropSamplerKeepsSetsInv
<1>8. CASE EndContext BY <1>8, EndContextKeepsSetsInv
<1>9. CASE UNCHANGED vars
  BY <1>9 DEF vars, imageVars, samplerVars, SetsInv, TriosFit, Fits, GrownSince, ImagesAreHeld,
    Counted, NothingLeft
<1> QED BY <1>1, <1>2, <1>3, <1>4, <1>5, <1>6, <1>7, <1>8, <1>9 DEF Next

LEMMA SetsInvAlways == Spec => [](Inv /\ SetsInv)
  BY InitInv, InitSetsInv, NextKeepsInv, NextKeepsSetsInv, PTL DEF Spec

---------------------------------------------------------------------------
(* What the sets are for.                                                  *)

\* Type correctness: the lists, the trios and the reference counts.
THEOREM TypesAlwaysOK == Spec => []TypeOK
<1>1. ASSUME Inv, SetsInv PROVE TypeOK
  <2>1. ImageList!TypeOK /\ SamplerList!TypeOK
    BY <1>1 DEF Inv, ListsAreIndexed, ImageList!Indexed, SamplerList!Indexed
  <2>2. /\ imageDS \in ImageTrios /\ samplerDS \in SamplerTrios
        /\ asked \in [Images -> Formats \cup {Null}] /\ builds \in 0 .. MaxBuilds
    BY <1>1 DEF SetsInv, TriosFit, Counted
  <2>3. /\ live \subseteq AllImages \cup AllSamplers /\ appUseCount \subseteq live
        /\ image \in [AllSamplers -> AllImages \cup {Null}]
        /\ phase \in {"new", "running", "terminating", "ended"}
    BY <1>1 DEF Inv, References, DefaultsFirst
  <2> QED BY <2>1, <2>2, <2>3 DEF TypeOK, ImageTrios, SamplerTrios
<1> QED BY <1>1, SetsInvAlways, PTL

\* DSHelper: no set is freed from a pool that went before it, and every set is
\* as long as its layout and fits its pool.
THEOREM SetsAlwaysAgreeWithTheirPools == Spec => []SetsAgreeWithTheirPools
<1>1. SetsInv => SetsAgreeWithTheirPools
  BY DEF SetsInv, TriosFit, Fits, SetsAgreeWithTheirPools, SetFitsPool
<1> QED BY <1>1, SetsInvAlways, PTL

\* ~Context: whatever the application created, and in whatever order
\* terminate() dropped it, nothing of it is left.
THEOREM NothingIsEverLeft == Spec => []NothingLeft
<1>1. SetsInv => NothingLeft BY DEF SetsInv
<1> QED BY <1>1, SetsInvAlways, PTL

\* The halves of a word.
LEMMA HalvesOfAWord ==
  ASSUME NEW w \in Nat \ {0}, NEW low \in Nat, NEW high \in Nat, low < w
  PROVE  (low + w * high) % w = low /\ (low + w * high) \div w = high
  OBVIOUS

\* tex2D(): the texture object of a sampler that the bound set knows leads to
\* that very sampler and the image it was made from.  An ID fits its half of the
\* word when there are no more than HalfWord samplers.
THEOREM TextureObjectsAlwaysSample ==
  ASSUME IsFiniteSet(AllSamplers), Cardinality(AllSamplers) <= HalfWord
  PROVE  Spec => []TextureObjectsSample
<1>1. ASSUME Inv, SetsInv, phase = "running", NEW s \in Samplers \cap live,
             samplerID[s] < Len(samplerDS.written)
      PROVE  /\ imageID[image[s]] < Len(imageDS.written)
             /\ Sampled(TextureObject(s)) = <<s, image[s]>>
  <2> DEFINE low == samplerID[s]
             high == imageID[image[s]]
  <2>1. high < Len(imageDS.written) BY <1>1 DEF SetsInv, GrownSince
  <2>2. /\ s \in AllSamplers /\ samplerID[s] # -1
        /\ image[s] \in AllImages \cap live /\ imageID[image[s]] # -1
    BY <1>1, Apart DEF Inv, References, Identified
  <2>3. ImageList!Indexed /\ SamplerList!Indexed BY <1>1 DEF Inv, ListsAreIndexed
  <2>4. low \in Nat /\ low < Len(samplerData) /\ samplerData[low + 1] = s
    BY <2>2, <2>3, SamplerIDs
  <2>5. high \in Nat /\ imageData[high + 1] = image[s] BY <2>2, <2>3, ImageIDs
  <2>6. low < HalfWord
    <3>1. Indexed(AllSamplers, samplerData, samplerFreeIDs, samplerID)
      BY <2>3, SamplerListIsIndexed DEF IndexedSamplers
    <3>2. samplerFreeIDs = <<>> BY <1>1 DEF SetsInv, GrownSince
    <3>3. Len(samplerData) <= Cardinality(AllSamplers) BY <3>1, <3>2, FullIndexedIsCompact
    <3>4. Cardinality(AllSamplers) \in Nat BY FS_CardinalityType
    <3> QED BY <1>1, <2>4, <3>3, <3>4, ListsTyped, HalvesDoNotOverlap
  <2> HIDE DEF low, high
  <2>7. (low + HalfWord * high) % HalfWord = low /\ (low + HalfWord * high) \div HalfWord = high
    BY <2>4, <2>5, <2>6, HalvesDoNotOverlap, HalvesOfAWord
  <2>8. TextureObject(s) = low + HalfWord * high BY DEF TextureObject, low, high
  <2>9. Sampled(TextureObject(s)) = <<samplerDS.written[low + 1], imageDS.written[high + 1]>>
    BY <2>7, <2>8 DEF Sampled
  <2>10. samplerDS.written[low + 1] = s
    <3>1. low < Len(samplerDS.written) BY <1>1 DEF low
    <3>2. low + 1 \in 1 .. Len(samplerDS.written)
      BY <1>1, <2>4, <3>1, WrittenTyped DEF SetsInv
    <3> QED BY <1>1, <2>4, <3>2 DEF SetsInv, GrownSince
  <2>11. imageDS.written[high + 1] = image[s]
    <3>1. high + 1 \in 1 .. Len(imageDS.written)
      BY <1>1, <2>1, <2>5, WrittenTyped DEF SetsInv
    <3>2. imageData[high + 1] \in live BY <2>2, <2>5
    <3> QED BY <1>1, <2>5, <3>1, <3>2 DEF SetsInv, GrownSince
  <2> QED BY <2>1, <2>9, <2>10, <2>11 DEF high
<1>2. Inv /\ SetsInv => TextureObjectsSample BY <1>1 DEF TextureObjectsSample
<1> QED BY <1>2, SetsInvAlways, PTL
=============================================================================
