-------------------------- MODULE RangeAllocator --------------------------
(***************************************************************************)
(* The allocator of hit-group ranges in a context's shader binding table   *)
(* (vulkanite/RangeAllocator) together with its only clients, the          *)
(* constructor and the destructor of Accel.  Every accel (triangles, user  *)
(* geometry or instances) holds one range for as long as it lives.         *)
(*                                                                         *)
(* The freed ranges are a C++ vector that alloc() searches front to back,  *)
(* so they are a sequence here: which range is reused depends on the       *)
(* order.  An accel without entries never calls alloc(): its begin is      *)
(* int -1, its destructor still calls release(-1, 0).  The code converts   *)
(* that begin to the largest size_t; begins and ends are only ever         *)
(* compared with == outside alloc(), and -1 compares with every real       *)
(* position in the same way.                                               *)
(***************************************************************************)
EXTENDS Integers, SequencesExt

CONSTANTS
  Accels,     \* the acceleration structures that ever exist in the context
  MaxEntries  \* most SBT entries one accel asks for (bounds the model)

ASSUME MaxEntriesAssumption == MaxEntries \in Nat

VARIABLES
  freedRanges,   \* RangeAllocator::freedRanges, in vector order
  maxAllocedID,  \* RangeAllocator::maxAllocedID, one past the last SBT entry
  live,          \* the accels constructed and not yet destroyed
  sbtEntries     \* sbtEntries[a]: Accel::sbtEntryBegin and sbtEntryCount

vars == <<freedRanges, maxAllocedID, live, sbtEntries>>

---------------------------------------------------------------------------
(* Ranges.                                                                 *)

FreedRange == [begin : Int, size : Nat]
Span(b, n) == [begin |-> b, size |-> n]
End(r) == r.begin + r.size

\* The range of an accel with no entries, and of one that is not alive.
NoEntries == Span(-1, 0)

SlotsOf(r) == r.begin .. End(r) - 1

---------------------------------------------------------------------------
(* alloc().                                                                *)

\* Mutant: a range one entry too small is accepted.
FittingTooSmall(freed, n) == {i \in DOMAIN freed : freed[i].size + 1 >= n}

Fitting(freed, n) == {i \in DOMAIN freed : freed[i].size >= n}

\* The first freed range that is large enough.
FirstFit(freed, n) ==
  CHOOSE i \in Fitting(freed, n) : \A j \in Fitting(freed, n) : i <= j

\* Mutant: the rest keeps its old begin.
TakeWithoutAdvance(freed, i, n) ==
  IF freed[i].size = n
  THEN RemoveAt(freed, i)
  ELSE [freed EXCEPT ![i] = Span(@.begin, @.size - n)]

\* What is left of the freed ranges when n entries are taken from range i.
TakeFrom(freed, i, n) ==
  IF freed[i].size = n
  THEN RemoveAt(freed, i)
  ELSE [freed EXCEPT ![i] = Span(@.begin + n, @.size - n)]

---------------------------------------------------------------------------
(* release().  One level of the recursion absorbs the first freed range    *)
(* that touches the one being released and starts over with the union.     *)

\* Mutant: only the neighbour below is looked for.
TouchesBelow(f, r) == End(f) = r.begin

Touches(f, r) == End(f) = r.begin \/ End(r) = f.begin

\* Mutant: the absorbed range moves the begin but is not added to the size.
JoinWithoutGrowing(f, r) ==
  Span(IF End(f) = r.begin THEN f.begin ELSE r.begin, r.size)

Join(f, r) ==
  Span(IF End(f) = r.begin THEN f.begin ELSE r.begin, f.size + r.size)

Touching(freed, r) == {i \in DOMAIN freed : Touches(freed[i], r)}

FirstTouching(freed, r) ==
  CHOOSE i \in Touching(freed, r) : \A j \in Touching(freed, r) : i <= j

\* Mutant: release() never merges.
CoalesceNothing(s) == s

Coalesce(s) ==
  IF Touching(s.freed, s.range) = {}
  THEN s
  ELSE LET i == FirstTouching(s.freed, s.range) IN
       [freed |-> RemoveAt(s.freed, i), range |-> Join(s.freed[i], s.range)]

\* Mutant: the merge is not repeated with the union.
CoalescedOnce(freed, r) == Coalesce([freed |-> freed, range |-> r])

\* A freed range touches at most one on each side, so the recursion is never
\* more than two deep: CoalesceIsDone below says so.
Coalesced(freed, r) == Coalesce(Coalesce([freed |-> freed, range |-> r]))

\* Mutant: the early return after lowering maxAllocedID is missing.
DepositAlways(s) ==
  /\ maxAllocedID' = IF End(s.range) = maxAllocedID
                     THEN maxAllocedID - s.range.size ELSE maxAllocedID
  /\ freedRanges' = Append(s.freed, s.range)

\* The innermost call: nothing touches r any more.
Deposit(s) ==
  IF End(s.range) = maxAllocedID
  THEN /\ maxAllocedID' = maxAllocedID - s.range.size
       /\ freedRanges' = s.freed
  ELSE /\ freedRanges' = Append(s.freed, s.range)
       /\ UNCHANGED maxAllocedID

---------------------------------------------------------------------------
(* The clients.                                                            *)

Init ==
  /\ freedRanges = <<>>
  /\ maxAllocedID = 0
  /\ live = {}
  /\ sbtEntries = [a \in Accels |-> NoEntries]

Hold(a, r) ==
  /\ live' = live \cup {a}
  /\ sbtEntries' = [sbtEntries EXCEPT ![a] = r]

\* Accel::Accel with no entries: alloc() is not called.
ConstructEmpty(a) ==
  /\ a \notin live
  /\ Hold(a, NoEntries)
  /\ UNCHANGED <<freedRanges, maxAllocedID>>

\* Accel::Accel, alloc() finds a freed range.
ConstructReusing(a, n) ==
  /\ a \notin live
  /\ Fitting(freedRanges, n) # {}
  /\ LET i == FirstFit(freedRanges, n) IN
       /\ freedRanges' = TakeFrom(freedRanges, i, n)
       /\ Hold(a, Span(freedRanges[i].begin, n))
  /\ UNCHANGED maxAllocedID

\* Accel::Accel, alloc() extends the table.
ConstructAtTop(a, n) ==
  /\ a \notin live
  /\ Fitting(freedRanges, n) = {}
  /\ Hold(a, Span(maxAllocedID, n))
  /\ maxAllocedID' = maxAllocedID + n
  /\ UNCHANGED freedRanges

\* What Accel::~Accel does with the range, which it does not ask itself whether
\* it may: release() runs whether or not alloc() ever did.
GiveBack(a) ==
  /\ Deposit(Coalesced(freedRanges, sbtEntries[a]))
  /\ live' = live \ {a}
  /\ sbtEntries' = [sbtEntries EXCEPT ![a] = NoEntries]

\* The contract: an accel is destroyed once, while it is alive.
Destroy(a) == a \in live /\ GiveBack(a)

Next ==
  \E a \in Accels :
    \/ ConstructEmpty(a)
    \/ \E n \in 1 .. MaxEntries : ConstructReusing(a, n) \/ ConstructAtTop(a, n)
    \/ Destroy(a)

Spec == Init /\ [][Next]_vars
---------------------------------------------------------------------------
(* Properties.                                                             *)

TypeOK ==
  /\ freedRanges \in Seq(FreedRange)
  /\ maxAllocedID \in Nat
  /\ live \subseteq Accels
  /\ sbtEntries \in [Accels -> FreedRange]

Apart(r, s) == End(r) <= s.begin \/ End(s) <= r.begin

\* No SBT entry belongs to two accels: buildSBT() writes the hit records of
\* every geom accel at its own begin, so a shared entry would give one of
\* them the programs and the data of the other.
LiveRangesDisjoint ==
  \A a, b \in Accels : a # b => Apart(sbtEntries[a], sbtEntries[b])

\* A range is never handed out again while an accel still uses any of it.
FreedRangesAreUnused ==
  \A a \in Accels : \A i \in DOMAIN freedRanges :
    Apart(sbtEntries[a], freedRanges[i])

\* release() leaves nothing to merge: two freed ranges are neither
\* overlapping nor adjacent, and none reaches the end of the table.
FreedRangesMaximal ==
  /\ \A i, j \in DOMAIN freedRanges : i # j =>
       \/ End(freedRanges[i]) < freedRanges[j].begin
       \/ End(freedRanges[j]) < freedRanges[i].begin
  /\ \A i \in DOMAIN freedRanges : End(freedRanges[i]) < maxAllocedID

\* No entry is lost: each one below maxAllocedID, the size buildSBT() gives
\* the hit-group table, is held by an accel or waits in the freed ranges.
NoEntryLost ==
  \A x \in 0 .. maxAllocedID - 1 :
    \/ \E a \in live : x \in SlotsOf(sbtEntries[a])
    \/ \E i \in DOMAIN freedRanges : x \in SlotsOf(freedRanges[i])

\* Every range, held or freed, lies inside the table whose size buildSBT()
\* takes from maxAllocedID, also after release() has lowered it.
Proper(r, top) == r = NoEntries \/ (r.size > 0 /\ 0 <= r.begin /\ End(r) <= top)

RangesInTable ==
  /\ \A a \in Accels : Proper(sbtEntries[a], maxAllocedID)
  /\ \A a \in Accels \ live : sbtEntries[a] = NoEntries
  /\ \A i \in DOMAIN freedRanges : Proper(freedRanges[i], maxAllocedID)

\* When no accel holds an entry the table has shrunk back to nothing, in
\* whatever order the accels died.
TableShrinksToNothing ==
  (\A a \in live : sbtEntries[a].size = 0) => maxAllocedID = 0

\* Two levels are all the recursion release() ever does: after them nothing
\* touches the range that is being released.
CoalesceIsDone ==
  \A a \in live :
    LET s == Coalesced(freedRanges, sbtEntries[a])
    IN Touching(s.freed, s.range) = {}

\* The held and the freed ranges partition the table: the inductive invariant.
Partition ==
  /\ TypeOK
  /\ LiveRangesDisjoint
  /\ FreedRangesAreUnused
  /\ FreedRangesMaximal
  /\ NoEntryLost
  /\ RangesInTable

\* The allocator implements exclusive, contiguous, immovable slots.
Slots == INSTANCE SbtSlots WITH slots <- [a \in Accels |-> SlotsOf(sbtEntries[a])]
SlotsSpec == Slots!Spec
===========================================================================
