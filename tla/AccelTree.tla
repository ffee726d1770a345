----------------------------- MODULE AccelTree -----------------------------
(***************************************************************************)
(* The acceleration structures of one context from creation to the end of  *)
(* the context: geometry accels (TrianglesGeomAccel, UserGeomAccel) with   *)
(* their SBT ranges, instance accels that copy the address and the SBT     *)
(* offset of the accels they instance, and Context::terminate, which lets  *)
(* go of the application's references in the order of a std::map, that is  *)
(* in any order.                                                           *)
(*                                                                         *)
(* An accel's destructor runs when its last std::shared_ptr goes away.  An *)
(* instance accel holds one per instance and lets go of them before its    *)
(* own SBT range is released, so destructors nest: unwinding is the stack  *)
(* of destructors that have begun.                                         *)
(***************************************************************************)
EXTENDS Integers, SequencesExt

CONSTANTS
  GeomAccels, InstAccels, \* the accels that ever exist
  MaxGeoms,               \* most geometries in a geometry accel
  MaxInstances,           \* MaxInstances[i]: most instances in instance accel i
  MaxEntries,             \* most SBT entries of an accel
  MaxBuilds               \* accel builds (bounds the model)

ASSUME KindsDiffer == GeomAccels \cap InstAccels = {}
ASSUME SizesAssumption ==
  /\ MaxEntries \in Nat /\ MaxGeoms \in 0 .. MaxEntries
  /\ MaxInstances \in [InstAccels -> 0 .. MaxEntries]

Accels == GeomAccels \cup InstAccels

VARIABLES
  appUseCount,  \* the accels the application holds a reference to
  accels,       \* InstanceAccel::accels: what each instance accel refers to
  handle,       \* Accel::handle: the build that made it, 0 for null
  builds,       \* structures built so far; build n has device address n
  instances,    \* the instances written by the last build of each TLAS
  terminating,  \* Context::terminate() has been called
  unwinding,    \* destructors that have begun, innermost last
  freedRanges, maxAllocedID, live, sbtEntries \* RangeAllocator

rangeVars == <<freedRanges, maxAllocedID, live, sbtEntries>>
buildVars == <<handle, builds, instances>>
vars == <<appUseCount, accels, buildVars, terminating, unwinding, rangeVars>>

Ranges == INSTANCE RangeAllocator

---------------------------------------------------------------------------
(* Construction.                                                           *)

\* Accel::Accel: an accel without geometries or instances reserves nothing.
Reserve(a, n) ==
  IF n = 0
  THEN Ranges!ConstructEmpty(a)
  ELSE Ranges!ConstructReusing(a, n) \/ Ranges!ConstructAtTop(a, n)

CreateGeomAccel(a, n) ==
  /\ ~terminating
  /\ Reserve(a, n)
  /\ appUseCount' = appUseCount \cup {a}
  /\ UNCHANGED <<accels, buildVars, terminating, unwinding>>

CreateInstanceAccel(i, as) ==
  /\ ~terminating
  /\ \A j \in DOMAIN as : as[j] \in live
  /\ Reserve(i, Len(as))
  /\ accels' = [accels EXCEPT ![i] = as]
  /\ appUseCount' = appUseCount \cup {i}
  /\ UNCHANGED <<buildVars, terminating, unwinding>>

---------------------------------------------------------------------------
(* build().  destroyAccel() first destroys the structure of the previous   *)
(* build, so every build yields a new address.                             *)

Usable(a) == ~terminating /\ a \in live /\ builds < MaxBuilds

BuildGeomAccel(a) ==
  /\ Usable(a)
  /\ builds' = builds + 1
  /\ handle' = [handle EXCEPT ![a] = builds']
  /\ UNCHANGED <<appUseCount, accels, instances, terminating, unwinding, rangeVars>>

\* Mutant: the offset of the instance accel's own range is used.
InstanceAtOwnRange(i, a) ==
  [sbtOffset |-> sbtEntries[i].begin, address |-> handle[a]]

\* deviceAddress() is 0 for an accel that has never been built.
Instance(i, a) == [sbtOffset |-> sbtEntries[a].begin, address |-> handle[a]]

\* Mutant: an instance accel that already has its instances is not refilled.
BuildInstanceAccelOnce(i) ==
  /\ Usable(i) /\ accels[i] # <<>>
  /\ instances' = IF instances[i] # <<>> THEN instances ELSE
       [instances EXCEPT ![i] = [j \in DOMAIN accels[i] |-> Instance(i, accels[i][j])]]
  /\ builds' = builds + 1
  /\ handle' = [handle EXCEPT ![i] = builds']
  /\ UNCHANGED <<appUseCount, accels, terminating, unwinding, rangeVars>>

BuildInstanceAccel(i) ==
  /\ Usable(i) /\ accels[i] # <<>>
  /\ instances' =
       [instances EXCEPT ![i] = [j \in DOMAIN accels[i] |-> Instance(i, accels[i][j])]]
  /\ builds' = builds + 1
  /\ handle' = [handle EXCEPT ![i] = builds']
  /\ UNCHANGED <<appUseCount, accels, terminating, unwinding, rangeVars>>

---------------------------------------------------------------------------
(* The end of the context.                                                 *)

Terminate ==
  /\ ~terminating
  /\ terminating' = TRUE
  /\ UNCHANGED <<appUseCount, accels, buildVars, unwinding, rangeVars>>

\* Mutants: only the application's references are counted; an accel whose
\* destructor has begun does not count, though it may refer to a twice.
HeldByApp(a, app, refs) == a \in app
HeldByIntact(a, app, refs) ==
  a \in app \/ \E i \in live \ Range(unwinding) : i \in InstAccels /\ a \in Range(refs[i])

\* Some shared_ptr to a is left.
Held(a, app, refs) ==
  a \in app \/ \E i \in live : i \in InstAccels /\ a \in Range(refs[i])

\* Mutant: a destructor never begins within another.
UnwindOutermost(a, app, refs, stack) ==
  unwinding' = IF Held(a, app, refs) \/ stack # <<>> THEN stack ELSE Append(stack, a)

\* The destructor of a begins when its last reference goes.
Unwind(a, app, refs, stack) ==
  unwinding' = IF Held(a, app, refs) THEN stack ELSE Append(stack, a)

\* Context::terminate() clears one more entry of appUseCount.
DropAppRef(a) ==
  /\ terminating /\ unwinding = <<>>
  /\ a \in appUseCount
  /\ appUseCount' = appUseCount \ {a}
  /\ Unwind(a, appUseCount', accels, <<>>)
  /\ UNCHANGED <<accels, buildVars, terminating, rangeVars>>

\* ~InstanceAccel lets go of one of its accels.
DropInstance(i, j) ==
  /\ unwinding # <<>> /\ i = Last(unwinding)
  /\ i \in InstAccels /\ j \in DOMAIN accels[i]
  /\ accels' = [accels EXCEPT ![i] = RemoveAt(@, j)]
  /\ Unwind(accels[i][j], appUseCount, accels', unwinding)
  /\ UNCHANGED <<appUseCount, buildVars, terminating, rangeVars>>

\* ~Accel: the range goes back and the structure is destroyed.  Nothing in it
\* asks whether that has happened before.
Release(a) ==
  /\ unwinding # <<>> /\ a = Last(unwinding)
  /\ a \in InstAccels => accels[a] = <<>>
  /\ Ranges!GiveBack(a)
  /\ handle' = [handle EXCEPT ![a] = 0]
  /\ unwinding' = Front(unwinding)
  /\ UNCHANGED <<appUseCount, accels, builds, instances, terminating>>

---------------------------------------------------------------------------
Init ==
  /\ appUseCount = {}
  /\ accels = [i \in InstAccels |-> <<>>]
  /\ handle = [a \in Accels |-> 0]
  /\ builds = 0
  /\ instances = [i \in InstAccels |-> <<>>]
  /\ terminating = FALSE
  /\ unwinding = <<>>
  /\ Ranges!Init

Teardown ==
  \/ \E a \in Accels : DropAppRef(a) \/ Release(a)
  \/ \E i \in InstAccels : \E j \in DOMAIN accels[i] : DropInstance(i, j)

Next ==
  \/ \E a \in GeomAccels : \E n \in 0 .. MaxGeoms : CreateGeomAccel(a, n)
  \/ \E i \in InstAccels : \E n \in 0 .. MaxInstances[i] :
       \E as \in [1 .. n -> GeomAccels] : CreateInstanceAccel(i, as)
  \/ \E a \in GeomAccels : BuildGeomAccel(a)
  \/ \E i \in InstAccels : BuildInstanceAccel(i)
  \/ Terminate
  \/ Teardown

\* terminate() runs to its end once it has been called; nothing makes the
\* application call it.
Spec == Init /\ [][Next]_vars /\ WF_vars(Teardown)

---------------------------------------------------------------------------
(* Properties.                                                             *)

Intact(i) == i \in live /\ i \notin Range(unwinding)

\* What an instance accel refers to lives as long as it does, even while
\* terminate() has already dropped the application's own reference to it.
InstancedAccelsLive ==
  \A i \in InstAccels : \A a \in Range(accels[i]) :
    i \in live => Intact(a)

\* The SBT offset a TLAS was built with stays the begin of the instanced
\* accel's range, so hits are looked up where buildSBT() writes them.
OffsetsCurrent ==
  \A i \in InstAccels : Intact(i) /\ handle[i] # 0 =>
    \A j \in DOMAIN accels[i] :
      instances[i][j].sbtOffset = sbtEntries[accels[i][j]].begin

\* A TLAS built after the accels it instances refers to their current
\* structures; only a rebuild below it can leave it with a destroyed one.
AddressesCurrent ==
  \A i \in InstAccels : Intact(i) =>
    \A j \in DOMAIN accels[i] :
      handle[i] > handle[accels[i][j]] =>
        instances[i][j].address = handle[accels[i][j]]

\* terminate() gets to where no accel is left and the SBT has no entry in use.
TerminateFinishes == terminating ~> (live = {} /\ maxAllocedID = 0)

\* No range goes back twice: ~Accel hands its range to release() unasked, and
\* the allocator's contract allows that once for an accel and only while it
\* lives.  With several references to one accel, from several instance accels
\* or from one, and destructors that nest, a destructor still runs once.
RangesSpec == Ranges!Spec
===========================================================================
