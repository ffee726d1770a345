---------------------------- MODULE IndexedList ----------------------------
(***************************************************************************)
(* The lists that give objects small stable IDs: IndexedListOf (images and *)
(* samplers, whose ID is the binding index a shader sees) and ListOf       *)
(* (ray generation and miss programs, whose ID is their record in the      *)
(* SBT).  Both reuse the ID given up last, and grow only when there is     *)
(* none to reuse.                                                          *)
(***************************************************************************)
EXTENDS Integers, SequencesExt

CONSTANTS
  Objects,  \* what can be in the list
  Null      \* the null pointer left where an object was, no object

VARIABLES
  data,     \* IndexedListOf::data, ListOf::elements: slot n is data[n + 1]
  freeIDs,  \* the stack of free IDs, its top last
  ID        \* ID[o]: the constant member ID of o, None while not in the list

vars == <<data, freeIDs, ID>>

None == -1

---------------------------------------------------------------------------
Init ==
  /\ data = <<>>
  /\ freeIDs = <<>>
  /\ ID = [o \in Objects |-> None]

\* track(), insert() with no ID to reuse.
TrackAtEnd(o) ==
  /\ ID[o] = None
  /\ freeIDs = <<>>
  /\ data' = Append(data, o)
  /\ ID' = [ID EXCEPT ![o] = Len(data)]
  /\ UNCHANGED freeIDs

\* track(), insert(): the ID on top of the stack is reused.
TrackInHole(o) ==
  /\ ID[o] = None
  /\ freeIDs # <<>>
  /\ ID' = [ID EXCEPT ![o] = Last(freeIDs)]
  /\ freeIDs' = Front(freeIDs)
  /\ data' = [data EXCEPT ![Last(freeIDs) + 1] = o]

Track(o) == TrackAtEnd(o) \/ TrackInHole(o)

\* Mutants: the ID is not given back; the ID given back is the size of the list.
ForgetLosingID(o) ==
  /\ ID[o] # None
  /\ data' = [data EXCEPT ![ID[o] + 1] = Null]
  /\ ID' = [ID EXCEPT ![o] = None]
  /\ UNCHANGED freeIDs

ForgetPushingSize(o) ==
  /\ ID[o] # None
  /\ freeIDs' = Append(freeIDs, Len(data))
  /\ data' = [data EXCEPT ![ID[o] + 1] = Null]
  /\ ID' = [ID EXCEPT ![o] = None]

\* forget(), release(), called by the object's destructor.
Forget(o) ==
  /\ ID[o] # None
  /\ freeIDs' = Append(freeIDs, ID[o])
  /\ data' = [data EXCEPT ![ID[o] + 1] = Null]
  /\ ID' = [ID EXCEPT ![o] = None]

Next == \E o \in Objects : Track(o) \/ Forget(o)

Spec == Init /\ [][Next]_vars
---------------------------------------------------------------------------
(* Properties.                                                             *)

TypeOK ==
  /\ data \in Seq(Objects \cup {Null})
  /\ freeIDs \in Seq(0 .. Len(data) - 1)
  /\ ID \in [Objects -> {None} \cup 0 .. Len(data) - 1]

\* The ID an object was given leads back to it: no other object is ever put
\* into its slot, however many were tracked and forgotten meanwhile.
IDsLeadBack ==
  /\ \A o \in Objects : ID[o] # None => data[ID[o] + 1] = o
  /\ \A n \in DOMAIN data : data[n] # Null => ID[data[n]] = n - 1

\* The stack holds every empty slot, and each of them once.
FreeIDsAreTheHoles ==
  /\ \A n \in DOMAIN data : data[n] = Null <=> \E k \in DOMAIN freeIDs : freeIDs[k] = n - 1
  /\ \A j, k \in DOMAIN freeIDs : freeIDs[j] = freeIDs[k] => j = k

\* The list never grows past the number of objects there are: what createDS()
\* sizes pool, layout and descriptor set by stays small.
ListStaysCompact == Len(data) <= Cardinality(Objects)

\* The inductive invariant.
Indexed == TypeOK /\ IDsLeadBack /\ FreeIDsAreTheHoles
===========================================================================
