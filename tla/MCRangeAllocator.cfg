\* Accels of up to two entries constructed and destroyed in every order.
SPECIFICATION Spec
CONSTANTS
  a1 = a1
  a2 = a2
  a3 = a3
  a4 = a4
  Accels <- MCAccels
  MaxEntries = 2
SYMMETRY MCSymmetry
INVARIANTS
  LiveRangesDisjoint
  Partition
  TableShrinksToNothing
  CoalesceIsDone
PROPERTY
  SlotsSpec
