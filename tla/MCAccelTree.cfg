\* Two geometry accels under two instance accels, of two instances and of one,
\* that share them; built and rebuilt in every order, torn down in every order.
\* The context ends, hence no deadlock check.
SPECIFICATION Spec
CONSTANTS
  a1 = a1
  a2 = a2
  i1 = i1
  i2 = i2
  GeomAccels <- MCGeomAccels
  InstAccels <- MCInstAccels
  MaxGeoms = 1
  MaxInstances <- MCMaxInstances
  MaxEntries = 2
  MaxBuilds = 3
CHECK_DEADLOCK FALSE
INVARIANTS
  InstancedAccelsLive
  OffsetsCurrent
  AddressesCurrent
PROPERTIES
  TerminateFinishes
  RangesSpec
