\* Types around one another in memory, two geometries of any types in one accel
\* whose range starts behind that of an instance accel or not, data set before
\* and after builds, builds that throw, builds repeated.
SPECIFICATION Spec
CONSTANTS
  a1 = a1
  i1 = i1
  g1 = g1
  g2 = g2
  RayGens = {2}
  MissProgs = {1}
  GeomTypes = {3, 4}
  UserTypes = {4}
  Geoms <- MCTwoGeoms
  GeomAccels <- MCOneAccel
  InstAccels <- MCInstAccels
  MaxGeoms = 2
  MaxPrograms = 1
  MaxData = 1
  Tuned <- MCTwoGeoms
  MaxBuilds = 2
INVARIANTS
  TypeOK
  GroupIndicesCurrent
  HitsReachTheirGeometry
  CallsReachTheirProgram
SYMMETRY MCSymmetry
