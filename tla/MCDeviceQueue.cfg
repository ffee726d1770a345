\* Two geometries whose data changes between builds, buffers that come and go,
\* and every order of builds and launches.
SPECIFICATION Spec
CONSTANTS
  NumGeoms = 2
  Values = {1, 2}
  Garbage = Garbage
INVARIANTS
  TypeOK
  ResultsAreThoseAskedFor
PROPERTIES
  WorkIsUndisturbed
  CallsReturn
