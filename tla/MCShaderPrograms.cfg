\* Two modules with entry points of the same names, asked for by a raygen, a
\* kernel, a user type (intersection and bounds) and a triangles type (closest
\* hit), in blocks that are used again.
SPECIFICATION Spec
CONSTANTS
  m1 = m1
  m2 = m2
  n1 = n1
  Modules <- MCModules
  Names <- MCNames
  RayGens = {"r"}
  MissProgs = {}
  Computes = {"k"}
  UserTypes = {"u"}
  TrianglesTypes = {"t"}
  Given <- MCGiven
  Addresses = {1, 2, 3, 4}
  Codes <- MCCodes
  Followed <- MCFollowed
INVARIANTS
  TypeOK
  GroupsRunWhatWasAskedFor
  OneProgramPerEntryPoint
  OnlyTheCapabilityIsStripped
SYMMETRY MCSymmetry
