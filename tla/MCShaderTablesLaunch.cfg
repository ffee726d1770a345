\* Two raygens in one context, each of them launched.
SPECIFICATION Spec
CONSTANTS
  a1 = a1
  i1 = i1
  g1 = g1
  g2 = g2
  RayGens = {2, 5}
  MissProgs = {1}
  GeomTypes = {3}
  UserTypes = {}
  Geoms <- MCNone
  GeomAccels <- MCNone
  InstAccels <- MCNone
  MaxGeoms = 1
  MaxPrograms = 0
  MaxData = 0
  Tuned <- MCNone
  MaxBuilds = 1
INVARIANTS
  LaunchRunsTheRayGen
