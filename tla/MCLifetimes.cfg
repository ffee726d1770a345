\* Three contexts and two kernels on two GPUs of one driver instance and one of
\* another, each instance ended at any time.  The program ends, hence no
\* deadlock check.
SPECIFICATION FairSpec
CONSTANTS
  i1 = i1
  i2 = i2
  d1 = d1
  d2 = d2
  d3 = d3
  Instances <- MCInstances
  Devices <- MCDevices
  DriverOf <- MCDriverOf
  Contexts = {c1, c2, c3}
  Computes = {k1, k2}
  None = None
CHECK_DEADLOCK FALSE
INVARIANTS
  TypeOK
  OnlyLiveContextsVisited
  NothingOutlivesItsOwner
  FirstContextHasTheUniforms
  OnlyStaticsBlockTheEnd
PROPERTIES
  TerminateEnds
