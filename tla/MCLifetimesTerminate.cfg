\* One context with one kernel, then vknTerminate().
SPECIFICATION Spec
CONSTANTS
  i1 = i1
  i2 = i2
  d1 = d1
  d2 = d2
  d3 = d3
  Instances <- MCInstances
  Devices <- MCDevices
  DriverOf <- MCDriverOf
  Contexts = {c1}
  Computes = {k1}
  None = None
CHECK_DEADLOCK FALSE
INVARIANTS
  TerminateReturns
