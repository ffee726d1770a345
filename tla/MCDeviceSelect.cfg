\* Every machine with up to three GPUs of any type and ability, and every set
\* of requested types.  vknInitialize() returns, hence no deadlock check.
SPECIFICATION SelectSpec
CONSTANTS
  MaxGPUs = 3
CHECK_DEADLOCK FALSE
INVARIANTS
  DevicesSorted
  DevicesAreThoseAskedFor
