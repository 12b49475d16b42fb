\* Two calls of one sender at once, through expiry before the bucket is full again,
\* lost writes and a restart.
CONSTANTS
  Capacity = 2
  Scale = 2
  RefillRate = 1
  TTL = 3
  MaxInFlight = 2
  MaxNow = 6
  MaxFaults = 2
  NONE = NONE
SPECIFICATION Spec
INVARIANTS
  BucketsInRange
  AdmissionsAreCovered
PROPERTIES
  DenialsAreEarned
CHECK_DEADLOCK FALSE
