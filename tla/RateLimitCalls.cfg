\* The shape of the send and call limiters: an empty bucket refills well
\* within IdleCutoff.
SPECIFICATION Spec
CONSTANTS
  Clients = {k1, k2}
  Unit = 2
  Rate = 1
  Burst = 4
  IdleCutoff = 4
  EvictInterval = 2
  TimeBound = 8
INVARIANTS
  TypeOK
  GrantBound
PROPERTIES
  BucketSpec
