\* The register limiter with the default configuration, in minutes:
\* 5 an hour, burst 3, buckets evicted after 10 minutes.
SPECIFICATION Spec
CONSTANTS
  Clients = {k1}
  Unit = 12
  Rate = 1
  Burst = 36
  IdleCutoff = 10
  EvictInterval = 5
  TimeBound = 24
INVARIANTS
  GrantBound
