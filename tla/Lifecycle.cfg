SPECIFICATION FairSpec
CONSTANTS
  Envs <- MCEnvs
  Conns = {c1, c2}
  Grace = 1
  ReadTimeout = 1
  WriteTimeout = 4
INVARIANTS
  TypeOK
  CutOnlyAfterGrace
  
  WiredAsConfigured
  ProbeAgrees
PROPERTIES
  ShutdownEnds
