SPECIFICATION Spec
CONSTANTS
  Tokens = {t1, t2}
  Retention = 2
  PruneInterval = 1
  StopMidway = FALSE
  TimeBound = 8
INVARIANTS
  TypeOK
PROPERTIES
  LegacyWindow
