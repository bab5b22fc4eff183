SPECIFICATION Spec
CONSTANTS
  Tokens = {t1, t2}
  Retention = 2
  PruneInterval = 1
  StopMidway = TRUE
  TimeBound = 8
PROPERTIES
  LegacyWindow
