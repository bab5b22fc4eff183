SPECIFICATION FairSpec
CONSTANTS
  Callers = {c1, c2}
  NoCaller = NoCaller
  Tokens = {t1}
  NoToken = NoToken
  Retention = 1
  PruneInterval = 1
  MaxRegistrations = 2
  KeyBound = 3
  TimeBound = 2
INVARIANTS
  TypeOK
  TxIsolation
  ClaimBacked
  ExclusiveClaims
  RegistrationCeiling
PROPERTIES
  LeaseSpec
  BindTerminates
