SPECIFICATION Spec
CONSTANTS
  Requests = {r1, r2}
  Tokens = {t1}
  NoToken = NoToken
  Kinds = {"wake"}
  SendStatuses = {"delivered", "error"}
  SendBurst = 1
  CallBurst = 1
  RegisterBurst = 2
  MaxRegistrations = 2
  MaxMessages = 2
  Retention = 1
  TimeBound = 3
SYMMETRY Symmetry
INVARIANTS
  DeliverOwnOnly
  ResultsMatch
