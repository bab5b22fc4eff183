SPECIFICATION Spec
CONSTANTS
  Requests = {r1, r2}
  Tokens = {t1}
  NoToken = NoToken
  Kinds = {"call", "wake"}
  SendStatuses = {"delivered", "error"}
  SendBurst = 3
  CallBurst = 2
  RegisterBurst = 2
  MaxRegistrations = 1
  MaxMessages = 2
  Retention = 0
  TimeBound = 0
SYMMETRY Symmetry
INVARIANTS
  TypeOK
  RingBound
  BudgetConserved
