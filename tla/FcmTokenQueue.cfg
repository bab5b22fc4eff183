SPECIFICATION FairSpec
CONSTANTS
  Calls = {a, b, c}
  NoCall = NoCall
  FetchTimeout = 1
INVARIANTS
  TypeOK
  QueueBound
  OwnAnswer
PROPERTIES
  NoLeak
  CallReturns
