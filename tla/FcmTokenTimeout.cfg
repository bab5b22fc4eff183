SPECIFICATION Spec
CONSTANTS
  Calls = {a, b}
  NoCall = NoCall
  FetchTimeout = 2
INVARIANTS
  AbandonedWithinTimeout
