SPECIFICATION FairSpec
CONSTANTS
  N = 4
  Batches <- MCBatches
  Stubs <- MCStubs
  Workers = {w1, w2}
  Deadline = TRUE
INVARIANTS
  TypeOK
  NotAttemptedIsTrue
  NoDoubleSend
  CutIsSuffix
  TakenReported
  PruneIsSafe
  DeadReported
  FitsGateway
  LoggedOnce
PROPERTIES
  OutcomeSpec
  DispatchReturns
