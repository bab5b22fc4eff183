SPECIFICATION Spec
CONSTANTS
  N = 4
  Batches <- MCBatches
  Stubs <- MCStubs
  Workers = {w1}
  Deadline = TRUE
PROPERTIES
  DeadlineStopsFeed
