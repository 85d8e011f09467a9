SPECIFICATION FairSpec
CONSTANTS
  t1 = t1
  t2 = t2
  w1 = w1
  w2 = w2
  Task <- Alone
  Wait = {w1, w2}
  DependsOn <- NoDeps
  MaxRuns = 1
  MaxRetries = 1
  MaxConcurrent = 0
INVARIANTS
  NothingLost
PROPERTIES
  NoHungWaiter
