SPECIFICATION FairSpec
CONSTANTS
  t1 = t1
  t2 = t2
  w1 = w1
  w2 = w2
  Task <- Pair
  Wait = {}
  DependsOn <- Chain
  MaxRuns = 1
  MaxRetries = 0
  MaxConcurrent = 1
PROPERTIES
  StartsAfterDeps
  PendingLeaves
