SPECIFICATION Spec
CONSTANTS
  t1 = t1
  t2 = t2
  w1 = w1
  w2 = w2
  Task <- Alone
  Wait = {w1}
  DependsOn <- NoDeps
  MaxRuns = 2
  MaxRetries = 1
  MaxConcurrent = 0
INVARIANTS
  TypeOK
  OneLoop
  FreshInv
  FreshSignal
PROPERTIES
  InjectFresh
