SPECIFICATION FairSpec
CONSTANTS
    MaxProcs = 3
    Hooks <- CoarseHooks
    Budget = 3
    HandoffTimeout = 4
    JoinGrace = 1
    MaxFiles = 3
    Excused = {"unlinked"}
CONSTRAINT Unhurt
INVARIANTS TypeOK OneServing TeardownBounded
PROPERTY TeardownEnds
CHECK_DEADLOCK FALSE
