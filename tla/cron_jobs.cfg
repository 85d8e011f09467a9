SPECIFICATION FairSpec
CONSTANTS
    Job = {every, at}
    OneShot = {at}
    MaxSpawned = 1
    MaxOps = 3
    MaxFaults = 1
    MaxBoots = 2
    Excused = {"staleEdit", "unscheduled", "foreign", "emptied", "overdue"}
CONSTRAINT Unhurt
INVARIANTS TypeOK  EnabledIsScheduled
PROPERTIES OneShotOnce DueRuns
CHECK_DEADLOCK FALSE
