SPECIFICATION Spec
CONSTANTS
    MaxProcs = 2
    Hooks <- GatewayHooks
    Budget = 15
    HandoffTimeout = 20
    JoinGrace = 5
    MaxFiles = 2
    Excused = {"unlinked"}
INVARIANT HandsOver
CHECK_DEADLOCK FALSE
