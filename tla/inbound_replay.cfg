SPECIFICATION FairSpec
CONSTANTS
    m1 = m1
    m2 = m2
    m3 = m3
    Msg = {m1, m2}
    Key <- OwnKeys
    ClaimLimit = 1
    AttemptCap = 2
    Slot = {s1, s2}
    NoMsg = NoMsg
    Corrupt = {}
    BusCap = 1
    PoisonLimit = 2
    OutboundOn = TRUE
    SlowPhases = {"down", "live"}
    MaxBoots = 2
    MaxFaults = 0
    MaxPrunes = 0
INVARIANTS TypeOK AcceptedKept SingleCopy ClaimHasWorker
PROPERTIES PendingSettled
CHECK_DEADLOCK FALSE
