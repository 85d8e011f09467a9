SPECIFICATION Spec
CONSTANTS
    m1 = m1
    m2 = m2
    m3 = m3
    Msg = {m1, m2}
    Key <- TwinKeys
    ClaimLimit = 1
    AttemptCap = 2
    Slot = {s1, s2}
    NoMsg = NoMsg
    Corrupt = {m2}
    BusCap = 1
    PoisonLimit = 2
    OutboundOn = TRUE
    SlowPhases = {"down", "live"}
    MaxBoots = 2
    MaxFaults = 1
    MaxPrunes = 1
SYMMETRY Symmetry
INVARIANTS SkipAnswered
PROPERTIES Promise
CHECK_DEADLOCK FALSE
