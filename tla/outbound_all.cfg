SPECIFICATION FairSpec
CONSTANTS
    r1 = r1
    r2 = r2
    c1 = c1
    c2 = c2
    Msg = {r1, r2}
    Key <- OwnKeys
    ClaimLimit = 2
    AttemptCap = 2
    Channel = {c1, c2}
    StartSet = {c1}
    NoMsg = NoMsg
    Corrupt = {r2}
    Aging = {r1}
    BusCap = 1
    QueueCap = 1
    PoisonLimit = 2
    MaxAttempts = 2
    SlowPhases = {"down"}
    MaxBoots = 2
    MaxMishaps = 1
    Address <- FirstToC1
INVARIANTS TypeOK ReplyKept SentOnce ClaimHasWorker
PROPERTIES ReplySettles
CHECK_DEADLOCK FALSE
