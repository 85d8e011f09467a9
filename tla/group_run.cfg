SPECIFICATION FairSpec
CONSTANTS
    a = a
    b = b
    c = c
    Group = {1}
    Agent = {a, b, c}
    NoAgent = NoAgent
    Profile <- Mixed
    MaxBoots = 2
INVARIANTS TypeOK IndexUnique TurnsBounded CardKept
PROPERTIES SilentAfterEnd EveryGroupEnds
CHECK_DEADLOCK FALSE
