SPECIFICATION Spec
CONSTANTS
    Saver = {s1, s2}
    MaxObjs = 2
    MaxEvents = 3
    Excused = {"skipped", "raised", "swallowed", "wiped", "reordered", "overlapped", "renumbered", "installed", "unread"}
CONSTRAINT Unhurt
SYMMETRY Symmetry
INVARIANTS TypeOK CleanIsSaved
PROPERTIES EvictKeeps ContextReloads
CHECK_DEADLOCK FALSE
