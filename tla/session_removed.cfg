SPECIFICATION Spec
CONSTANTS
    Saver = {s1}
    MaxObjs = 1
    MaxEvents = 3
    Excused = {"raised", "swallowed", "wiped", "reordered", "overlapped", "renumbered", "installed", "unread"}
INVARIANTS CleanIsSaved
CHECK_DEADLOCK FALSE
