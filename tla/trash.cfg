SPECIFICATION Spec
CONSTANTS
    Process = {s1, s2}
    Path = {p1, p2}
    Nested = {p2}
    Retention = {1, 4}
    Day = 1
    Wide = 3
    MaxTime = 2
    MaxEntry = 2
    None = None
INVARIANT WellFormed
PROPERTIES RetentionIsKept DeleteAnswersAreTrue PruneIsComplete
SYMMETRY Servers
CHECK_DEADLOCK FALSE
