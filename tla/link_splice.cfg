SPECIFICATION Spec
CONSTANTS
    d = d
    Folder = {d}
    Root = Root
    Name <- Names
    Path <- Paths
    Vaults <- SmallVaults
    Md = "md"
    Width <- Widths
    MaxMoves = 1
    Absent = Absent
    Ambiguous = Ambiguous
    Panicked = Panicked
INVARIANTS LinesStayWhole
CHECK_DEADLOCK FALSE
