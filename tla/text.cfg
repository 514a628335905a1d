SPECIFICATION Spec
CONSTANTS
    a = a
    b = b
    Tag = {a, b}
    Tick = Tick
    Space = Space
    Wide = Wide
    Broken = Broken
    Title = {"g", "h"}
    None = None
    Notes <- AllNotes
    Contents <- TextAndCode
    MaxCalls = 2
INVARIANTS TypeOK
PROPERTIES TagEditsAreListed PatchesAreLocal
CHECK_DEADLOCK FALSE
