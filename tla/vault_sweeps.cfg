SPECIFICATION FairSpec
CONSTANTS
    p1 = p1
    p2 = p2
    Path = {p1, p2}
    Call = {c1, c2}
    Requests <- SweepRequests
    Cap = 1
    MaxFaults = 1
    Block = Block
    Absent = Absent
    Free = Free
    NoEtag = NoEtag
INVARIANTS RenameIsComplete
PROPERTIES EveryCallReturns
