SPECIFICATION Spec
CONSTANTS
    p1 = p1
    p2 = p2
    Path = {p1, p2}
    Call = {c1, c2}
    Requests <- PeriodicRequests
    Cap = 2
    MaxFaults = 0
    Block = Block
    Absent = Absent
    Free = Free
    NoEtag = NoEtag
INVARIANTS PeriodicOnlyCreates
