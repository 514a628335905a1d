SPECIFICATION Spec
CONSTANTS
    p1 = p1
    p2 = p2
    Path = {p1, p2}
    Call = {c1, c2, c3}
    Requests <- LockedRequests
    Cap = 2
    MaxFaults = 1
    Block = Block
    Absent = Absent
    Free = Free
    NoEtag = NoEtag
SYMMETRY CallSymmetry
INVARIANTS WellFormed ChecksHold AckedEditSurvives
PROPERTIES NoResurrection NothingVanishes AtomicNotes
