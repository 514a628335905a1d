SPECIFICATION Spec
CONSTANTS
    Caller = {c1, c2}
    FirstDay <- MCFirstDay
    Call <- MCCall
    File <- MCFile
    Absent = Absent
    Broken = Broken
    MaxCount = 2
    MaxMidnights = 1
    MaxEdits = 1
    None = None
INVARIANTS TypeOK PathsNameTheirDates NotesAreConsecutive
SYMMETRY Callers
