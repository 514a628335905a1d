SPECIFICATION Spec
CONSTANTS
    Note = {1, 3, 4, 5}
    Dir = {2}
    Root = Root
    Parent <- MCParent
    Name <- MCName
    FileName <- MCFileName
    Md = "md"
    Lower <- MCLower
    Place <- MCPlace
    Named = {4}
    Text <- MCText
    Hits <- MCHits
    LongAt <- MCLongAt
    Tagged <- MCTagged
    Links <- MCLinks
    Locked = {locked}
    Big = {big}
    Limit = {1, 2}
    PerFile = 2
    Cap = 3
    Batch = 2
    Wanted <- MCWanted
    Shown = 2
    Initial <- MCInitial
    Faults <- MCFaults
    MaxChanges = 2
    None = None
    Missing = Missing
    plain = plain
    linked = linked
    long = long
    locked = locked
    big = big
INVARIANTS TypeOK SearchFindsWhatStays AuditIsTrue PagesAreComplete
