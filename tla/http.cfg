SPECIFICATION FairSpec
CONSTANTS
    Request = {r1, r2}
    Credential = {alice, bob}
    Id = {i1}
    TTL = 1
    Patience = 1
    MaxTime = 3
    None = None
INVARIANTS TypeOK RunningIsEntitled
PROPERTIES SessionsLiveOnce ExpiredSessionsLeave ShutdownEnds
CHECK_DEADLOCK FALSE
