SPECIFICATION FairSpec
CONSTANTS
    Reader = {c1, c2}
    TTL = 2
    MaxTime = 2
    MaxChanges = 1
    Free = Free
    NoData = NoData
INVARIANTS TypeOK AnswersAreFresh
PROPERTIES RootChangesAreNoticed AnswersNeverGoBack EveryRequestIsAnswered
