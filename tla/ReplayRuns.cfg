SPECIFICATION FairSpec
CONSTANTS
    r1 = r1
    r2 = r2
    Runners = {r1, r2}
    Jobs = {1}
    Ids = {1, 2, 3}
    InitialIds = {1, 3}
    BatchSize = 2
    Faults = {"read", "publish", "progress", "finish"}
    MaxCrashes = 1
    MaxChanges = 1
CHECK_DEADLOCK FALSE
INVARIANTS
    CompletedCoversRange
    CountsAreHonest
    CancelStopsWithinAPage
PROPERTIES
    EveryJobEnds
