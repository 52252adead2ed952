SPECIFICATION FairSpec
CONSTANTS
    Streams = {s1, s2}
    Page = Page
    MaxProgress = 2
    MaxRestarts = 1
    MaxFaults = 1
INVARIANTS
    TypeOK
    NobodyWaitsForNothing
    ErrorIsFinal
    PageShowsACommittedEnd
PROPERTIES
    RunReachesEnd
    WatcherIsReleased
CHECK_DEADLOCK FALSE
