SPECIFICATION FairSpec
CONSTANTS
    None = None
    Processes = {p1, p2}
    Latest = 1
    Indexes = {1}
    BootstrapAttempts = 1
    MaxFaults = 1
    Requests = {q1, q2, q3}
    Customers = {c1}
    Local = TRUE
    Windows = 1
    Limit = 1
INVARIANTS
    ServesOnceAllIsRecorded
    AdmittedWithinLimits
    RefusedOnlyAboveLimit
PROPERTIES
    StartedAgainComesUp
    RaceHasAWinner
CHECK_DEADLOCK FALSE
