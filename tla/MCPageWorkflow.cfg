SPECIFICATION Spec
CONSTANTS
    Runs = {r1, r2}
    Jobs = {j1}
    MaxResumes = 1
    MaxEvents = 4
    None = None
INVARIANTS
    ShownRunIsThePagesRun
    TypedJobIsScored
PROPERTIES
    ButtonComesBack
    PaidRunGetsShown
CHECK_DEADLOCK FALSE
