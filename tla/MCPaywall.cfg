SPECIFICATION Spec
CONSTANTS
    Users = {u1}
    Runs = {r1, r2}
    Sessions = {s1, s2}
    Invoices = {i1}
    Verifiers = {v1}
    MaxPayments = 2
    Window = 0
    MaxTime = 1
    MaxRestarts = 1
    PaymentsEnabled = TRUE
    CompletedAs = {"paid"}
    None = None
SYMMETRY Interchangeable
INVARIANTS
    OpenRunIsPaid
    ConfirmedOpensItsRun
    RecordedEventOpensRun
    TrialFlagExact
    ViewAndExportFollowTheLock
PROPERTIES
    NeverRelocked
    TrialNotReopened
    WindowRestartsOnlyInFlight
CHECK_DEADLOCK FALSE
