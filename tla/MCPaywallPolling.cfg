SPECIFICATION PollingSpec
CONSTANTS
    Users = {u1}
    Runs = {r1, r2}
    Sessions = {s1, s2}
    Invoices = {}
    Verifiers = {v1}
    MaxPayments = 2
    Window = 1
    MaxTime = 0
    MaxRestarts = 1
    PaymentsEnabled = TRUE
    CompletedAs = {"paid", "unpaid"}
    None = None
INVARIANT
    OpenRunHasItsCheckout
PROPERTIES
    ImplementsContract
    PaidSessionOpensRun
CHECK_DEADLOCK FALSE
