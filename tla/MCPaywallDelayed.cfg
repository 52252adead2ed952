SPECIFICATION Spec
CONSTANTS
    Users = {u1}
    Runs = {r1, r2}
    Sessions = {s1}
    Invoices = {}
    Verifiers = {v1}
    MaxPayments = 2
    Window = 0
    MaxTime = 1
    MaxRestarts = 1
    PaymentsEnabled = TRUE
    CompletedAs = {"paid", "unpaid"}
    None = None
INVARIANTS
    OpenRunIsPaid
CHECK_DEADLOCK FALSE
