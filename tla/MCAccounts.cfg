SPECIFICATION Spec
CONSTANTS
    Requests = {r1, r2}
    Users = {u1, u2, u3}
    Tokens = {t1, t2, t3}
    Addresses = {a1, a2}
    Identities = {s1, s2}
    Devices = {d1, d2}
    None = None
SYMMETRY Interchangeable
INVARIANTS
    IdentityKeepsAccount
    DeviceKeepsItsRow
PROPERTIES
    LogoutIsFinal
CHECK_DEADLOCK FALSE
