SPECIFICATION Spec
CONSTANTS
    u1 = u1
    u2 = u2
    Users = {u1, u2}
    Sessions = {s1, s2}
    Digests = {d1, d2, d3}
    Passwords = {p1, p2}
    Requests = {r1, r2, r3}
    None = None
    EmailOf <- SameEmail
    RefreshTtl = 1
    ReplayWindow = 0
    MaxNow = 0
    AccessTtl = 1
    Batch = 1
    Operations = {"signUp", "signIn", "refresh", "changePassword", "signOut", "delete"}
SYMMETRY Symmetry
INVARIANTS
    LiveSessionsUseCurrentPassword
    VerifiedPasswordStays
    NoSessionEscapes
    NoDeadlock
PROPERTIES
    ImplementsLedger
