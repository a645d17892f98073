SPECIFICATION Spec
CONSTANTS
    u1 = u1
    u2 = u2
    Users = {u1}
    Sessions = {s1}
    Digests = {d1, d2, d3, d4}
    Passwords = {p1}
    Requests = {r1, r2}
    None = None
    EmailOf <- SameEmail
    RefreshTtl = 2
    ReplayWindow = 1
    MaxNow = 5
    AccessTtl = 1
    Batch = 1
    Operations = {"signUp", "refresh", "signOut", "purge"}
SYMMETRY Symmetry
INVARIANTS
    TypeOK
    OneCurrentDigest
    DeniedReplayRevokesSession
    PurgeKeepsReplayEvidence
    RotationStaysValid
