SPECIFICATION FairSpec
CONSTANTS
    Requests = {r1, r2, r3}
    Inbound = {}
    NoStore = NoStore
    Clients = {c}
    Accounts = {a}
    Sessions = {s}
    None = None
    Routes = {"signIn"}
    GlobalLimit = 2
    SignUpLimit = 1
    SignInLimit = 1
CHECK_DEADLOCK FALSE
INVARIANTS
    RateLimitsHold
PROPERTIES
    RequestsEnd
