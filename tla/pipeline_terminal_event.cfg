SPECIFICATION Spec
CONSTANTS
    Requests = {r1, r2}
    Inbound = {}
    NoStore = NoStore
    Clients = {c}
    Accounts = {a}
    Sessions = {s}
    None = None
    Routes = {"query", "unmatched"}
    GlobalLimit = 2
    SignUpLimit = 1
    SignInLimit = 1
CHECK_DEADLOCK FALSE
INVARIANTS
    OneTerminalEventPerRequest
