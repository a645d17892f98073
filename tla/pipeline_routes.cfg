SPECIFICATION Spec
CONSTANTS
    Requests = {r1, r2}
    Inbound = {u}
    NoStore = NoStore
    Clients = {c}
    Accounts = {a, b}
    Sessions = {s, t}
    None = None
    Routes = {"signUp", "signIn", "refresh", "changePassword", "signOut", "query",
              "getUser", "deleteUser", "healthLive", "unmatched", "preflight"}
    GlobalLimit = 1
    SignUpLimit = 1
    SignInLimit = 1
SYMMETRY Symmetry
CHECK_DEADLOCK FALSE
INVARIANTS
    TypeOK
    OneIdPerRequest
    FailuresAreLogged
    EndedSessionsAreRefused
    AnswersAreDeclared
