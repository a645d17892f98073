SPECIFICATION LifecycleFairSpec
CONSTANTS
    Signals = {SIGTERM, SIGINT}
    OtherSignals = {SIGHUP}
    NoSignal = NoSignal
    MaxPending = 2
    Environments <- MCEnvironments
    Documents <- MCDocuments
    Patterns = {":a", "{userId}"}
    LowerCase <- MCLowerCase
    Batch = 1
    MaxRows = 2
    MaxFaults = 1
CHECK_DEADLOCK FALSE
INVARIANTS
    LifecycleTypeOK
    OneShutdown
    SignalsDoNotCutShort
    OneOutcomeReported
    PurgeEndsBeforeDisconnect
    FailedStartReleases
    PlainDocsShadowNoRoute
    DocumentMeansTheSame
PROPERTIES
    ShutdownTerminates
    FailedStartEnds
