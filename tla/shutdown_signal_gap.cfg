SPECIFICATION Spec
CONSTANTS
    Signals = {SIGTERM, SIGINT}
    NoSignal = NoSignal
    MaxPending = 3
    OtherSignals = {SIGHUP}
CHECK_DEADLOCK FALSE
INVARIANTS
    SignalAfterListenCloses
