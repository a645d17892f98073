SPECIFICATION Spec
CONSTANTS
    Ids = {1, 2, 3}
    Keys = {2, 3, 4}
    PerMilli = 2
    None = None
    Limits = {1, 2}
    MaxChanges = 2
    MaxRequests = 4
CHECK_DEADLOCK FALSE
INVARIANTS
    TypeOK
    NothingSkipped
    EndsAreReal
    RoundTrip
    NoRepeats
