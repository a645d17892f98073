SPECIFICATION FairSpec
CONSTANTS
    Instances = {i1, i2}
    Batch = 2
    MaxRows = 5
    MaxFaults = 3
INVARIANTS
    OneRunAtATime
    RunDrainsEverything
PROPERTIES
    BacklogIsDrained
