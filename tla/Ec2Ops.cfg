CONSTANTS
    Calls = {c1, c2}
    Operations = {"start", "stop", "terminate", "resize", "snapshot", "volume", "patch"}
    Types = {"t3.small", "t3.large"}
    FirstType = "t3.small"
    None = None
    MaxDbFaults = 1
    MaxApiFaults = 1
    MaxCrashes = 1
SPECIFICATION FairSpec
CHECK_DEADLOCK FALSE
INVARIANTS
    DownIsExplained
    VolumesAreAccountedFor
    LastOperationHolds
PROPERTY
    EveryCallEnds
