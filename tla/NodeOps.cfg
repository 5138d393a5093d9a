CONSTANTS
    Calls = {c1, c2}
    None = None
    MaxDbFaults = 1
    MaxFaults = 1
    MaxCrashes = 1
SPECIFICATION FairSpec
CHECK_DEADLOCK FALSE
INVARIANTS
    CordonedIsExplained
    RestartsOnEmptyNode
    LastOperationHolds
PROPERTY
    EveryCallEnds
