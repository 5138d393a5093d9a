CONSTANTS
    Calls = {c1, c2}
    Workspaces = {w1}
    None = None
    Workers = 1
    PipeSize = 1
    MaxLines = 2
    MaxDbFaults = 1
    MaxCrashes = 1
SPECIFICATION FairSpec
CHECK_DEADLOCK FALSE
INVARIANTS
    LocksAreExplained
    OutcomesAreTrue
PROPERTY
    EveryCallEnds
    LocksComeFree
