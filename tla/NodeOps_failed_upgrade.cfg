CONSTANTS
    Calls = {c1}
    None = None
    MaxDbFaults = 0
    MaxFaults = 1
    MaxCrashes = 0
SPECIFICATION Spec
CHECK_DEADLOCK FALSE
INVARIANT
    FailedIsNotLoggedOK
