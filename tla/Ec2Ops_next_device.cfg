CONSTANTS
    Calls = {c1, c2}
    Operations = {"volume"}
    Types = {"t3.small", "t3.large"}
    FirstType = "t3.small"
    None = None
    MaxDbFaults = 0
    MaxApiFaults = 0
    MaxCrashes = 0
SPECIFICATION Spec
CHECK_DEADLOCK FALSE
INVARIANT
    NextDeviceIsTaken
