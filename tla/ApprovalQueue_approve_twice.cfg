CONSTANTS
    Approvals = {a1}
    Requests = {r1, r2}
    Admins = {u1}
    None = None
    Overlap = TRUE
    MaxDbFaults = 0
    MaxCrashes = 0
SPECIFICATION Spec
CHECK_DEADLOCK FALSE
INVARIANT
    RunsAtMostOnce
