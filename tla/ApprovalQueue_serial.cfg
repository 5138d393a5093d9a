CONSTANTS
    Approvals = {a1, a2}
    Requests = {r1, r2, r3}
    Admins = {u1, u2}
    None = None
    Overlap = FALSE
    MaxDbFaults = 2
    MaxCrashes = 1
SPECIFICATION Spec
CHECK_DEADLOCK FALSE
INVARIANTS
    RunsAtMostOnce
    AnswersHold
    LogAgreesWithRows
PROPERTY
    ImplementsLifecycle
