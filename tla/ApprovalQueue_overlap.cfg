CONSTANTS
    Approvals = {a1}
    Requests = {r1, r2, r3}
    Admins = {u1}
    None = None
    Overlap = TRUE
    MaxDbFaults = 2
    MaxCrashes = 1
SPECIFICATION FairSpec
CHECK_DEADLOCK FALSE
INVARIANTS
    RunsNeedAnAdmin
    ReturnedRunsAreAudited
    ApprovedRowsAreInHand
    EachRunHasACall
PROPERTY
    NeverReopened
    ApprovedRowsSettle
    EveryCallEnds
