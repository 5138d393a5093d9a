CONSTANTS
    Clients = {"10.0.0.1"}
    LIMIT = 2
    WINDOW = 3
    MaxTime = 4
    MaxRestarts = 1
    Calls = {k1, k2}
    Roles = {admin, engineer}
    NoToken = NoToken
    ACCESS_TTL = 1
    REFRESH_TTL = 2
    MaxDbFaults = 1
SPECIFICATION SessionSpec
SYMMETRY Symmetry
CHECK_DEADLOCK FALSE
INVARIANTS
    WindowLimit
    RefusedOnlyAtLimit
    SessionsAreBounded
    LogoutSticks
