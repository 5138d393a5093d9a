CONSTANTS
    Chats = {c1, c2}
    GreenTools = {list_pods}
    RiskyTools = {drain_node}
    UnknownTools = {reboot_world}
    MAX_TOOL_ROUNDS = 1
    MaxCalls = 2
    MaxDbFaults = 1
    MaxRows = 3
    Requests = {r1}
    Admins = {u1}
    None = None
    Overlap = TRUE
    MaxHandlerFaults = 1
    MaxCrashes = 1
SPECIFICATION HubSpec
CHECK_DEADLOCK FALSE
INVARIANTS
    EffectsAreApproved
    DecisionsAreTraced
