CONSTANTS
    Chats = {c1, c2}
    GreenTools = {list_pods}
    RiskyTools = {drain_node}
    UnknownTools = {reboot_world}
    MAX_TOOL_ROUNDS = 2
    MaxCalls = 2
    MaxDbFaults = 1
SPECIFICATION FairSpec
CHECK_DEADLOCK FALSE
INVARIANTS
    EveryCallIsFedBack
    RiskyToolsWait
    QueuedRowsAreTraced
PROPERTY
    StreamsMoveOn
    EveryChatEnds
