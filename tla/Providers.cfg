CONSTANTS
    Calls = {c1, c2}
    Values = {1, 2}
    Fields = {"cpu", "memory"}
    None = None
    DockerEnabled = TRUE
    MaxEdits = 1
    MaxDbFaults = 1
    MaxApiFaults = 1
    MaxCrashes = 1
SPECIFICATION ProvidersSpec
SYMMETRY Symmetry
CHECK_DEADLOCK FALSE
INVARIANTS
    LogAgreesWithAnswers
    MisreportsAreFaults
    LeftoversAreExplained
    EditsAreKept
    LastCallHolds
PROPERTY
    PatchesChangeOnlyTheirs
