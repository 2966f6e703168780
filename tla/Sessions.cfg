CONSTANTS
    Controllers = {c1, c2}
    Manuals = {m1}
    None = None
    Sizes = {1, 3}
    SummaryTokens = 1
    Keep = 3
    Threshold = 6
    MaxAttempts = 2
    MaxEntries = 5
    Overlap = FALSE
    Branches = TRUE
    p1 = p1
    p2 = p2
    Processes = {p1, p2}
    Ids = {"i1", "i2"}
    Outside = "out"
    Absent = Absent
    Models <- MCModels
    Reasoning = {"deep"}
    Registries <- MCRegistries
    Levels <- MCLevels
    DefaultModel = "plain"
    DefaultLevel = "high"
    Unset = Unset
    Names = {"n"}
    MaxNotes = 5
    MaxSessions = 2
    MaxOpens = 2
    MaxNodes = 4
    MaxSaid = 2
    MaxUses = 6
    MaxDeaths = 1
SPECIFICATION MCSpec
INVARIANTS   MetadataKept SessionsKept
CHECK_DEADLOCK FALSE
