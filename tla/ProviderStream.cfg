CONSTANTS
    MaxRetries = 2
    Base = 1
    Maximum = 3
    Delays = {0, 2, 5}
    ToolIndices = {0, 1}
    MaxChunks = 5
CHECK_DEADLOCK FALSE
SPECIFICATION FairSpec
INVARIANTS RetryDiscipline
PROPERTIES KeepsProtocol
