CONSTANTS
    Models = {m1, m2}
    MaxLines = 3
    MaxSessions = 2
    MaxFaults = 2
    Consumers = {c1, c2}
    NoOne = NoOne
    MaxEvents = 4
    MaxFutures = 3
    MaxSpans = 4
    BatchSize = 2
    MaxFailures = 1
    MaxPieces = 3
    MaxLength = 4
    MaxStrokes = 7
    HistoryLimit = 2
    MaxDraws = 3
CHECK_DEADLOCK FALSE
SPECIFICATION MCSpec
INVARIANTS ClientsServed FailureReported SessionsApart StreamSound  
PROPERTIES ShutdownCloses Released ExitHappens
