CONSTANTS
    Calls = {c1, c2, c3}
    Requests = {r1, r2}
    MaxFaults = 1
    Callers = {c1, c2, c3}
    MaxMishaps = 1
    Writers = {c1}
    Absent = Absent
    Streams = {"stdout", "stderr"}
    MaxChunks = 1
    MaxErrors = 2
    MaxLength = 3
    LineLimits = {0, 1, 2}
    ByteLimits = {0, 3, 5}
    PageSizes = {2}
    MaxReads = 3
    Exts <- MCExts
    Users = {u1, u2}
    Tools = {"x", "y"}
    Base = {"y"}
    MaxCopies = 4
    MaxTrouble = 2
    Nobody = Nobody
    MaxOperations = 3
    MaxSaid = 2
CHECK_DEADLOCK FALSE
SPECIFICATION MCSpec
INVARIANTS  MutationsSerial ShellGone MeasuresKept ContributionsSound
PROPERTIES TimeoutEnds
