CONSTANTS
    m1 = m1
    m2 = m2
    Msgs = {m1, m2}
    MaxRuns = 1
    MaxTurns = 1
    MaxCalls = 2
    QueueModes = {"all", "one-at-a-time"}
    HooksMayFail = TRUE
    ProviderMayBreak = TRUE
    CallerMayCancel = FALSE
    ContinueMayOverlap = TRUE
CHECK_DEADLOCK FALSE
SPECIFICATION FairSpec
INVARIANTS PartialWhileStreaming NoTurnAfterAbort NoUnresolvedAtRequest
PROPERTIES ImplementsMailbox RunSettles
