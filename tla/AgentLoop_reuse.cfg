CONSTANTS
    m1 = m1
    Msgs = {m1}
    MaxRuns = 2
    MaxTurns = 0
    MaxCalls = 0
    QueueModes = {"one-at-a-time"}
    HooksMayFail = FALSE
    ProviderMayBreak = FALSE
    CallerMayCancel = TRUE
    ContinueMayOverlap = FALSE
CHECK_DEADLOCK FALSE
SPECIFICATION Spec
INVARIANTS DeliveredOnce RequestSeesTranscript
