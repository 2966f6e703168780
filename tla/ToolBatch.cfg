CONSTANTS
    N = 3
    MaxUpdates = 2
    HooksMayFail = TRUE
CHECK_DEADLOCK FALSE
SPECIFICATION FairSpec
INVARIANTS ResultsInSourceOrder Tidy
PROPERTIES AbortStartsNothing KeepsContract
