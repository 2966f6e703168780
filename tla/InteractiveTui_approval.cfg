\* "Ctrl-C aborts a running agent" (docs/tui.md): not one whose tool call waits to be approved.
CONSTANTS
    Gates = {TRUE}
    MaxRuns = 2
    MaxKeys = 5
SPECIFICATION Spec
PROPERTIES AbortEnds
CHECK_DEADLOCK FALSE
