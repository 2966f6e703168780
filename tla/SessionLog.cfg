CONSTANTS
    p1 = p1
    p2 = p2
    Procs = {p1, p2}
    MaxLines = 4
CHECK_DEADLOCK FALSE
SPECIFICATION Spec
INVARIANTS FileLoads ConversationStays
PROPERTIES RecordsStay
SYMMETRY Symmetry
