SPECIFICATION MSpec
CONSTANTS
    p1 = p1  p2 = p2
    Procs <- MCProcs
    Together = FALSE
    MaxStops = 3
    MaxRows = 2
CHECK_DEADLOCK FALSE
INVARIANTS MTypeOK OpenIsComplete FailsOnlyTorn
PROPERTIES AccountsSurvive
