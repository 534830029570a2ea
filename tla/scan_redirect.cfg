CONSTANTS
    Pods = {p1}
    ScanRuns = {r1, r2}
    MaxPods = 2
    Sources <- MCMovedIndex
    Urls = {1, 2}
    Bodies <- MCMovedBodies
    Ends <- MCMovedEnds
    Near <- MCMovedNear
    Nothing = Nothing
SPECIFICATION Spec
INVARIANT IndexAcceptsItsOwn
CHECK_DEADLOCK FALSE
