CONSTANTS
    Pods = {p1, p2}
    ScanRuns = {r1, r2}
    MaxPods = 2
    Sources <- MCMixed
    Urls = {1, 2, 3}
    Bodies <- MCBodies
    Ends <- MCEnds
    Near <- MCNear
    Nothing = Nothing
SPECIFICATION Spec
SYMMETRY Symmetry
INVARIANTS
    ScanIsWhole
    ScheduledIsMonitored
    IndexStaysGreen
    HashIsOfLatestSuccess
CHECK_DEADLOCK FALSE
