CONSTANTS
    Pods = {p1}
    ScanRuns = {r1}
    MaxPods = 2
    Sources <- MCCollection
    Urls = {1}
    Bodies <- MCCollectionBodies
    Ends <- MCCollectionEnds
    Near <- MCCollectionNear
    Nothing = Nothing
SPECIFICATION Spec
INVARIANT ReviewIsAsked
CHECK_DEADLOCK FALSE
