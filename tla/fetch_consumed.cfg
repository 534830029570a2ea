CONSTANTS
    Processes = {p1}
    Jobs = {j1}
    Urls = {"u1"}
    Contents = {"c1", "c2"}
    Etag <- MCEtag
    NoEtag = NoEtag
    JobAttempts = 2
    Nothing = Nothing
SPECIFICATION Spec
INVARIANT NotModifiedWasConsumed
