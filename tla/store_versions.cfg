CONSTANTS
    Campaigns = {c1}
    Observations = {o1, o2, o3}
    Pages <- MCRenderings
    Times = {1}
    Writers = {w1, w2}
    Readers = {}
    PageSize = 1
    MaxSequence = 3
    NoPage = NoPage
    NoWriter = NoWriter
SPECIFICATION Spec
SYMMETRY Symmetry
INVARIANTS
    VersionChain
    OneVersionPerObservation
    FeedTellsHistory
PROPERTY ObservationIsOfLatest
