CONSTANTS
    Jobs = {j1}
    Workers = {w1, w2}
    MaxAttempts = 2
    LeaseFor = 5
    HeartbeatEvery = 1
    RetryAfter = 1
    ShutdownRetryAfter = 1
    MaxTxnAge = 1
    NoLease = NoLease
    Calls = {a, b, c}
    Slots = 2
    FailureThreshold = 2
    ContentThreshold = 3
    Recovery = 3
    Timeout = 2
    Cancellable = {"waiting"}
    Campaigns = {c1, c2, c3}
    Observations = {o1}
    Pages <- MCPendingPage
    Times = {1}
    Writers = {w1, w2}
    Readers = {r1}
    PageSize = 2
    MaxSequence = 3
    NoPage = NoPage
    NoWriter = NoWriter
SPECIFICATION AvailabilitySpec
INVARIANTS
    OneProbe
    FeedComplete
PROPERTIES
    EveryJobEnds
    ModelIsServed
    ImplementsFeedLog
