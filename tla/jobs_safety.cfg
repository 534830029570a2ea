CONSTANTS
    Jobs = {j1, j2}
    Workers = {w1, w2}
    MaxAttempts = 2
    LeaseFor = 5
    HeartbeatEvery = 1
    RetryAfter = 1
    ShutdownRetryAfter = 1
    MaxTxnAge = 1
    NoLease = NoLease
SPECIFICATION Spec
SYMMETRY Symmetry
INVARIANTS
    TypeOK
    QueuedIsClaimable
    OneOwner
    ResultOfLatestClaim
    PunctualKeepsLease
PROPERTIES
    TerminalIsFinal
    ImplementsJobQueue
