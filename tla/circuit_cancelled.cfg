CONSTANTS
    Calls = {a, b, c}
    Slots = 1
    FailureThreshold = 2
    ContentThreshold = 3
    Recovery = 3
    Timeout = 2
    Cancellable = {"waiting", "running"}
SPECIFICATION CircuitSpec
INVARIANT ProbeIsRunning
