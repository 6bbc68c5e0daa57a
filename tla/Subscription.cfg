SPECIFICATION FairSpec
CONSTANTS
    Symbols = {a, b, c}
    BatchSize = 2
    ReqIds = {1, 2}
    RestFails = FALSE
    MaxChanges = 1
    MaxFaults = 1
    None = None
    Alias = Alias
INVARIANT NoDoubleRequest
INVARIANT ConfirmedIsStreamed
INVARIANT DesiredIsRequested
PROPERTY EventuallyStreaming
