SPECIFICATION FairSpec
CONSTANTS
    Tasks = {t1, t2, t3}
    MaxCalls = 2
    MaxFaults = 1
    MaxCancels = 1
    None = None
INVARIANT AllOrNothing
INVARIANT ReadsAreCommitted
PROPERTY EveryCallEnds
CHECK_DEADLOCK FALSE
