SPECIFICATION FairSpec
CONSTANTS
    Ids = {1, 2}
    Listing = {2}
    AlertMaxAge = 0
    ListingMaxAge = 1
    RetryDelays <- MCRetryDelays
    RetryAfters = {2}
    BatchLimit = 2
    StopTimeout = 1
    MaxConsecutiveFailures = 0
    MaxTime = 2
    MaxFaults = 1
    MaxCrashes = 1
    None = None
INVARIANT CopiesAccountedFor
INVARIANT ListingFlagConsistent
INVARIANT BatchStillDue
INVARIANT NoLostWakeup
PROPERTY ImplementsDelivery
PROPERTY EventuallySettled
CHECK_DEADLOCK FALSE
