SPECIFICATION FairSpec
CONSTANTS
    Coins = {c1, c2}
    MinCoins = 1
    MaxCoins = 1
    Debounce = 1
    Cooldown = 2
    HourLen = 3
    ImmediateTransition = TRUE
    HourlyActive = TRUE
    CompositionChange = TRUE
    None = None
    MaxTime = 3
    MaxRestarts = 1
    MaxFailures = 1
INVARIANT StateFollowsEpisode
INVARIANT RowsMatchState
INVARIANT CompositionSpacing
PROPERTY DebouncedTransition
PROPERTY HourlyOwnsBucket
PROPERTY PendingResolves
PROPERTY PersistedStateCatchesUp
