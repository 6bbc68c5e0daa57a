SPECIFICATION Spec
CONSTANTS
    Coins = {c1, c2}
    MinCoins = 1
    MaxCoins = 1
    Debounce = 0
    Cooldown = 0
    HourLen = 3
    ImmediateTransition = TRUE
    HourlyActive = TRUE
    CompositionChange = TRUE
    None = None
    MaxTime = 3
    MaxRestarts = 1
    MaxFailures = 1
SYMMETRY CoinSymmetry
INVARIANT AnnouncedOncePerRun
