SPECIFICATION Spec
CONSTANTS
    Coins = {c1, c2}
    MinCoins = 1
    MaxCoins = 1
    Debounce = 1
    Cooldown = 2
    HourLen = 3
    ImmediateTransition = TRUE
    HourlyActive = FALSE
    CompositionChange = FALSE
    None = None
    MaxTime = 4
    MaxRestarts = 1
    MaxFailures = 0
SYMMETRY CoinSymmetry
INVARIANT AnnouncedOnce
