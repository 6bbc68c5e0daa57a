SPECIFICATION EvaluatorSpec
CONSTANTS
    Hour = 6
    SampleEvery = 4
    Tolerance = 2
    Retention = 8
    Poll = 1
    Lag = 1
    MaxTime = 15
    MaxFaults = 1
    MaxRestarts = 1
    None = None
    Threshold = 5
    Enabled = {"spot", "USDT", "USDC"}
    Stablecoins = {"USDT", "USDC"}
    Missing = Missing
    SpotMarket <- MCSpotMarket
    SpotPrices = {21, 22, 24}
    AnchorPrice = 20
    Others <- MCOthers
INVARIANT WarmAfterAnHour
INVARIANT PruningIsInvisible
INVARIANT RepresentativeIsBest
CHECK_DEADLOCK FALSE
