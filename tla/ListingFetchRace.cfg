SPECIFICATION Spec
CONSTANTS
    Spot = {}
    Linear = {l}
    Announced = {}
    Enablings = {TRUE}
    MaxMoves = 1
    MaxFaults = 0
    MaxCrashes = 0
    MaxTroubles = 0
    None = None
INVARIANT LaunchIsAnnounced
