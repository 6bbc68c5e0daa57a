SPECIFICATION FairSpec
CONSTANTS
    Spot = {s}
    Linear = {l}
    Announced = {s}
    Enablings = {TRUE, FALSE}
    MaxMoves = 2
    MaxFaults = 1
    MaxCrashes = 1
    MaxTroubles = 1
    None = None
INVARIANT OutboxFollowsEvents
INVARIANT EventsArePaired
INVARIANT LaunchesAreRecorded
PROPERTY NeverResent
PROPERTY RegistryCatchesUp
