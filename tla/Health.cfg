SPECIFICATION FairSpec
CONSTANTS
    Streams = {"spot_ws"}
    Critical = {"spot_ws", "dispatcher", "database"}
    Fresh = 1
    Grace = 3
    Interval = 1
    Stale = 2
    MaxConnFaults = 2
    MaxRestarts = 1
    None = None
INVARIANT GraceRespected
INVARIANT FailuresAreNoticed
PROPERTY AlarmsEnd
