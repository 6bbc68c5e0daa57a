SPECIFICATION FairSpec
CONSTANTS
    Statements <- MCStatements
    Loops = {market}
    Sockets = {spot}
    Ids = {1, 2}
    StopTimeout = 3
    Chunks = 2
    MaxRetries = 1
    PostMax = 1
    Backoffs <- MCBackoffs
    Symbols = {1, 2}
    PageLimit = 1
    RestRetries = 1
    MaxChurn = 1
    MaxBoots = 2
    MaxFaults = 2
INVARIANT NothingOutlivesDatabase
INVARIANT SchemaFollowsVersion
 
INVARIANT ChunksInOrder
INVARIANT PagesAreComplete
PROPERTY BacklogIsDelivered
PROPERTY ShutdownEnds
CHECK_DEADLOCK FALSE
