SPECIFICATION FairSpec
CONSTANTS
    Fields = {last_price, prev_price_1h}
    MaxMoves = 2
    MaxConnects = 2
    MaxRestFaults = 2
    None = None
PROPERTY EngineCatchesUp
