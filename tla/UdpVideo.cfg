SPECIFICATION FairSpec
CONSTANTS
    a = a  b = b  c = c  d = d
    Devices = {a, b, c, d}
    SnOf <- OwnSns
    KeyLen = 2
    BufferLen = 3
    LengthMax = 2
    ChannelCount = 2
    TickerSize = 1
    PoolSize = 1
    Dispatchers = 2
    StrayIndexes = {2}
    EmptyDatagrams = TRUE
    Missing = {0, 1, 2}
    MaxFrames = 1
    MaxReceived = 2
INVARIANTS IndexIdentifiesSn FrameInItsChannel BufferOwnedOnce ForwardedInOrder
PROPERTY QueueDrained
CHECK_DEADLOCK FALSE
