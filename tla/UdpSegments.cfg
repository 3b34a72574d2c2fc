SPECIFICATION FairSpec
CONSTANTS
    Devices = {1, 2, 3}
    Named = {1, 2}
    Dispatchers = 2
    TableSize = 2
    SegmentPool = 2
    DataPool = 1
    Counts <- LongOrMore
    MaxBacklog = 1
    ShutDownAt = {0, 1, 4}
INVARIANTS OwnedOnce FrameIsRun FrameRecovered
PROPERTIES ShutDownStops
CHECK_DEADLOCK FALSE
