SPECIFICATION FairSpec
CONSTANTS
    Bytes = {"j", "p", "n"}
    End <- ShortEnd
    MaxBytes = 6
    MaxChunk = 2
INVARIANTS FramesAreTheMarkedRanges BufferIsTheRest NoFrameOverlooked
PROPERTY FrameDelivered
CHECK_DEADLOCK FALSE
