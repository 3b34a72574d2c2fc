SPECIFICATION FairSpec
CONSTANTS
    d1 = d1  d2 = d2  v1 = v1  v2 = v2  s1 = s1  s2 = s2
    Devices = {d1, d2}
    Viewers = {v1, v2}
    SnOf <- OwnSns
    Names = {s1}
    Limit = 1
    CloseErrors = TRUE
    AcceptErrors = TRUE
    MaxFrames = 1
INVARIANTS StreamWellFormed FrameReachesAll ClosedDeviceForgotten WithinLimit
CHECK_DEADLOCK FALSE
PROPERTIES ViewerAnswered FailedViewerDropped
