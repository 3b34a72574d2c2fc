SPECIFICATION FairSpec
CONSTANTS
    d1 = d1  p1 = p1  p2 = p2  c1 = c1  c2 = c2  w1 = w1  w2 = w2
    Devices = {d1}
    PathOf <- OnePath
    Conns = {c1}
    Requests <- AskingLive
    Fds = {f1}
    Workers = {w1, w2}
    Limit = 0
    MaxAsked = 1
    MaxFrame = 2
INVARIANT NeverStale
PROPERTIES PayloadTaken StopEnds
CHECK_DEADLOCK FALSE
