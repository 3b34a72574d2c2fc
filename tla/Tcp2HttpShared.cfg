SPECIFICATION Spec
CONSTANTS
    d1 = d1  d2 = d2  s1 = s1  s2 = s2
    Devices = {d1, d2}
    SNs = {s1}
    SnOf <- SharedSn
    Texts <- OneItemTexts
    Requests <- SharedRequests
    Clients = {c1}
    ReadMax = 1
    BacklogMax = 1
    Resets = FALSE
    AcceptErrors = FALSE
INVARIANTS LockOwned TableTracksSessions LatestReportFirst
PROPERTIES RelaySpec
