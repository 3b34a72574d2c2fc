SPECIFICATION Spec
CONSTANTS
    d1 = d1  d2 = d2  s1 = s1  s2 = s2
    Devices = {d1, d2}
    SNs = {s1, s2}
    SnOf <- OwnSn
    Texts <- OneItemTexts
    Requests <- OwnRequests
    Clients = {c1}
    ReadMax = 1
    BacklogMax = 1
    Resets = TRUE
    AcceptErrors = TRUE
INVARIANTS TypeOK MessageFiledUnderItsSender
CHECK_DEADLOCK FALSE
