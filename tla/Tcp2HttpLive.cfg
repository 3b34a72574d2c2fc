SPECIFICATION FairSpec
CONSTANTS
    d1 = d1  d2 = d2  s1 = s1  s2 = s2
    Devices = {d1}
    SNs = {s1}
    SnOf <- SharedSn
    Texts <- TwoItemTexts
    Requests <- LoneRequests
    Clients = {c1}
    ReadMax = 2
    BacklogMax = 2
    Resets = FALSE
    AcceptErrors = FALSE
PROPERTIES ConnectionReleased GoneIsUnlisted
