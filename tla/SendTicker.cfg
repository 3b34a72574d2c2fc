SPECIFICATION FairSpec
CONSTANTS
    Clients = {c1, c2}
    Timeout = 3
    Delay = 2
INVARIANTS OnlySlowIsShut
PROPERTY SendEnds
