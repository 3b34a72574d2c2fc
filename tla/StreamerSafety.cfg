SPECIFICATION Spec
CONSTANTS
    d1 = d1  p1 = p1  p2 = p2  c1 = c1  c2 = c2  w1 = w1  w2 = w2
    Devices = {d1}
    PathOf <- OnePath
    Conns = {c1, c2}
    Requests <- Asking
    Fds = {f1}
    Workers = {w1, w2}
    Limit = 0
    MaxAsked = 2
    MaxFrame = 1
SYMMETRY Symmetric
INVARIANTS CounterNeverAbove QueueBounded HeadFirst ClosedForgotten
CHECK_DEADLOCK FALSE
