CONSTANTS
    c1 = c1
    c2 = c2
    c3 = c3
    p = p
    q = q
    NoCaller = NoCaller
    Processes = {p, q}
    Callers <- MCCallers
    Owner <- MCOwner
    MaxPolls = 1
SPECIFICATION MCSpec
INVARIANT StartInv
PROPERTY FailureIsForgotten
PROPERTY EveryCallEnds
CHECK_DEADLOCK FALSE
