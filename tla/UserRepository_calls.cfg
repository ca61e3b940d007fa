SPECIFICATION Spec
CONSTANTS
    p1 = p1
    p2 = p2
    p3 = p3
    a = a
    b = b
    c = c
    None = None
    Procs = {p1, p2, p3}
    Names = {a, b, c}
    PageRequests <- MCPageRequests
    Seed <- MCSeed
    MaxIdle = 2
    MayCancel = {}
    MayClose = FALSE
INVARIANTS TypeOK IdleHoldsNothing ListingIsSnapshot PageMatchesTotal
PROPERTIES UsersKept
SYMMETRY MCSymmetry
