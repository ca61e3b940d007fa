SPECIFICATION Spec
CONSTANTS
    p1 = p1
    p2 = p2
    p3 = p3
    a = a
    b = b
    c = c
    None = None
    Procs = {p1, p2}
    Names = {a, b}
    PageRequests <- MCPageRequests
    Seed <- MCSeed
    MaxIdle = 1
    MayCancel = {p1, p2}
    MayClose = TRUE
INVARIANTS RInv
PROPERTIES LossNeedsCancelledListing EveryCallReturns ConnectionsComeBack ImplementsUserStore
