SPECIFICATION Spec
CONSTANTS
    p1 = p1
    p2 = p2
    a = a
    b = b
    good = good
    wide = wide
    Procs = {p1, p2}
    Names = {a, b}
    Passwords = {good, wide}
    TextOf <- MCTextOf
    PageRequests = {}
    Seed <- MCSeed
INVARIANTS TypeOK HonestAnswer OneOwnerPerName HashingNeverFails
PROPERTIES EveryRpcAnswered
CHECK_DEADLOCK FALSE
