SPECIFICATION Spec
CONSTANTS
    r1 = r1
    o1 = o1
    a = a
    b = b
    Procs = {r1, o1}
    Readers = {r1}
    Others = {o1}
    Names = {a, b}
    PageParams <- MCPageParams
    SizeParams <- MCSizeParams
    Defects = {"none", "bind", "fields"}
    MaxPage = 0
    MaxSize = 2
    PageRequests <- MCPageRequests
    Seed <- MCSeed
INVARIANTS GetUsersConforms
CHECK_DEADLOCK FALSE
