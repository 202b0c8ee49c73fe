CONSTANTS
    c1 = c1
    c2 = c2
    p1 = p1
    x1 = x1
    x2 = x2
    b1 = b1
    b2 = b2
    Clients <- TwoClients
    Specs <- OneSpec
    Scans <- OneScan
    Bodies <- TwoBodies
    None = None
    Free = Free
    MaxCalls = 3
    MaxCrash = 0
SPECIFICATION Spec

PROPERTY DeletedStaysGone
\* a service with no request to serve waits
CHECK_DEADLOCK FALSE
