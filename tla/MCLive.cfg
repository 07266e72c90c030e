CONSTANTS
    t1 = t1  t2 = t2  t3 = t3  t4 = t4
    q1 = q1  q2 = q2  q3 = q3  q4 = q4
    Caller <- MCCaller
    Threshold = 3
    Reset = 2
    Probing = TRUE
    Skews <- MCSkews
    MaxReports = 2
    MaxFaults = 2
    MaxAttempts = 1
    LeaseRequest <- MCLeaseRequest
    LeaseClient <- MCLeaseClient
    MaxTotal = 3
    MaxPerClient = 2
    Peer = {p1, p2, p3}
    Limit = 2
    Window = 4
    Second = 2
    MaxTracked = 2
    Ceiling = 1
    MaxTime = 6
SPECIFICATION MCSpec
INVARIANTS ClaimIsCurrent LimitsAreKept
PROPERTIES AlwaysTriedAgain OutcomeComesThrough ScreenNeverGoesBack
\* time, requests and reports are bounded
CHECK_DEADLOCK FALSE
