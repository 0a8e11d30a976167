SPECIFICATION Spec
CONSTANTS
    c1 = c1
    c2 = c2
    e1 = e1
    e2 = e2
    e3 = e3
    e4 = e4
    NoAmount = NoAmount
    NoUser = NoUser
    One = 1
    Exact = 2
    Float <- FloatFew
    RateValue = 2
    Callers = {c1, c2}
    Window = 3
    MaxDelay = 1
    Limits = {1, 2}
    MaxNow = 4
    MaxOps = 2
    MaxGateFaults = 1
    MaxAlerts = 4
    PageSize = 2
    MaxQueue = 2
    Groups <- GroupsFew
    MaxOffset = 2
    Samples = {e1, e2, e3, e4}
    Amount <- AmountFew
    User <- UserFew
    Times = {0, 1, 2, 4}
    Size = 3
    Slide = 2
    Gap = 1
    Workers = {1, 2}
SYMMETRY CallerSymmetry
CHECK_DEADLOCK FALSE
INVARIANTS
    RateBound
    TrailIsComplete
    StreamAccountsForAll
    
    WindowsMatchEvents
