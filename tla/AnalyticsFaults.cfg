SPECIFICATION Spec
CONSTANTS
    a1 = a1
    e1 = e1
    e2 = e2
    e3 = e3
    Procs = {a1}
    Events = {e1}
    EventTime <- TimesOne
    BucketSize = 2
    Lateness = 1
    IdleAdvance = 1
    MaxIdle = 5
    MaxAttempts = 2
    Faults = {"redis", "pg"}
    MaxDeliveries = 2
    MaxExpiries = 1
    MaxCrashes = 1
    MaxStops = 0

    
PROPERTIES
    OnlyExpiryShrinksRows
