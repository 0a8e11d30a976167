SPECIFICATION FairSpec
CONSTANTS
    a1 = a1
    e1 = e1
    e2 = e2
    e3 = e3
    Procs = {a1}
    Events = {e1, e2, e3}
    EventTime <- TimesSpread
    BucketSize = 2
    Lateness = 1
    IdleAdvance = 1
    MaxIdle = 5
    MaxAttempts = 1
    Faults = {}
    MaxDeliveries = 1
    MaxExpiries = 0
    MaxCrashes = 0
    MaxStops = 2
INVARIANTS
    GracefulStopKeepsBuckets
PROPERTIES
    EventuallyClosed
