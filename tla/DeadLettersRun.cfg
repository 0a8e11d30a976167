SPECIFICATION Spec
CONSTANTS
    ok = ok
    bad = bad
    junk = junk
    plain = plain
    a1 = a1
    a2 = a2
    Events = {ok, bad, junk, plain}
    Raw <- RawFew
    Bucket <- BucketFew
    MaxCopies = 2
    MaxAttempts = 1
    MaxFaults = 1
    MaxStops = 1
    MaxClock = 3
    Admins = {a1, a2}
    Scenarios <- OneOrTwo
SYMMETRY AdminSymmetry
CHECK_DEADLOCK FALSE
INVARIANTS
    RowsAreExact
    
    RetryPublishesOnce
