SPECIFICATION Spec
CONSTANTS
    r1 = r1
    r2 = r2
    e1 = e1
    e2 = e2
    e3 = e3
    e4 = e4
    e5 = e5
    e6 = e6
    Requests = {r1, r2}
    Events = {e1, e2, e3, e4, e5, e6}
    Malformed = {e3, e5}
    Shapeless = {e5}
    Undated = {e6}
    Forbidden = {e4}
    Invalid = {e2}
    MaxBatch = 2
    Faults = {"redis", "registry", "kafka", "dlqKafka", "commit"}
    MaxCrashes = 1
    MaxExpiries = 1
SYMMETRY RequestSymmetry
INVARIANTS
    AcceptedIsPublished
    OneCopyPerReservation
    RejectedIsInTable
