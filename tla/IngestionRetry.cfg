SPECIFICATION Spec
CONSTANTS
    r1 = r1
    r2 = r2
    e1 = e1
    e2 = e2
    e3 = e3
    e4 = e4
    e5 = e5
    e6 = e6
    Requests = {r1, r2}
    Events = {e1}
    Malformed = {}
    Shapeless = {}
    Undated = {}
    Forbidden = {}
    Invalid = {}
    MaxBatch = 1
    Faults = {"kafka"}
    MaxCrashes = 0
    MaxExpiries = 0
INVARIANTS
    DuplicateMeansKnown
