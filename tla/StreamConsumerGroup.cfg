SPECIFICATION Spec
CONSTANTS
    m1 = m1
    m2 = m2
    p1 = p1
    e1 = e1
    e2 = e2
    NoMember = NoMember
    Members = {m1, m2}
    Partitions = {p1}
    EventIds = {e1, e2}
    Log <- LogOfTwo
    Malformed = {e2}
    Envelope = TRUE
    Faults = {"check", "marked", "permanent", "table", "commit"}
    MaxAttempts = 1
    MaxInflight = 2
    MaxPoll = 2
    MaxCrashes = 1
    MaxStops = 0
    MaxMoves = 2
SYMMETRY MemberSymmetry
INVARIANTS
    NoSilentLoss
PROPERTIES
    ImplementsAtLeastOnce
