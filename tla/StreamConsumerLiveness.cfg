SPECIFICATION FairSpec
CONSTANTS
    m1 = m1
    m2 = m2
    p1 = p1
    e1 = e1
    e2 = e2
    NoMember = NoMember
    Members = {m1, m2}
    Partitions = {p1}
    EventIds = {e1, e2}
    Log <- LogOfTwo
    Malformed = {}
    Envelope = TRUE
    Faults = {"handle", "table", "topic"}
    MaxAttempts = 2
    MaxInflight = 1
    MaxPoll = 2
    MaxCrashes = 1
    MaxStops = 0
    MaxMoves = 0
PROPERTIES
    EventuallyCaughtUp
