SPECIFICATION Spec
CONSTANTS
    m1 = m1
    m2 = m2
    p1 = p1
    e1 = e1
    e2 = e2
    NoMember = NoMember
    Members = {m1}
    Partitions = {p1}
    EventIds = {e1, e2}
    Log <- LogOfTwo
    Malformed = {e2}
    Envelope = TRUE
    Faults = {"handle", "handled", "permanent", "mark", "topic", "table", "commit"}
    MaxAttempts = 2
    MaxInflight = 2
    MaxPoll = 2
    MaxCrashes = 2
    MaxStops = 1
    MaxMoves = 0
INVARIANTS
    TypeOK
    CommittedIsSettled
    ProcessedWasApplied
PROPERTIES
    ProcessedIsFinal
