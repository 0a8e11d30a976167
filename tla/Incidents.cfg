SPECIFICATION Spec
CONSTANTS
    d1 = d1
    d2 = d2
    a1 = a1
    a2 = a2
    NoSample = NoSample
    Detectors = {d1, d2}
    Metrics = {"m1"}
    Scores = {1, 4}
    Series <- SeriesFew
    Rule <- RuleFew
    MaxIds = 2
    MaxAttempts = 2
    MaxFaults = 1
    Agents = {a1, a2}
    Invented <- InventedFew
    Embedded <- EmbeddedFew
    Plan <- PlanFew
    MaxCalls = 1
    PerResponse = 2
    RateLimit = 1
    MaxInvestigations = 2
    Incidents <- IncidentsFew
SYMMETRY TaskSymmetry
CHECK_DEADLOCK FALSE
INVARIANTS
    StoredIsPublishedOnce
    BoundedStorm
    NoAnomalyForgotten
    AnomalyIsReleased
    GroundedConclusion
    CostBound
PROPERTY CancelIsKept
