SPECIFICATION Spec
CONSTANTS
    s1 = s1
    s2 = s2
    Sources = {s1, s2}
    Keys = {"k1", "k2"}
    Reports <- EvidenceReports
    Managed = {}
    Evaluators = {"e1"}
    Workers = {}
    Quorum = 2
    DegradedCycles = 1
    ExcludeCycles = 2
    UncertainCycles = 2
    RecoveryCycles = 2
    RecoveryMinimum = 2
    Cooldown = 1
    Freshness = 1
    MaxNow = 3
    MaxCycle = 2
    MaxPerCycle = 2
    MaxLate = 1
    MaxDecisions = 2
    MaxIncidents = 0
    MaxFaults = 0
INVARIANTS ExclusionIsBacked RecoveryIsBacked
CHECK_DEADLOCK FALSE
