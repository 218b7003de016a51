SPECIFICATION Spec
CONSTANTS
    s1 = s1
    s2 = s2
    Sources = {s1}
    Keys = {"k1"}
    Reports <- SeriesReports
    Managed = {s1}
    Evaluators = {"e1", "e2"}
    Workers = {"w1", "w2"}
    Quorum = 1
    DegradedCycles = 1
    ExcludeCycles = 2
    UncertainCycles = 2
    RecoveryCycles = 1
    RecoveryMinimum = 1
    Cooldown = 2
    Freshness = 1
    MaxNow = 3
    MaxCycle = 3
    MaxPerCycle = 1
    MaxLate = 0
    MaxDecisions = 3
    MaxIncidents = 2
    MaxFaults = 1
INVARIANTS TypeOK CooldownHolds MaterializedOnce ResolvedIsSettled
PROPERTY QuarantineHolds
CHECK_DEADLOCK FALSE
