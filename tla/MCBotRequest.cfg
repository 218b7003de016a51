SPECIFICATION Spec
CONSTANTS
    Updates = {u1}
    Handlers = {h1, h2}
    Skew = 1
    NonceTtl = 3
    ClockDrifts = {0, 1}
    MaxNow = 3
    MaxSigned = 2
    MaxVersion = 2
    MaxFaults = 1
INVARIANTS TypeOK InstalledIsActive
PROPERTIES TakesEffectOnce NonceAcceptedOnce NoEffectOnceRevoked
CHECK_DEADLOCK FALSE
