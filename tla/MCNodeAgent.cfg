SPECIFICATION Spec
CONSTANTS
  g1 = g1
  g2 = g2
  Grants = {g1, g2}
  Until <- MCUntil
  Known = {g1}
  Sla = 3
  Reserve = 2
  MaxVersion = 2
  MaxNow = 4
  MaxFaults = 1
  Reachable = FALSE
INVARIANTS
  TypeOK
  AcknowledgedIsDurable
  ExpiryWithinSla
PROPERTIES
  CycleEndsRevoked
  LatchedStaysOut
