SPECIFICATION Spec
CONSTANTS
  g1 = g1
  g2 = g2
  Grants = {g2}
  Until <- MCUntil
  Known = {g2}
  Sla = 3
  Reserve = 2
  MaxVersion = 2
  MaxNow = 4
  MaxFaults = 0
  Reachable = TRUE
INVARIANTS
  RevokeWithinSla
