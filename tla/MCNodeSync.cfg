SPECIFICATION FairSpec
CONSTANTS
  c1 = c1
  c2 = c2
  routeJob = routeJob
  None = None
  Jobs <- MCRoute
  RouteJobs <- MCRoute
  Slots <- MCSlots
  WorkerId <- MCWorkerId
  MaxAttempts = 2
  LeaseDuration = 2
  RetryDelay = 2
  MaxFreezes = 2
  MaxErrors = 1
INVARIANTS TypeOK CompletedIsSettled NeverStranded
PROPERTIES TerminalStays FencedWrites JobSettles
CHECK_DEADLOCK FALSE
