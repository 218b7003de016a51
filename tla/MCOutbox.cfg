SPECIFICATION FairSpec
CONSTANTS
  p1 = p1
  p2 = p2
  None = None
  Events <- MCEvents
  Malformed <- MCMalformed
  Publishers <- MCPublishers
  WorkerId <- MCWorkerId
  MaxAttempts = 2
  LeaseDuration = 2
  RetryDelay = 1
  MaxCrashes = 1
INVARIANTS TypeOK PublishedWasQueued AttemptBudget
PROPERTIES FencedWrites ImplementsContract EventSettles
