SPECIFICATION LiveSpec
CONSTANTS
  d1 = d1
  d2 = d2
  s1 = s1
  s2 = s2
  Devices <- TwoDevices
  UserOfDevice <- DeviceOwners
  Subs <- TwoSubs
  UserOfSub <- SubOwners
  Trials <- NoTrial
  Term <- LaterTerm1
  MaxVersion = 6
  MaxNow = 1
  MaxRoutes = 0
  MaxFailures = 1
PROPERTIES RevokeConverges
CHECK_DEADLOCK FALSE
