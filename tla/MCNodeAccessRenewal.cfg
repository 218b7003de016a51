SPECIFICATION Spec
CONSTANTS
  d1 = d1
  d2 = d2
  s1 = s1
  s2 = s2
  Devices <- OneDevice
  UserOfDevice <- DeviceOwner1
  Subs <- TwoSubs
  UserOfSub <- SubOwner2
  Trials <- Trial2
  Term <- Term2
  MaxVersion = 3
  MaxNow = 2
  MaxRoutes = 0
  MaxFailures = 0
PROPERTIES RenewalNotCutShort
CHECK_DEADLOCK FALSE
