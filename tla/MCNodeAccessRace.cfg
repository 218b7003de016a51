SPECIFICATION Spec
CONSTANTS
  d1 = d1
  d2 = d2
  s1 = s1
  s2 = s2
  Devices <- OneDevice
  UserOfDevice <- DeviceOwner1
  Subs <- OneSub
  UserOfSub <- SubOwner1
  Trials <- NoTrial
  Term <- Term1
  MaxVersion = 3
  MaxNow = 0
  MaxRoutes = 0
  MaxFailures = 0
INVARIANTS RevokedDeviceHoldsNoGrant
CHECK_DEADLOCK FALSE
