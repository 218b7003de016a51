SPECIFICATION FairSpec
CONSTANTS
    alice = alice  bob = bob
    start = start  code1 = code1  code2 = code2  other = other
    Users = {alice, bob}
    Launches = {start}
    Confirms = {code1, code2, other}
    OwnerOf <- MCOwnerOf
    Codes = {"K7", "M2"}
    Browsers = {b1, b2}
    ChallengeTtl = 2
    PendingTtl = 2
    InitDataAge = 1
    MaxNow = 3
    MaxPending = 2
INVARIANTS TypeOK OneSessionPerChallenge SessionIsOwners
PROPERTY WaitEnds
CHECK_DEADLOCK FALSE
