---------------------------- MODULE MCNodeAccess ----------------------------
(* NodeAccess on small instances.                                          *)
EXTENDS NodeAccess

CONSTANTS d1, d2, s1, s2

OneDevice  == {d1}
TwoDevices == {d1, d2}
OneSub     == {s1}
TwoSubs    == {s1, s2}
DeviceOwner1 == [d \in {d1} |-> "u1"]
DeviceOwners == [d \in {d1, d2} |-> IF d = d1 THEN "u1" ELSE "u2"]
SubOwner1    == [s \in {s1} |-> "u1"]
SubOwner2    == [s \in {s1, s2} |-> "u1"]
SubOwners    == [s \in {s1, s2} |-> IF s = s1 THEN "u1" ELSE "u2"]
NoTrial == {}
Trial2  == {s2}
Term1 == [s \in {s1} |-> 1]
Term2 == [s \in {s1, s2} |-> IF s = s1 THEN 1 ELSE 2]
LaterTerm1 == [s \in {s1, s2} |-> IF s = s1 THEN 2 ELSE 1]

-----------------------------------------------------------------------------
(* Two users, in the middle of things: both devices were issued and        *)
(* confirmed by one acknowledgement, d1 has just been revoked, and the     *)
(* term of d2's user is over.                                              *)

IssuedGrants ==
  [d \in Devices |-> [status |-> "PENDING", until |-> IF d = d1 THEN 2 ELSE 1,
                      desired |-> IF d = d1 THEN 1 ELSE 2, applied |-> 0]]

FirstDelivery ==
  [version |-> 2, hash |-> [grants |-> IssuedGrants, credentials |-> Devices, route |-> 0]]

LiveInit ==
  /\ nodeStatus = "HEALTHY" /\ desired = 3 /\ applied = 2
  /\ device = [d \in Devices |-> IF d = d1 THEN "REVOKED" ELSE "ACTIVE"]
  /\ sub = [s \in Subs |-> "ACTIVE"]
  /\ grant = [d \in Devices |->
       IF d = d1 THEN [IssuedGrants[d] EXCEPT !.status = "REVOKED", !.desired = 3, !.applied = 1]
                 ELSE [IssuedGrants[d] EXCEPT !.status = "ACTIVE", !.applied = 2]]
  /\ job = [v \in Versions |-> IF v <= 2 THEN "SUCCEEDED" ELSE IF v = 3 THEN "PENDING" ELSE "NONE"]
  /\ routeJobs = {} /\ route = 0
  /\ expiryOps = {} /\ deliveries = {FirstDelivery} /\ acks = {FirstDelivery}
  /\ reconciling = NotReconciling /\ restoring = FALSE /\ now = 1 /\ failures = 0

LiveSpec == LiveInit /\ [][Next]_vars /\ Fairness
=============================================================================
