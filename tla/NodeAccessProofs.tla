-------------------------- MODULE NodeAccessProofs --------------------------
(***************************************************************************)
(* Proofs about NodeAccess, for any set of devices and subscriptions and   *)
(* any number of configuration versions, route publications, failures and  *)
(* clock ticks.                                                            *)
(***************************************************************************)
EXTENDS NodeAccess, TLAPS

-----------------------------------------------------------------------------
(* Type correctness.                                                       *)

\* The term findEffectiveExpiry() yields is a point in time, 0 for none.
LEMMA EntitledType ==
  ASSUME TypeOK, NEW u
  PROVE  EntitledUntil(u) \in Nat
<1> DEFINE S == {s \in Subs : UserOfSub[s] = u /\ sub[s] = "ACTIVE" /\ Term[s] > now}
<1>1. CASE S = {}
  BY <1>1 DEF EntitledUntil
<1>2. CASE S # {}
  <2>1. (CHOOSE s \in S : TRUE) \in S
    BY <1>2
  <2>2. Term[CHOOSE s \in S : TRUE] \in Nat
    BY <2>1, NodeAccessAssumption
  <2>3. QED
    BY <1>2, <2>2 DEF EntitledUntil
<1>3. QED
  BY <1>1, <1>2

\* A new version keeps the counters and the job table in their types.
LEMMA BumpType ==
  ASSUME TypeOK, Bump
  PROVE  /\ desired' \in 0..MaxVersion
         /\ job' \in [Versions -> {"NONE", "PENDING", "SUCCEEDED", "FAILED", "LOST"}]
  BY NodeAccessAssumption DEF TypeOK, Bump, NewVersion, Versions

\* The rows the transactions write are grants: created, revoked, renewed or
\* merely given another version.
LEMMA GrantTypes ==
  ASSUME TypeOK, NEW g \in Grants, NEW t \in Nat
  PROVE  /\ NewVersion \in Nat
         /\ NewGrant(t) \in Grants
         /\ Revoked(g) \in Grants
         /\ [g EXCEPT !.status = "REVOKED"] \in Grants
         /\ [g EXCEPT !.status = "ACTIVE"] \in Grants
         /\ [g EXCEPT !.desired = NewVersion] \in Grants
         /\ [g EXCEPT !.until = t, !.desired = NewVersion] \in Grants
         /\ [g EXCEPT !.status = "ACTIVE", !.until = t, !.desired = NewVersion] \in Grants
<1>1. NewVersion \in Nat
  BY NodeAccessAssumption DEF TypeOK, NewVersion
<1>2. QED
  BY <1>1 DEF NewGrant, Revoked, Grants, GrantStatus

\* What reconcileOneNode() makes of a grant row is a grant row.
LEMMA ReconciledType ==
  ASSUME TypeOK, NEW d \in Devices, NEW expected \in [Devices -> Nat], NEW send
  PROVE  Reconciled(d, expected, send) \in Grants
<1>1. grant[d] \in Grants /\ expected[d] \in Nat
  BY DEF TypeOK
<1>2. NewVersion \in Nat
  BY NodeAccessAssumption DEF TypeOK, NewVersion
<1>3. QED
  BY <1>1, <1>2 DEF Reconciled, NewGrant, Grants, GrantStatus

\* Every variable has its type before anything has happened.
LEMMA TypeInit == Init => TypeOK
<1> SUFFICES ASSUME Init PROVE TypeOK
  OBVIOUS
<1>1. restoring \in BOOLEAN
  BY DEF Init
<1>2. reconciling \in [active : BOOLEAN, missing : BOOLEAN, expected : [Devices -> Nat]]
  BY DEF Init, NotReconciling
<1>3. NoGrant \in Grants
  BY DEF NoGrant, Grants, GrantStatus
<1>4. QED
  BY <1>1, <1>2, <1>3, NodeAccessAssumption DEF Init, TypeOK, NodeStatuses

\* Every transaction, worker step, node-agent call and clock tick keeps the
\* types.
LEMMA TypeNext == TypeOK /\ [Next]_vars => TypeOK'
<1> SUFFICES ASSUME TypeOK, [Next]_vars PROVE TypeOK'
  OBVIOUS
<1>a. NewVersion \in Nat /\ now \in Nat /\ \A d \in Devices : grant[d] \in Grants
  BY NodeAccessAssumption DEF TypeOK, NewVersion
<1>b. Bump => /\ desired' \in 0..MaxVersion /\ NewVersion \in Versions
              /\ job' \in [Versions -> {"NONE", "PENDING", "SUCCEEDED", "FAILED", "LOST"}]
  BY BumpType, NodeAccessAssumption DEF Bump, NewVersion, Versions, TypeOK
<1>c. \A u : EntitledUntil(u) \in Nat
  BY EntitledType
<1>d. \A g \in Grants, t \in Nat :
         /\ NewGrant(t) \in Grants
         /\ Revoked(g) \in Grants
         /\ [g EXCEPT !.status = "REVOKED"] \in Grants
         /\ [g EXCEPT !.until = t, !.desired = NewVersion] \in Grants
  BY GrantTypes
<1>e. \A s \in Subs : Term[s] \in Nat
  BY NodeAccessAssumption
<1>1. ASSUME NEW s \in Subs, Subscribe(s) PROVE TypeOK'
  BY <1>1 DEF Subscribe, TypeOK
<1>2. ASSUME NEW s \in Subs, ActivateTrial(s) PROVE TypeOK'
  <2>1. grant' \in [Devices -> Grants]
    BY <1>2, <1>a, <1>d, <1>e DEF ActivateTrial, Renewed
  <2>2. QED
    BY <1>2, <1>b, <2>1 DEF ActivateTrial, TypeOK
<1>3. ASSUME NEW s \in Subs, CancelSubscription(s) PROVE TypeOK'
  <2>1. grant' \in [Devices -> Grants]
    <3>1. \A g \in Grants : Revoked(g) \in Grants /\ [g EXCEPT !.status = "REVOKED"] \in Grants
      BY <1>a, <1>d
    <3>2. grant \in [Devices -> Grants]
      BY DEF TypeOK
    <3>3. QED
      BY <1>3, <3>1, <3>2 DEF CancelSubscription
  <2>2. QED
    BY <1>3, <1>b, <2>1 DEF CancelSubscription, TypeOK
<1>4. ASSUME NEW d \in Devices, IssueDevice(d) PROVE TypeOK'
  <2>1. grant' \in [Devices -> Grants]
    <3>1. NewGrant(EntitledUntil(UserOfDevice[d])) \in Grants
      BY <1>a, <1>c, <1>d
    <3>2. grant \in [Devices -> Grants]
      BY DEF TypeOK
    <3>3. QED
      BY <1>4, <3>1, <3>2 DEF IssueDevice
  <2>2. QED
    BY <1>4, <1>b, <2>1 DEF IssueDevice, TypeOK
<1>5. ASSUME NEW d \in Devices, RevokeDevice(d) PROVE TypeOK'
  <2>1. grant' \in [Devices -> Grants]
    <3>1. /\ grant \in [Devices -> Grants] /\ Revoked(grant[d]) \in Grants
          /\ [grant[d] EXCEPT !.status = "REVOKED"] \in Grants
      BY <1>a, <1>d DEF TypeOK
    <3>2. \/ grant' = grant
          \/ grant' = [grant EXCEPT ![d] = Revoked(grant[d])]
          \/ grant' = [grant EXCEPT ![d] = [grant[d] EXCEPT !.status = "REVOKED"]]
      BY <1>5 DEF RevokeDevice
    <3>3. QED
      BY <3>1, <3>2
  <2>2. QED
    BY <1>5, <1>b, <2>1 DEF RevokeDevice, TypeOK
<1>6. ASSUME NEW s \in Subs, ScheduleExpiry(s) PROVE TypeOK'
  <2>1. ExpiryTerm(s) \in Nat
    BY <1>c, <1>e DEF ExpiryTerm
  <2>2. grant' \in [Devices -> Grants]
    BY <1>6, <2>1, <1>a, <1>d DEF ScheduleExpiry
  <2>3. QED
    BY <1>6, <1>b, <2>2 DEF ScheduleExpiry, TypeOK
<1>7. ASSUME NEW s \in Subs, MaterializeExpiry(s) PROVE TypeOK'
  BY <1>7 DEF MaterializeExpiry, TypeOK
<1>8. ASSUME NEW m \in BOOLEAN, BeginReconcile(m) PROVE TypeOK'
  <2>1. ExpectedDevices \in [Devices -> Nat]
    BY <1>c DEF ExpectedDevices
  <2>2. QED
    BY <1>8, <2>1 DEF BeginReconcile, TypeOK
<1>9. ASSUME EndReconcile PROVE TypeOK'
  <2>1. grant' \in [Devices -> Grants]
    BY <1>9, ReconciledType DEF EndReconcile, TypeOK
  <2>2. reconciling' \in [active : BOOLEAN, missing : BOOLEAN, expected : [Devices -> Nat]]
    BY <1>9 DEF EndReconcile, NotReconciling
  <2>3. restoring' \in BOOLEAN
    BY <1>9 DEF EndReconcile
  <2>4. QED
    BY <1>9, <1>b, <2>1, <2>2, <2>3 DEF EndReconcile, TypeOK
<1>10. CASE Drain
  BY <1>10, NodeAccessAssumption DEF Drain, ChangeStatus, TypeOK, NodeStatuses
<1>11. CASE Disable
  BY <1>11, NodeAccessAssumption DEF Disable, ChangeStatus, TypeOK, NodeStatuses
<1>12. CASE Quarantine
  <2>1. grant' \in [Devices -> Grants]
    BY <1>12, <1>a, <1>d DEF Quarantine
  <2>2. QED
    BY <1>12, <1>b, <2>1, NodeAccessAssumption
       DEF Quarantine, ChangeStatus, TypeOK, NodeStatuses
<1>13. CASE RestoreHealthy
  <2>1. restoring' \in BOOLEAN
    BY <1>13 DEF RestoreHealthy
  <2>2. nodeStatus' \in NodeStatuses /\ route' \in 0..MaxVersion
    BY <1>13, NodeAccessAssumption DEF RestoreHealthy, ChangeStatus, TypeOK, NodeStatuses
  <2>3. QED
    BY <1>13, <2>1, <2>2 DEF RestoreHealthy, TypeOK
<1>14. CASE PublishRoute
  BY <1>14, <1>b DEF PublishRoute, Bump, TypeOK, Versions
<1>15. CASE CloseRoute
  BY <1>15, NodeAccessAssumption DEF CloseRoute, TypeOK
<1>16. ASSUME NEW v \in Versions, CompleteJob(v) PROVE TypeOK'
  BY <1>16 DEF CompleteJob, TypeOK
<1>17. ASSUME NEW v \in Versions, LoseJob(v) PROVE TypeOK'
  BY <1>17, NodeAccessAssumption DEF LoseJob, TypeOK
<1>18. ASSUME NEW v \in Versions, Deliver(v) PROVE TypeOK'
  BY <1>18 DEF Deliver, TypeOK
<1>19. ASSUME NEW a \in deliveries, Acknowledge(a) PROVE TypeOK'
  <2>1. a.version \in 0..MaxVersion
    BY NodeAccessAssumption DEF TypeOK, Versions
  <2>2. grant' \in [Devices -> Grants]
    BY <1>19, <1>a DEF Acknowledge, Grants, GrantStatus
  <2>3. QED
    BY <1>19, <2>1, <2>2 DEF Acknowledge, TypeOK
<1>20. CASE Tick
  BY <1>20, NodeAccessAssumption DEF Tick, TypeOK
<1>21. CASE UNCHANGED vars
  BY <1>21 DEF vars, TypeOK
<1>22. QED
  BY <1>1, <1>2, <1>3, <1>4, <1>5, <1>6, <1>7, <1>8, <1>9, <1>10, <1>11, <1>12, <1>13,
     <1>14, <1>15, <1>16, <1>17, <1>18, <1>19, <1>20, <1>21
     DEF Next, Maintain, Admin, Restore, Serve, Reconcile, RestoreReconcile

\* Type correctness of the control plane for every value of the constants.
THEOREM TypeCorrect == Spec => []TypeOK
  BY TypeInit, TypeNext, PTL DEF Spec

-----------------------------------------------------------------------------
(* The inductive invariant.  Every change of a grant or of the route takes *)
(* a version no snapshot has carried yet (VersionOrder), so a snapshot of  *)
(* that version or a later one shows the change (ShownBySnapshots), and    *)
(* an acknowledgement can only confirm what its snapshot has shown.        *)

\* Versions grow from what the node has confirmed to what it is asked for.
VersionOrder ==
  /\ applied <= desired /\ route <= desired
  /\ \A d \in Devices : grant[d].applied <= grant[d].desired /\ grant[d].desired <= desired
  /\ \A a \in deliveries : a.version <= desired

\* The node's applied version confirms every grant it covers and was
\* acknowledged by the node.
AppliedMeaning ==
  /\ \A d \in Devices : grant[d].desired <= applied => grant[d].applied = grant[d].desired
  /\ applied = 0 \/ \E a \in acks : a.version = applied
  /\ acks \subseteq deliveries

\* A reconciliation only runs on a node that takes commands.
LockedInSync == NodeLocked => InSync

\* A snapshot of the version a grant or the route waits for, or of a later
\* one, shows its present state.
ShownBySnapshots ==
  \A a \in deliveries :
    /\ \A d \in Devices : a.version >= grant[d].desired =>
         /\ grant[d].status = "REVOKED" => a.hash.grants[d].status = "REVOKED"
         /\ Held(d) /\ grant[d].until > now => d \in a.hash.credentials
    /\ route # 0 /\ a.version >= route => a.hash.route = route

\* A confirmed grant that still runs had its credential in an acknowledged
\* snapshot.
CredentialConfirmed ==
  \A d \in Devices :
    Held(d) /\ grant[d].until > now /\ grant[d].applied = grant[d].desired
      => \E a \in acks : a.version >= grant[d].desired /\ d \in a.hash.credentials

IndInv == /\ TypeOK
          /\ VersionOrder
          /\ AppliedMeaning
          /\ LockedInSync
          /\ QuarantineRevokesAll
          /\ ShownBySnapshots
          /\ RevokeConfirmedByNode
          /\ CredentialConfirmed

-----------------------------------------------------------------------------
(* What the steps have in common.  A control step (every step but a        *)
(* delivery and an acknowledgement) leaves a grant as the node knows it or *)
(* moves it to a version of its own.                                       *)

GrantKept(d) ==
  \/ grant'[d] = grant[d]
  \/ Held(d) /\ grant'[d] = [grant[d] EXCEPT !.status = "ACTIVE"]

GrantMoved(d) ==
  /\ desired' = NewVersion
  /\ grant'[d].desired = NewVersion
  /\ grant'[d].applied <= desired

ControlStep ==
  /\ UNCHANGED <<applied, deliveries, acks>>
  /\ desired' \in {desired, NewVersion}
  /\ now <= now'
  /\ route' \in {0, route} \/ (route' = NewVersion /\ desired' = NewVersion)
  /\ \A d \in Devices : GrantKept(d) \/ GrantMoved(d)

\* A step that leaves grants, versions, clock and snapshots alone, and the
\* route too or closes it, is a control step.
LEMMA IdleIsControl ==
  ASSUME IndInv, UNCHANGED <<applied, deliveries, acks, desired, now, grant>>, route' \in {0, route}
  PROVE  ControlStep
  BY NodeAccessAssumption DEF ControlStep, GrantKept, IndInv, TypeOK

\* The transactions that lock the Node row move the grants they write.
LEMMA ControlSteps ==
  ASSUME IndInv, [Next]_vars, ~ Serve
  PROVE  ControlStep
<1>a. /\ TypeOK /\ desired \in Nat /\ now \in Nat /\ now <= now
      /\ \A d \in Devices : /\ grant[d] \in Grants
                            /\ grant[d].applied \in Nat /\ grant[d].applied <= desired
  BY NodeAccessAssumption DEF IndInv, TypeOK, VersionOrder, Grants
<1>b. Bump => desired' = NewVersion
  BY DEF Bump
<1>c. ~InSync => \A d \in Devices : ~Held(d)
  BY DEF IndInv, TypeOK, InSync, NodeStatuses, QuarantineRevokesAll
<1>1. ASSUME NEW s \in Subs, Subscribe(s) PROVE ControlStep
  BY <1>1, IdleIsControl DEF Subscribe
<1>2. ASSUME NEW s \in Subs, ActivateTrial(s) PROVE ControlStep
  <2>1. ASSUME NEW d \in Devices PROVE GrantKept(d) \/ GrantMoved(d)
    <3>1. CASE d \notin RenewedDevices(UserOfSub[s])
      BY <1>2, <3>1 DEF ActivateTrial, GrantKept
    <3>2. CASE d \in RenewedDevices(UserOfSub[s])
      <4>1. desired' = NewVersion
        BY <1>2, <3>2, <1>b DEF ActivateTrial
      <4>2. grant'[d] = Renewed(grant[d], Term[s])
        BY <1>2, <3>2 DEF ActivateTrial
      <4>3. QED
        BY <4>1, <4>2, <1>a DEF GrantMoved, Renewed, NewGrant, Grants
    <3>3. QED
      BY <3>1, <3>2
  <2>2. QED
    BY <1>2, <2>1, <1>a, <1>b DEF ActivateTrial, ControlStep
<1>3. ASSUME NEW s \in Subs, CancelSubscription(s) PROVE ControlStep
  <2>1. ASSUME NEW d \in Devices PROVE GrantKept(d) \/ GrantMoved(d)
    <3> DEFINE D == IF sub[s] = "ACTIVE" /\ Term[s] > now THEN UserGrants(s) ELSE {}
    <3>1. CASE d \notin D
      BY <1>3, <3>1 DEF CancelSubscription, GrantKept
    <3>2. CASE d \in D
      <4>1. InSync
        BY <3>2, <1>c DEF UserGrants
      <4>2. Bump /\ grant'[d] = Revoked(grant[d])
        BY <1>3, <3>2, <4>1 DEF CancelSubscription
      <4>3. QED
        BY <4>2, <1>a, <1>b DEF GrantMoved, Revoked, Grants
    <3>3. QED
      BY <3>1, <3>2
  <2>2. QED
    BY <1>3, <2>1, <1>a, <1>b DEF CancelSubscription, ControlStep
<1>4. ASSUME NEW e \in Devices, IssueDevice(e) PROVE ControlStep
  <2>1. ASSUME NEW d \in Devices PROVE GrantKept(d) \/ GrantMoved(d)
    BY <1>4, <1>a, <1>b DEF IssueDevice, GrantKept, GrantMoved, NewGrant, TypeOK
  <2>2. QED
    BY <1>4, <2>1, <1>a, <1>b DEF IssueDevice, ControlStep
<1>5. ASSUME NEW e \in Devices, RevokeDevice(e) PROVE ControlStep
  <2>1. ASSUME NEW d \in Devices PROVE GrantKept(d) \/ GrantMoved(d)
    <3>1. CASE d # e \/ ~Held(e)
      BY <1>5, <3>1, <1>a, <1>c DEF RevokeDevice, GrantKept, TypeOK
    <3>2. CASE d = e /\ Held(e)
      <4>1. Bump /\ grant'[d] = Revoked(grant[d])
        BY <1>5, <3>2, <1>a, <1>c DEF RevokeDevice, TypeOK
      <4>2. QED
        BY <4>1, <1>a, <1>b DEF GrantMoved, Revoked, Grants
    <3>3. QED
      BY <3>1, <3>2
  <2>2. QED
    BY <1>5, <2>1, <1>a, <1>b DEF RevokeDevice, ControlStep
<1>6. ASSUME NEW s \in Subs, ScheduleExpiry(s) PROVE ControlStep
  <2>1. ASSUME NEW d \in Devices PROVE GrantKept(d) \/ GrantMoved(d)
    BY <1>6, <1>a, <1>b DEF ScheduleExpiry, GrantKept, GrantMoved, Grants
  <2>2. QED
    BY <1>6, <2>1, <1>a, <1>b DEF ScheduleExpiry, ControlStep
<1>7. ASSUME NEW s \in Subs, MaterializeExpiry(s) PROVE ControlStep
  BY <1>7, IdleIsControl DEF MaterializeExpiry
<1>8. ASSUME NEW m \in BOOLEAN, BeginReconcile(m) PROVE ControlStep
  BY <1>8, IdleIsControl DEF BeginReconcile
<1>9. ASSUME EndReconcile PROVE ControlStep
  <2> DEFINE expected == reconciling.expected
             send == NetworkChanges(expected, reconciling.missing)
  <2>1. ASSUME NEW d \in Devices PROVE GrantKept(d) \/ GrantMoved(d)
    <3>1. grant'[d] = Reconciled(d, expected, send)
      BY <1>9 DEF EndReconcile
    <3>2. Confirmed(d, expected) => Held(d)
      BY DEF Confirmed, Held
    <3>3. CASE d \notin send
      BY <3>1, <3>2, <3>3, <1>a DEF Reconciled, GrantKept, Grants
    <3>4. CASE d \in send
      <4>1. desired' = NewVersion
        BY <1>9, <3>4, <1>b DEF EndReconcile
      <4>2. QED
        BY <3>1, <3>4, <4>1, <1>a DEF Reconciled, GrantMoved, NewGrant, Grants
    <3>5. QED
      BY <3>3, <3>4
  <2>2. QED
    BY <1>9, <2>1, <1>a, <1>b DEF EndReconcile, ControlStep
<1>10. CASE Drain \/ Disable
  BY <1>10, IdleIsControl DEF Drain, Disable, ChangeStatus
<1>11. CASE Quarantine
  <2>1. ASSUME NEW d \in Devices PROVE GrantKept(d) \/ GrantMoved(d)
    BY <1>11, <1>a, <1>b DEF Quarantine, GrantKept, GrantMoved, Revoked, Grants
  <2>2. QED
    BY <1>11, <2>1, <1>a, <1>b DEF Quarantine, ChangeStatus, ControlStep
<1>12. CASE RestoreHealthy
  BY <1>12, IdleIsControl DEF RestoreHealthy, ChangeStatus
<1>13. CASE PublishRoute
  BY <1>13, <1>a, <1>b DEF PublishRoute, ControlStep, GrantKept
<1>14. CASE CloseRoute
  BY <1>14, IdleIsControl DEF CloseRoute
<1>15. ASSUME NEW v \in Versions, CompleteJob(v) \/ LoseJob(v) PROVE ControlStep
  BY <1>15, IdleIsControl DEF CompleteJob, LoseJob
<1>16. CASE Tick
  BY <1>16, <1>a DEF Tick, ControlStep, GrantKept
<1>17. CASE UNCHANGED vars
  BY <1>17, IdleIsControl DEF vars
<1>18. QED
  BY <1>1, <1>2, <1>3, <1>4, <1>5, <1>6, <1>7, <1>8, <1>9, <1>10, <1>11, <1>12, <1>13,
     <1>14, <1>15, <1>16, <1>17
     DEF Next, Maintain, Admin, Restore, Reconcile, RestoreReconcile

-----------------------------------------------------------------------------
(* The steps preserve the inductive invariant.                             *)

\* Quarantine revokes every held grant, nothing creates or renews one on a
\* quarantined node, and no status changes under a running reconciliation.
LEMMA QuarantineNext ==
  ASSUME IndInv, [Next]_vars
  PROVE  LockedInSync' /\ QuarantineRevokesAll'
<1>a. TypeOK /\ LockedInSync /\ QuarantineRevokesAll /\ grant \in [Devices -> Grants]
  BY DEF IndInv, TypeOK
<1>b. ~InSync <=> nodeStatus = "QUARANTINED"
  BY <1>a DEF TypeOK, NodeStatuses, InSync
<1> USE DEF LockedInSync, QuarantineRevokesAll, InSync, Held, NodeLocked
<1>1. ASSUME NEW s \in Subs, Subscribe(s) \/ MaterializeExpiry(s)
      PROVE LockedInSync' /\ QuarantineRevokesAll'
  BY <1>1, <1>a DEF Subscribe, MaterializeExpiry
<1>2. ASSUME NEW s \in Subs, ActivateTrial(s) PROVE LockedInSync' /\ QuarantineRevokesAll'
  <2>1. nodeStatus = "QUARANTINED" => RenewedDevices(UserOfSub[s]) = {}
    BY DEF RenewedDevices
  <2>2. QED
    BY <1>2, <2>1, <1>a DEF ActivateTrial
<1>3. ASSUME NEW s \in Subs, CancelSubscription(s) PROVE LockedInSync' /\ QuarantineRevokesAll'
  <2>1. nodeStatus = "QUARANTINED" => UserGrants(s) = {}
    BY <1>a DEF UserGrants
  <2>2. nodeStatus = "QUARANTINED" => grant' = grant
    BY <1>3, <2>1 DEF CancelSubscription
  <2>3. QED
    BY <1>3, <2>2, <1>a DEF CancelSubscription
<1>4. ASSUME NEW d \in Devices, IssueDevice(d) PROVE LockedInSync' /\ QuarantineRevokesAll'
  BY <1>4, <1>a DEF IssueDevice
<1>5. ASSUME NEW d \in Devices, RevokeDevice(d) PROVE LockedInSync' /\ QuarantineRevokesAll'
  BY <1>5, <1>a DEF RevokeDevice
<1>6. ASSUME NEW s \in Subs, ScheduleExpiry(s) PROVE LockedInSync' /\ QuarantineRevokesAll'
  BY <1>6, <1>a DEF ScheduleExpiry
<1>7. ASSUME NEW m \in BOOLEAN, BeginReconcile(m) PROVE LockedInSync' /\ QuarantineRevokesAll'
  BY <1>7, <1>a DEF BeginReconcile
<1>8. ASSUME EndReconcile PROVE LockedInSync' /\ QuarantineRevokesAll'
  BY <1>8, <1>a, <1>b DEF EndReconcile, NotReconciling
<1>9. CASE Drain \/ Disable
  BY <1>9, <1>a DEF Drain, Disable, ChangeStatus
<1>10. CASE Quarantine
  <2>1. \A d \in Devices : ~Held(d)'
    BY <1>10, <1>a DEF Quarantine, Quarantined, Revoked, Grants
  <2>2. ~NodeLocked'
    BY <1>10 DEF Quarantine, ChangeStatus
  <2>3. QED
    BY <2>1, <2>2
<1>11. CASE RestoreHealthy
  BY <1>11, <1>a DEF RestoreHealthy, ChangeStatus
<1>12. CASE PublishRoute \/ CloseRoute \/ Tick
  BY <1>12, <1>a DEF PublishRoute, CloseRoute, Tick
<1>13. ASSUME NEW v \in Versions, CompleteJob(v) \/ LoseJob(v) \/ Deliver(v)
       PROVE LockedInSync' /\ QuarantineRevokesAll'
  BY <1>13, <1>a DEF CompleteJob, LoseJob, Deliver
<1>14. ASSUME NEW a \in deliveries, Acknowledge(a) PROVE LockedInSync' /\ QuarantineRevokesAll'
  BY <1>14, <1>a DEF Acknowledge, Grants
<1>15. CASE UNCHANGED vars
  BY <1>15, <1>a DEF vars
<1>16. QED
  BY <1>1, <1>2, <1>3, <1>4, <1>5, <1>6, <1>7, <1>8, <1>9, <1>10, <1>11, <1>12, <1>13,
     <1>14, <1>15
     DEF Next, Maintain, Admin, Restore, Serve, Reconcile, RestoreReconcile

\* The part of the invariant that speaks of versions and snapshots.
SnapshotInv ==
  /\ VersionOrder
  /\ AppliedMeaning
  /\ ShownBySnapshots
  /\ RevokeConfirmedByNode
  /\ CredentialConfirmed

\* A control step takes a version no snapshot has carried: neither a snapshot
\* nor an acknowledgement says anything about what it moved.
LEMMA ControlKeeps ==
  ASSUME IndInv, TypeOK', ControlStep
  PROVE  SnapshotInv'
<1>a. /\ VersionOrder /\ AppliedMeaning /\ ShownBySnapshots
      /\ RevokeConfirmedByNode /\ CredentialConfirmed
  BY DEF IndInv
<1>b. /\ desired \in Nat /\ applied \in Nat /\ now \in Nat /\ now' \in Nat /\ route \in Nat
      /\ desired' \in Nat /\ NewVersion = desired + 1
      /\ \A d \in Devices : grant[d] \in Grants /\ grant'[d] \in Grants
      /\ \A a \in deliveries : a.version \in Nat
  BY NodeAccessAssumption DEF IndInv, TypeOK, NewVersion, Versions
<1>c. /\ UNCHANGED <<applied, deliveries, acks>>
      /\ desired' \in {desired, NewVersion} /\ now <= now'
  BY DEF ControlStep
<1>d. ASSUME NEW d \in Devices
      PROVE  \/ /\ grant'[d].desired = grant[d].desired /\ grant'[d].applied = grant[d].applied
                /\ grant'[d].until = grant[d].until
                /\ grant'[d].status = grant[d].status \/ (Held(d) /\ grant'[d].status = "ACTIVE")
             \/ /\ grant'[d].desired = desired + 1 /\ desired' = desired + 1
                /\ grant'[d].applied <= desired
  BY <1>b, <1>d DEF ControlStep, GrantKept, GrantMoved, Grants
<1>e. \A d \in Devices : /\ grant[d].desired \in Nat /\ grant[d].applied \in Nat
                         /\ grant[d].until \in Nat
                         /\ grant'[d].desired \in Nat /\ grant'[d].applied \in Nat
                         /\ grant'[d].until \in Nat
  BY <1>b DEF Grants
<1>1. VersionOrder'
  <2>1. \A d \in Devices : grant'[d].applied <= grant'[d].desired /\ grant'[d].desired <= desired'
    BY <1>a, <1>b, <1>c, <1>d, <1>e DEF VersionOrder
  <2>2. applied' <= desired' /\ route' <= desired'
    BY <1>a, <1>b, <1>c DEF VersionOrder, ControlStep
  <2>3. \A a \in deliveries' : a.version <= desired'
    BY <1>a, <1>b, <1>c DEF VersionOrder
  <2>4. QED
    BY <2>1, <2>2, <2>3 DEF VersionOrder
<1>2. AppliedMeaning'
  <2>1. \A d \in Devices : grant'[d].desired <= applied' => grant'[d].applied = grant'[d].desired
    BY <1>a, <1>b, <1>c, <1>d, <1>e DEF VersionOrder, AppliedMeaning
  <2>2. QED
    BY <1>a, <1>c, <2>1 DEF AppliedMeaning
<1>3. ShownBySnapshots'
  <2>1. ASSUME NEW a \in deliveries, NEW d \in Devices, a.version >= grant'[d].desired
        PROVE  /\ grant'[d].status = "REVOKED" => a.hash.grants[d].status = "REVOKED"
               /\ Held(d)' /\ grant'[d].until > now' => d \in a.hash.credentials
    <3>1. a.version <= desired
      BY <1>a DEF VersionOrder
    <3>2. /\ grant'[d].desired = grant[d].desired /\ grant'[d].until = grant[d].until
          /\ grant'[d].status = grant[d].status \/ (Held(d) /\ grant'[d].status = "ACTIVE")
      BY <2>1, <3>1, <1>b, <1>d, <1>e
    <3>3. QED
      BY <2>1, <3>2, <1>a, <1>b, <1>c, <1>e DEF ShownBySnapshots, Held
  <2>2. ASSUME NEW a \in deliveries, route' # 0, a.version >= route'
        PROVE  a.hash.route = route'
    <3>1. a.version <= desired
      BY <1>a DEF VersionOrder
    <3>2. route' = route
      BY <2>2, <3>1, <1>b DEF ControlStep
    <3>3. QED
      BY <2>2, <3>2, <1>a DEF ShownBySnapshots
  <2>3. QED
    BY <1>c, <2>1, <2>2 DEF ShownBySnapshots
<1>4. RevokeConfirmedByNode'
  <2>1. ASSUME NEW d \in Devices, grant'[d].status = "REVOKED",
               grant'[d].applied = grant'[d].desired
        PROVE  \E a \in acks : /\ a.version >= grant'[d].desired
                               /\ a.hash.grants[d].status = "REVOKED"
    <3>1. /\ grant'[d].desired = grant[d].desired /\ grant'[d].applied = grant[d].applied
          /\ grant[d].status = "REVOKED"
      BY <2>1, <1>b, <1>d, <1>e
    <3>2. QED
      BY <2>1, <3>1, <1>a DEF RevokeConfirmedByNode
  <2>2. QED
    BY <1>c, <2>1 DEF RevokeConfirmedByNode
<1>5. CredentialConfirmed'
  <2>1. ASSUME NEW d \in Devices, Held(d)', grant'[d].until > now',
               grant'[d].applied = grant'[d].desired
        PROVE  \E a \in acks : a.version >= grant'[d].desired /\ d \in a.hash.credentials
    <3>1. /\ grant'[d].desired = grant[d].desired /\ grant'[d].applied = grant[d].applied
          /\ grant'[d].until = grant[d].until /\ Held(d)
      BY <2>1, <1>b, <1>d, <1>e DEF Held
    <3>2. grant[d].until > now
      BY <2>1, <3>1, <1>b, <1>c, <1>e
    <3>3. QED
      BY <2>1, <3>1, <3>2, <1>a DEF CredentialConfirmed
  <2>2. QED
    BY <1>c, <2>1 DEF CredentialConfirmed
<1>6. QED
  BY <1>1, <1>2, <1>3, <1>4, <1>5 DEF SnapshotInv

\* snapshotInTransaction() adds a snapshot of the latest version, which shows
\* everything as it is.
LEMMA DeliverKeeps ==
  ASSUME IndInv, NEW v \in Versions, Deliver(v)
  PROVE  SnapshotInv'
<1> DEFINE new == [version |-> v, hash |-> Snapshot]
<1>a. /\ VersionOrder /\ AppliedMeaning /\ ShownBySnapshots
      /\ RevokeConfirmedByNode /\ CredentialConfirmed
  BY DEF IndInv
<1>b. desired \in Nat /\ v = desired /\ new.version = desired
  BY NodeAccessAssumption DEF IndInv, TypeOK, Deliver, PendingAck
<1>c. /\ UNCHANGED <<desired, applied, grant, route, acks, now>>
      /\ deliveries' = deliveries \cup {new}
  BY DEF Deliver
<1>d. /\ new.hash.route = route /\ new.hash.credentials = Eligible
      /\ new.hash.grants = grant
  BY DEF Snapshot
<1>1. VersionOrder'
  BY <1>a, <1>b, <1>c DEF VersionOrder
<1>2. AppliedMeaning'
  BY <1>a, <1>c DEF AppliedMeaning
<1>3. ShownBySnapshots'
  <2>1. \A d \in Devices :
          /\ grant[d].status = "REVOKED" => new.hash.grants[d].status = "REVOKED"
          /\ Held(d) /\ grant[d].until > now => d \in new.hash.credentials
    BY <1>d DEF Eligible
  <2>2. QED
    BY <2>1, <1>a, <1>c, <1>d DEF ShownBySnapshots, Held
<1>4. RevokeConfirmedByNode'
  BY <1>a, <1>c DEF RevokeConfirmedByNode
<1>5. CredentialConfirmed'
  BY <1>a, <1>c DEF CredentialConfirmed, Held
<1>6. QED
  BY <1>1, <1>2, <1>3, <1>4, <1>5 DEF SnapshotInv

\* An acknowledgement, late or repeated, confirms the grants whose version its
\* snapshot reached, and that snapshot has shown them as they still are.
LEMMA AcknowledgeKeeps ==
  ASSUME IndInv, NEW b \in deliveries, Acknowledge(b)
  PROVE  SnapshotInv'
<1>a. /\ VersionOrder /\ AppliedMeaning /\ ShownBySnapshots
      /\ RevokeConfirmedByNode /\ CredentialConfirmed
  BY DEF IndInv
<1>b. /\ desired \in Nat /\ applied \in Nat /\ b.version \in Nat
      /\ \A d \in Devices : grant[d] \in Grants
  BY NodeAccessAssumption DEF IndInv, TypeOK, Versions
<1>c. /\ UNCHANGED <<desired, route, deliveries, now>>
      /\ acks' = acks \cup {b}
      /\ applied' = IF b.version > applied THEN b.version ELSE applied
  BY DEF Acknowledge
<1>d. ASSUME NEW d \in Devices
      PROVE  /\ grant'[d].desired = grant[d].desired /\ grant'[d].until = grant[d].until
             /\ grant'[d].status = grant[d].status
                  \/ (grant[d].status = "PENDING" /\ grant'[d].status = "ACTIVE")
             /\ \/ grant'[d].applied = grant[d].applied /\ ~ConfirmedBy(d, b.version)
                \/ grant'[d].applied = grant[d].desired /\ ConfirmedBy(d, b.version)
  BY <1>b, <1>d DEF Acknowledge, Grants
<1>e. \A d \in Devices : grant[d].desired \in Nat /\ grant[d].applied \in Nat
  BY <1>b DEF Grants
<1>1. VersionOrder'
  <2>1. applied' <= desired'
    BY <1>a, <1>b, <1>c DEF VersionOrder
  <2>2. \A d \in Devices : grant'[d].applied <= grant'[d].desired /\ grant'[d].desired <= desired'
    BY <1>a, <1>c, <1>d, <1>e DEF VersionOrder
  <2>3. QED
    BY <2>1, <2>2, <1>a, <1>c DEF VersionOrder
<1>2. AppliedMeaning'
  <2>1. ASSUME NEW d \in Devices, grant'[d].desired <= applied'
        PROVE  grant'[d].applied = grant'[d].desired
    <3>1. CASE grant[d].desired <= b.version
      BY <3>1, <1>a, <1>b, <1>d, <1>e DEF ConfirmedBy, VersionOrder
    <3>2. CASE ~(grant[d].desired <= b.version)
      BY <2>1, <3>2, <1>a, <1>b, <1>c, <1>d, <1>e DEF ConfirmedBy, AppliedMeaning
    <3>3. QED
      BY <3>1, <3>2
  <2>2. applied' = 0 \/ \E a \in acks' : a.version = applied'
    BY <1>a, <1>b, <1>c DEF AppliedMeaning
  <2>3. acks' \subseteq deliveries'
    BY <1>a, <1>c DEF AppliedMeaning
  <2>4. QED
    BY <2>1, <2>2, <2>3 DEF AppliedMeaning
<1>3. ShownBySnapshots'
  <2>1. \A d \in Devices : /\ grant'[d].status = "REVOKED" => grant[d].status = "REVOKED"
                           /\ Held(d)' => Held(d)
    BY <1>d DEF Held
  <2>2. QED
    BY <2>1, <1>a, <1>c, <1>d DEF ShownBySnapshots
<1>4. RevokeConfirmedByNode'
  <2>1. ASSUME NEW d \in Devices, grant'[d].status = "REVOKED",
               grant'[d].applied = grant'[d].desired
        PROVE  \E a \in acks' : /\ a.version >= grant'[d].desired
                                /\ a.hash.grants[d].status = "REVOKED"
    <3>1. grant[d].status = "REVOKED" /\ grant'[d].desired = grant[d].desired
      BY <2>1, <1>d
    <3>2. CASE ConfirmedBy(d, b.version)
      <4>1. b.version >= grant[d].desired
        BY <3>2, <1>b, <1>e DEF ConfirmedBy
      <4>2. b.hash.grants[d].status = "REVOKED"
        BY <3>1, <4>1, <1>a DEF ShownBySnapshots
      <4>3. QED
        BY <3>1, <4>1, <4>2, <1>c
    <3>3. CASE ~ConfirmedBy(d, b.version)
      <4>1. grant[d].applied = grant[d].desired
        BY <2>1, <3>1, <3>3, <1>d
      <4>2. QED
        BY <3>1, <4>1, <1>a, <1>c DEF RevokeConfirmedByNode
    <3>4. QED
      BY <3>2, <3>3
  <2>2. QED
    BY <2>1 DEF RevokeConfirmedByNode
<1>5. CredentialConfirmed'
  <2>1. ASSUME NEW d \in Devices, Held(d)', grant'[d].until > now',
               grant'[d].applied = grant'[d].desired
        PROVE  \E a \in acks' : a.version >= grant'[d].desired /\ d \in a.hash.credentials
    <3>1. Held(d) /\ grant'[d].desired = grant[d].desired /\ grant[d].until > now
      BY <2>1, <1>c, <1>d DEF Held
    <3>2. CASE ConfirmedBy(d, b.version)
      <4>1. b.version >= grant[d].desired
        BY <3>2, <1>b, <1>e DEF ConfirmedBy
      <4>2. d \in b.hash.credentials
        BY <3>1, <4>1, <1>a DEF ShownBySnapshots
      <4>3. QED
        BY <3>1, <4>1, <4>2, <1>c
    <3>3. CASE ~ConfirmedBy(d, b.version)
      <4>1. grant[d].applied = grant[d].desired
        BY <2>1, <3>1, <3>3, <1>d
      <4>2. QED
        BY <3>1, <4>1, <1>a, <1>c DEF CredentialConfirmed
    <3>4. QED
      BY <3>2, <3>3
  <2>2. QED
    BY <2>1 DEF CredentialConfirmed
<1>6. QED
  BY <1>1, <1>2, <1>3, <1>4, <1>5 DEF SnapshotInv

\* The empty control plane satisfies the inductive invariant.
LEMMA IndInit == Init => IndInv
<1> SUFFICES ASSUME Init PROVE IndInv
  OBVIOUS
<1>1. TypeOK
  BY TypeInit
<1>2. /\ desired = 0 /\ applied = 0 /\ route = 0 /\ deliveries = {} /\ acks = {}
      /\ nodeStatus = "HEALTHY"
      /\ \A d \in Devices : /\ grant[d].status = "NONE"
                             /\ grant[d].applied = 0 /\ grant[d].desired = 0
  BY DEF Init, NoGrant
<1>3. VersionOrder /\ AppliedMeaning
  BY <1>2 DEF VersionOrder, AppliedMeaning
<1>4. LockedInSync /\ QuarantineRevokesAll
  BY <1>2 DEF LockedInSync, QuarantineRevokesAll, InSync
<1>5. ShownBySnapshots /\ RevokeConfirmedByNode /\ CredentialConfirmed
  BY <1>2 DEF ShownBySnapshots, RevokeConfirmedByNode, CredentialConfirmed, Held
<1>6. QED
  BY <1>1, <1>3, <1>4, <1>5 DEF IndInv

\* Every step of the control plane preserves the inductive invariant.
LEMMA IndNext == IndInv /\ [Next]_vars => IndInv'
<1> SUFFICES ASSUME IndInv, [Next]_vars PROVE IndInv'
  OBVIOUS
<1>1. TypeOK'
  BY TypeNext DEF IndInv
<1>2. LockedInSync' /\ QuarantineRevokesAll'
  BY QuarantineNext
<1>3. SnapshotInv'
  <2>1. CASE ~Serve
    BY <2>1, <1>1, ControlSteps, ControlKeeps
  <2>2. CASE Serve
    BY <2>2, DeliverKeeps, AcknowledgeKeeps DEF Serve
  <2>3. QED
    BY <2>1, <2>2
<1>4. QED
  BY <1>1, <1>2, <1>3 DEF IndInv, SnapshotInv

-----------------------------------------------------------------------------
(* The theorems.                                                           *)

\* No late, repeated or out-of-order acknowledgement marks a revoke as applied
\* that the node has not seen.
THEOREM RevokeConfirmedByNodeHolds == Spec => []RevokeConfirmedByNode
<1>1. IndInv => RevokeConfirmedByNode
  BY DEF IndInv
<1>2. QED
  BY <1>1, IndInit, IndNext, PTL DEF Spec

\* The route selection never offers a device a node that has not acknowledged
\* its credential and the very activation of the route.
THEOREM FeedConfirmedByNodeHolds == Spec => []FeedConfirmedByNode
<1>1. IndInv => FeedConfirmedByNode
  <2> SUFFICES ASSUME IndInv, NEW d \in Devices, InFeed(d)
               PROVE  /\ \E a \in acks : a.version >= grant[d].desired /\ d \in a.hash.credentials
                      /\ \E a \in acks : a.version >= route /\ a.hash.route = route
    BY DEF FeedConfirmedByNode
  <2>1. \E a \in acks : a.version >= grant[d].desired /\ d \in a.hash.credentials
    BY DEF IndInv, CredentialConfirmed, InFeed, Held
  <2>2. route # 0 /\ route <= applied /\ route \in Nat /\ applied \in Nat
    BY NodeAccessAssumption DEF IndInv, TypeOK, InFeed
  <2>3. PICK a \in acks : a.version = applied
    BY <2>2 DEF IndInv, AppliedMeaning
  <2>4. a \in deliveries /\ a.version >= route
    BY <2>2, <2>3 DEF IndInv, AppliedMeaning
  <2>5. a.hash.route = route
    BY <2>2, <2>4 DEF IndInv, ShownBySnapshots
  <2>6. QED
    BY <2>1, <2>4, <2>5
<1>2. QED
  BY <1>1, IndInit, IndNext, PTL DEF Spec

\* A quarantined node holds no grant it could serve, also against the
\* reconciliation and the issuance that race with quarantine().
THEOREM QuarantineRevokesAllHolds == Spec => []QuarantineRevokesAll
<1>1. IndInv => QuarantineRevokesAll
  BY DEF IndInv
<1>2. QED
  BY <1>1, IndInit, IndNext, PTL DEF Spec

\* The trigger on the return to HEALTHY is enough: it compares two counters
\* of the node, and no grant is unconfirmed when they agree.
THEOREM RestoredConvergedHolds == Spec => RestoredConverged
<1> DEFINE Converged == \A d \in Devices : grant[d].applied = grant[d].desired
           Return == nodeStatus # "HEALTHY" /\ nodeStatus' = "HEALTHY"
<1>1. IndInv /\ [Next]_vars => [Return => Converged]_vars
  <2> SUFFICES ASSUME IndInv, Next, Return PROVE Converged
    OBVIOUS
  <2>1. RestoreHealthy
    BY DEF Next, Maintain, Admin, Restore, Serve, Reconcile, RestoreReconcile,
           Subscribe, ActivateTrial, CancelSubscription, IssueDevice, RevokeDevice,
           ScheduleExpiry, MaterializeExpiry, BeginReconcile, EndReconcile,
           Drain, Disable, Quarantine, ChangeStatus, PublishRoute, CloseRoute,
           CompleteJob, LoseJob, Deliver, Acknowledge, Tick
  <2>2. MayServe
    BY <2>1 DEF RestoreHealthy
  <2>3. \A d \in Devices : grant[d].desired <= applied
    BY <2>2, NodeAccessAssumption DEF MayServe, IndInv, TypeOK, VersionOrder, Grants
  <2>4. QED
    BY <2>3 DEF IndInv, AppliedMeaning
<1>2. QED
  BY <1>1, IndInit, IndNext, PTL DEF Spec, RestoredConverged

-----------------------------------------------------------------------------
(* The term of a trial.  Reconciliation reads the terms without locking the *)
(* subscriptions, so its read may be out of date when it writes.  That no   *)
(* trial is undone by it rests on the Node row: a trial that renews a grant *)
(* waits for the row, so a grant with the trial's term was read with it.    *)

\* A user has one ACTIVE subscription.
OneActive ==
  \A s, t \in Subs :
    UserOfSub[s] = UserOfSub[t] /\ sub[s] = "ACTIVE" /\ sub[t] = "ACTIVE" => s = t

\* A running reconciliation expects the term of the trial for a grant that
\* carries it, or does not look at the grant.
TrialRead ==
  NodeLocked => \A d \in Devices, s \in Trials :
                  HoldsTrial(d, s) => reconciling.expected[d] \in {0, Term[s]}

\* ... and does not look at a held grant of a device that is gone.
GoneUnread ==
  NodeLocked => \A d \in Devices :
                  Held(d) /\ device[d] # "ACTIVE" => reconciling.expected[d] = 0

TrialInv == TypeOK /\ LockedInSync /\ OneActive /\ TrialRead /\ GoneUnread

\* findEffectiveExpiry() yields the term of the subscription that runs.
LEMMA EntitledByOne ==
  ASSUME OneActive, NEW s \in Subs, sub[s] = "ACTIVE", Term[s] > now
  PROVE  EntitledUntil(UserOfSub[s]) = Term[s]
<1> DEFINE S == {t \in Subs : UserOfSub[t] = UserOfSub[s] /\ sub[t] = "ACTIVE" /\ Term[t] > now}
<1>1. s \in S
  OBVIOUS
<1>2. (CHOOSE t \in S : TRUE) \in S
  BY <1>1
<1>3. (CHOOSE t \in S : TRUE) = s
  BY <1>2 DEF OneActive
<1>4. QED
  BY <1>1, <1>3 DEF EntitledUntil

\* Nobody writes a grant while a reconciliation holds the Node row, and what
\* it has read stays.
LEMMA LockKeepsGrants ==
  ASSUME TypeOK, LockedInSync, NodeLocked, [Next]_vars, ~EndReconcile
  PROVE  grant' = grant /\ reconciling' = reconciling
<1>1. ASSUME NEW s \in Subs, ActivateTrial(s) PROVE grant' = grant /\ reconciling' = reconciling
  <2>1. RenewedDevices(UserOfSub[s]) = {}
    BY <1>1 DEF ActivateTrial, TrialLocksNode, RenewedDevices
  <2>2. QED
    BY <1>1, <2>1 DEF ActivateTrial, TypeOK
<1>2. ASSUME NEW s \in Subs, CancelSubscription(s) PROVE grant' = grant /\ reconciling' = reconciling
  BY <1>2 DEF CancelSubscription
<1>3. ASSUME NEW d \in Devices, IssueDevice(d) \/ RevokeDevice(d)
      PROVE grant' = grant /\ reconciling' = reconciling
  BY <1>3 DEF IssueDevice, RevokeDevice
<1>4. QED
  BY <1>1, <1>2, <1>3
     DEF Next, vars, Maintain, Admin, Restore, Serve, Reconcile, RestoreReconcile, BeginReconcile,
         ScheduleExpiry, Subscribe, MaterializeExpiry, Drain, Disable, Quarantine, ChangeStatus,
         RestoreHealthy, PublishRoute, CloseRoute, CompleteJob, LoseJob, Deliver, Acknowledge, Tick

\* Only an insertion and a trial make a subscription ACTIVE.
LEMMA SubSteps ==
  ASSUME TypeOK, [Next]_vars, NEW s \in Subs, sub'[s] = "ACTIVE"
  PROVE  sub[s] = "ACTIVE" \/ Subscribe(s) \/ ActivateTrial(s)
<1>1. ASSUME NEW t \in Subs, Subscribe(t) \/ MaterializeExpiry(t) \/ CancelSubscription(t)
      PROVE  sub[s] = "ACTIVE" \/ Subscribe(s)
  BY <1>1 DEF Subscribe, MaterializeExpiry, CancelSubscription, TypeOK
<1>2. ASSUME NEW t \in Subs, ActivateTrial(t) PROVE sub[s] = "ACTIVE" \/ ActivateTrial(s)
  <2>1. sub'[s] = IF s = t THEN "ACTIVE"
                  ELSE IF UserOfSub[s] = UserOfSub[t] /\ sub[s] = "ACTIVE" THEN "EXPIRED" ELSE sub[s]
    BY <1>2 DEF ActivateTrial
  <2>2. QED
    BY <1>2, <2>1
<1>3. CASE UNCHANGED sub
  BY <1>3
<1>4. QED
  BY <1>1, <1>2, <1>3
     DEF Next, vars, Maintain, Admin, Restore, Serve, Reconcile, RestoreReconcile, BeginReconcile,
         EndReconcile, ScheduleExpiry, IssueDevice, RevokeDevice, Drain, Disable, Quarantine,
         RestoreHealthy, PublishRoute, CloseRoute, CompleteJob, LoseJob, Deliver, Acknowledge, Tick

\* Only revoke() takes a device out of ACTIVE.
LEMMA DeviceSteps ==
  ASSUME TypeOK, [Next]_vars, NEW d \in Devices, device'[d] # "ACTIVE"
  PROVE  device[d] # "ACTIVE" \/ RevokeDevice(d)
<1>1. ASSUME NEW e \in Devices, IssueDevice(e) \/ RevokeDevice(e)
      PROVE  device[d] # "ACTIVE" \/ RevokeDevice(d)
  BY <1>1 DEF IssueDevice, RevokeDevice, TypeOK
<1>2. CASE UNCHANGED device
  BY <1>2
<1>3. QED
  BY <1>1, <1>2
     DEF Next, vars, Maintain, Admin, Restore, Serve, Reconcile, RestoreReconcile, BeginReconcile,
         EndReconcile, ScheduleExpiry, MaterializeExpiry, Subscribe, ActivateTrial,
         CancelSubscription, Drain, Disable, Quarantine,
         RestoreHealthy, PublishRoute, CloseRoute, CompleteJob, LoseJob, Deliver, Acknowledge, Tick

\* The clock does not run back.
LEMMA ClockSteps ==
  ASSUME TypeOK, [Next]_vars
  PROVE  now \in Nat /\ now' \in Nat /\ now <= now'
<1>1. now \in Nat
  BY NodeAccessAssumption DEF TypeOK
<1>2. CASE Tick
  BY <1>1, <1>2 DEF Tick
<1>3. CASE UNCHANGED now
  BY <1>1, <1>3
<1>4. QED
  BY <1>2, <1>3
     DEF Next, vars, Maintain, Admin, Restore, Serve, Reconcile, RestoreReconcile, BeginReconcile,
         EndReconcile, ScheduleExpiry, MaterializeExpiry, Subscribe, ActivateTrial, IssueDevice,
         CancelSubscription, RevokeDevice, Drain, Disable, Quarantine,
         RestoreHealthy, PublishRoute, CloseRoute, CompleteJob, LoseJob, Deliver, Acknowledge

\* A lock is there before the step, or the step is the one that takes it.
LEMMA LockSteps ==
  ASSUME [Next]_vars, NodeLocked'
  PROVE  \/ NodeLocked /\ ~EndReconcile
         \/ \E m \in BOOLEAN : BeginReconcile(m)
<1>1. ~EndReconcile
  <2>1. NotReconciling.active = FALSE
    BY DEF NotReconciling
  <2>2. EndReconcile => reconciling' = NotReconciling
    BY DEF EndReconcile
  <2>3. EndReconcile => ~NodeLocked'
    BY <2>1, <2>2 DEF NodeLocked
  <2>4. QED
    BY <2>3
<1>2. CASE UNCHANGED reconciling
  BY <1>1, <1>2 DEF NodeLocked
<1>3. QED
  BY <1>1, <1>2
     DEF Next, vars, Maintain, Admin, Restore, Serve, Reconcile, RestoreReconcile,
         ScheduleExpiry, MaterializeExpiry, Subscribe, ActivateTrial,
         IssueDevice, CancelSubscription, RevokeDevice, Drain, Disable, Quarantine,
         RestoreHealthy, PublishRoute, CloseRoute, CompleteJob, LoseJob, Deliver, Acknowledge, Tick

\* The unique index, and a trial that first ends what has lapsed, leave a user
\* one ACTIVE subscription.
LEMMA OneActiveNext ==
  ASSUME TypeOK, OneActive, [Next]_vars
  PROVE  OneActive'
<1> SUFFICES ASSUME NEW s \in Subs, NEW t \in Subs, UserOfSub[s] = UserOfSub[t],
                    sub'[s] = "ACTIVE", sub'[t] = "ACTIVE", s # t
             PROVE  FALSE
  BY DEF OneActive
<1>1. ASSUME NEW a \in Subs, NEW b \in Subs, UserOfSub[a] = UserOfSub[b], a # b,
             sub'[a] = "ACTIVE", sub'[b] = "ACTIVE", sub[b] = "ACTIVE"
      PROVE  ~Subscribe(a) /\ ~ActivateTrial(a)
  <2>1. ~Subscribe(a)
    BY <1>1 DEF Subscribe
  <2>2. ~ActivateTrial(a)
    BY <1>1 DEF ActivateTrial
  <2>3. QED
    BY <2>1, <2>2
<1>2. ASSUME NEW a \in Subs, NEW b \in Subs, UserOfSub[a] = UserOfSub[b], a # b,
             sub'[b] = "ACTIVE", sub[b] # "ACTIVE"
      PROVE  ~Subscribe(a) /\ ~ActivateTrial(a)
  <2>1. ~Subscribe(a)
    BY <1>2 DEF Subscribe, TypeOK
  <2>2. ~ActivateTrial(a)
    BY <1>2 DEF ActivateTrial
  <2>3. QED
    BY <2>1, <2>2
<1>3. /\ sub[s] = "ACTIVE" \/ Subscribe(s) \/ ActivateTrial(s)
      /\ sub[t] = "ACTIVE" \/ Subscribe(t) \/ ActivateTrial(t)
  BY SubSteps
<1>4. QED
  BY <1>1, <1>2, <1>3 DEF OneActive

\* Reading a term and being given one do not overtake each other.
LEMMA TrialReadNext ==
  ASSUME TrialInv, [Next]_vars
  PROVE  TrialRead' /\ GoneUnread'
<1>a. TypeOK /\ LockedInSync /\ OneActive /\ TrialRead /\ GoneUnread /\ Trials \subseteq Subs
  BY NodeAccessAssumption DEF TrialInv
<1> SUFFICES ASSUME NodeLocked' PROVE TrialRead' /\ GoneUnread'
  BY DEF TrialRead, GoneUnread
<1>1. CASE \E m \in BOOLEAN : BeginReconcile(m)
  <2>1. /\ UNCHANGED <<device, sub, grant, now>>
        /\ \A d \in Devices : reconciling'.expected[d] =
             IF device[d] = "ACTIVE" THEN EntitledUntil(UserOfDevice[d]) ELSE 0
    BY <1>1 DEF BeginReconcile, ExpectedDevices
  <2>2. ASSUME NEW d \in Devices, NEW s \in Trials, HoldsTrial(d, s)'
        PROVE  reconciling'.expected[d] \in {0, Term[s]}
    <3>1. s \in Subs /\ UserOfDevice[d] = UserOfSub[s] /\ sub[s] = "ACTIVE" /\ Term[s] > now
      BY <1>a, <2>1, <2>2 DEF HoldsTrial
    <3>2. EntitledUntil(UserOfDevice[d]) = Term[s]
      BY <1>a, <3>1, EntitledByOne
    <3>3. QED
      BY <2>1, <3>2
  <2>3. ASSUME NEW d \in Devices, device'[d] # "ACTIVE" PROVE reconciling'.expected[d] = 0
    BY <2>1, <2>3
  <2>4. QED
    BY <2>2, <2>3 DEF TrialRead, GoneUnread
<1>2. CASE NodeLocked /\ ~EndReconcile
  <2>1. grant' = grant /\ reconciling' = reconciling
    BY <1>a, <1>2, LockKeepsGrants
  <2>2. ASSUME NEW d \in Devices, NEW s \in Trials, HoldsTrial(d, s)'
        PROVE  reconciling.expected[d] \in {0, Term[s]}
    <3>1. /\ s \in Subs /\ UserOfDevice[d] = UserOfSub[s] /\ sub'[s] = "ACTIVE" /\ Term[s] > now'
          /\ Held(d) /\ grant[d].until = Term[s]
      BY <1>a, <2>1, <2>2 DEF HoldsTrial, Held
    <3>2. Term[s] > now
      BY <1>a, <3>1, ClockSteps, NodeAccessAssumption
    <3>3. CASE sub[s] = "ACTIVE"
      BY <1>a, <1>2, <3>1, <3>2, <3>3 DEF HoldsTrial, TrialRead
    <3>4. CASE ActivateTrial(s)
      <4>1. ~TrialLocksNode(UserOfSub[s])
        BY <1>2, <3>4 DEF ActivateTrial
      <4>2. device[d] # "ACTIVE"
        BY <1>a, <1>2, <3>1, <4>1 DEF TrialLocksNode, LockedInSync
      <4>3. QED
        BY <1>a, <1>2, <3>1, <4>2 DEF GoneUnread
    <3>5. ~Subscribe(s)
      BY DEF Subscribe
    <3>6. QED
      BY <1>a, <3>1, <3>3, <3>4, <3>5, SubSteps
  <2>3. ASSUME NEW d \in Devices, Held(d)', device'[d] # "ACTIVE"
        PROVE  reconciling.expected[d] = 0
    <3>1. Held(d)
      BY <2>1, <2>3 DEF Held
    <3>2. ~RevokeDevice(d)
      BY <1>2, <3>1 DEF RevokeDevice
    <3>3. device[d] # "ACTIVE"
      BY <1>a, <2>3, <3>2, DeviceSteps
    <3>4. QED
      BY <1>a, <1>2, <3>1, <3>3 DEF GoneUnread
  <2>4. QED
    BY <2>1, <2>2, <2>3 DEF TrialRead, GoneUnread
<1>3. QED
  BY <1>1, <1>2, LockSteps

\* Neither the late expiry of the subscription a trial replaced nor a
\* reconciliation that read the terms before it changes the term the trial
\* gave, in whatever order they run.
THEOREM RenewalNotCutShortHolds == Spec => RenewalNotCutShort
<1> DEFINE TermKept == \A d \in Devices, s \in Trials :
                         HoldsTrial(d, s) /\ Held(d)' => grant'[d].until = Term[s]
<1>1. Init => OneActive /\ TrialRead /\ GoneUnread
  BY DEF Init, OneActive, TrialRead, GoneUnread, NodeLocked, NotReconciling
<1>2. IndInv /\ OneActive /\ TrialRead /\ GoneUnread /\ [Next]_vars
        => (OneActive /\ TrialRead /\ GoneUnread)'
  BY OneActiveNext, TrialReadNext DEF IndInv, TrialInv
<1>3. IndInv /\ OneActive /\ TrialRead /\ GoneUnread /\ [Next]_vars => [TermKept]_vars
  <2> SUFFICES ASSUME TypeOK, OneActive, TrialRead, Next,
                      NEW d \in Devices, NEW s \in Trials, HoldsTrial(d, s), Held(d)'
               PROVE  grant'[d].until = Term[s]
    BY DEF IndInv
  <2>a. grant \in [Devices -> Grants] /\ grant[d] \in Grants
    BY DEF TypeOK
  <2>b. /\ s \in Subs /\ UserOfDevice[d] = UserOfSub[s] /\ sub[s] = "ACTIVE" /\ Term[s] > now
        /\ Held(d) /\ grant[d].until = Term[s]
    BY NodeAccessAssumption DEF HoldsTrial
  <2>c. EntitledUntil(UserOfDevice[d]) = Term[s] /\ Term[s] > 0
    BY <2>b, EntitledByOne, NodeAccessAssumption
  <2>1. ASSUME NEW t \in Subs, ActivateTrial(t) PROVE grant'[d].until = Term[s]
    <3>1. d \notin RenewedDevices(UserOfSub[t])
      BY <2>1, <2>c DEF ActivateTrial, RenewedDevices
    <3>2. QED
      BY <2>1, <2>b, <3>1 DEF ActivateTrial
  <2>2. ASSUME NEW t \in Subs, CancelSubscription(t) PROVE grant'[d].until = Term[s]
    <3>1. grant'[d] \in {grant[d], Revoked(grant[d]), [grant[d] EXCEPT !.status = "REVOKED"]}
      BY <2>2 DEF CancelSubscription
    <3>2. QED
      BY <3>1, <2>a, <2>b DEF Revoked, Grants
  <2>3. ASSUME NEW e \in Devices, IssueDevice(e) PROVE grant'[d].until = Term[s]
    BY <2>3, <2>a, <2>b, <2>c DEF IssueDevice, NewGrant
  <2>4. ASSUME NEW e \in Devices, RevokeDevice(e) PROVE grant'[d].until = Term[s]
    <3>1. grant'[d] \in {grant[d], Revoked(grant[d]), [grant[d] EXCEPT !.status = "REVOKED"]}
      BY <2>4, <2>a DEF RevokeDevice
    <3>2. QED
      BY <3>1, <2>a, <2>b DEF Revoked, Grants
  <2>5. ASSUME NEW t \in Subs, ScheduleExpiry(t) PROVE grant'[d].until = Term[s]
    <3>1. CASE d \notin UserGrants(t)
      BY <2>5, <2>b, <3>1 DEF ScheduleExpiry
    <3>2. CASE d \in UserGrants(t)
      <4>1. UserOfDevice[d] = UserOfSub[t] /\ grant'[d].until = ExpiryTerm(t)
        BY <2>5, <3>2, <2>a DEF ScheduleExpiry, UserGrants, Grants
      <4>2. QED
        BY <4>1, <2>c DEF ExpiryTerm
    <3>3. QED
      BY <3>1, <3>2
  <2>6. ASSUME EndReconcile PROVE grant'[d].until = Term[s]
    <3> DEFINE expected == reconciling.expected
               send == NetworkChanges(expected, reconciling.missing)
    <3>1. grant'[d] = Reconciled(d, expected, send) /\ NodeLocked
      BY <2>6 DEF EndReconcile
    <3>2. expected[d] \in {0, Term[s]}
      BY <3>1 DEF TrialRead
    <3>3. CASE d \notin send
      BY <3>1, <3>3, <2>a, <2>b DEF Reconciled, Grants
    <3>4. CASE d \in send
      <4>1. Stale(d, expected)
        BY <3>4, <2>b DEF NetworkChanges, Missing, LostRevoke, Held
      <4>2. expected[d] = Term[s]
        BY <3>2, <4>1 DEF Stale
      <4>3. QED
        BY <3>1, <3>4, <4>2, <2>a, <2>b DEF Reconciled, Held, Grants
    <3>5. QED
      BY <3>3, <3>4
  <2>7. CASE Quarantine
    BY <2>7, <2>a, <2>b DEF Quarantine, Revoked, Grants
  <2>8. ASSUME NEW a \in deliveries, Acknowledge(a) PROVE grant'[d].until = Term[s]
    BY <2>8, <2>a, <2>b DEF Acknowledge, Grants
  <2>9. CASE UNCHANGED grant
    BY <2>9, <2>b
  <2>10. QED
    BY <2>1, <2>2, <2>3, <2>4, <2>5, <2>6, <2>7, <2>8, <2>9
       DEF Next, Maintain, Admin, Restore, Serve, Reconcile, RestoreReconcile,
           Subscribe, MaterializeExpiry, BeginReconcile, Drain, Disable, RestoreHealthy,
           PublishRoute, CloseRoute, CompleteJob, LoseJob, Deliver, Tick
<1>4. QED
  BY <1>1, <1>2, <1>3, IndInit, IndNext, PTL DEF Spec, RenewalNotCutShort
=============================================================================
