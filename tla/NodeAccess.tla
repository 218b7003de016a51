----------------------------- MODULE NodeAccess -----------------------------
(***************************************************************************)
(* The control plane's view of one VPN node: who may use it (subscriptions,*)
(* devices, NodeAccessGrant rows), which configuration version the node is *)
(* asked for and which it has confirmed, and every transaction that moves  *)
(* them.  Sources: apps/api/src/orchestration, apps/api/src/cabinet,       *)
(* apps/api/src/node-agent and                                             *)
(* packages/orchestration-store/src/subscription-access-store.ts.          *)
(*                                                                         *)
(* A transaction that writes grants locks the Node row, so it is one       *)
(* action, except reconcileOneNode: it reads devices and subscriptions     *)
(* without locking them, and those may change before it writes.  What      *)
(* Outbox and NodeSync do with a NodeSyncJob is here only its outcome:     *)
(* SUCCEEDED, FAILED, or "LOST" when the outbox row is FAILED and the job  *)
(* still PENDING.                                                          *)
(***************************************************************************)
EXTENDS Integers, FiniteSets

CONSTANTS
  Devices, Subs,      \* Device rows and Subscription rows
  UserOfDevice,       \* UserOfDevice[d], UserOfSub[s]: the owning user
  UserOfSub,
  Trials,             \* the subscriptions trial activations create
  Term,               \* Term[s]: expiresAt of subscription s
  MaxVersion,         \* bound: configuration versions
  MaxNow,             \* bound: clock ticks
  MaxRoutes,          \* bound: route publications
  MaxFailures         \* bound: node-sync operations that fail or get lost

ASSUME NodeAccessAssumption ==
  /\ DOMAIN UserOfDevice = Devices
  /\ DOMAIN UserOfSub = Subs
  /\ Trials \subseteq Subs  \* TrialActivation.userId is unique:
  /\ \A s, t \in Trials : UserOfSub[s] = UserOfSub[t] => s = t
  /\ Term \in [Subs -> Nat \ {0}]
  /\ MaxVersion \in Nat /\ MaxNow \in Nat
  /\ MaxRoutes \in Nat /\ MaxFailures \in Nat

VARIABLES
  nodeStatus, desired, applied,  \* Node: status, desired/appliedConfigVersion
  device, sub, grant,            \* Device, Subscription, NodeAccessGrant rows
  job,          \* job[v]: the NodeSyncJob of target version v
  routeJobs,    \* versions whose job is a route command
  route,        \* activationVersion of the route, 0 for NULL
  expiryOps,    \* subscriptions whose subscription-expiry operation exists
  deliveries,   \* NodeConfigDelivery rows: [version, hash]
  acks,         \* NodeConfigAcknowledgement rows: [version, hash]
  reconciling,  \* a running reconcileOneNode: what it read, under the Node lock
  restoring,    \* restoreNodeToHealthy is between its two transactions
  now,          \* clock_timestamp()
  failures

vars == <<nodeStatus, desired, applied, device, sub, grant, job, routeJobs, route,
          expiryOps, deliveries, acks, reconciling, restoring, now, failures>>

Versions     == 1..MaxVersion
NodeStatuses == {"HEALTHY", "DRAINING", "DISABLED", "QUARANTINED"}
GrantStatus  == {"NONE", "PENDING", "ACTIVE", "REVOKED"}
Grants == [status : GrantStatus, until : Nat, desired : Nat, applied : Nat]
NoGrant == [status |-> "NONE", until |-> 0, desired |-> 0, applied |-> 0]

\* isNodeInAccessControlSync: nodes that get access-control commands.
InSync == nodeStatus \in {"HEALTHY", "DRAINING", "DISABLED"}
Held(d) == grant[d].status \in {"PENDING", "ACTIVE"}

\* The Node row is locked by a running reconciliation: every transaction
\* that locks the row waits.
NodeLocked == reconciling.active

\* The term of the user's ACTIVE, unexpired subscription, 0 if there is none.
EntitledUntil(u) ==
  LET S == {s \in Subs : UserOfSub[s] = u /\ sub[s] = "ACTIVE" /\ Term[s] > now}
  IN IF S = {} THEN 0 ELSE Term[CHOOSE s \in S : TRUE]

\* desiredConfigVersion + 1 with its NodeSyncJob and OutboxEvent.
NewVersion == desired + 1
Bump ==
  /\ desired < MaxVersion
  /\ desired' = NewVersion
  /\ job' = [job EXCEPT ![NewVersion] = "PENDING"]

NewGrant(until) ==
  [status |-> "PENDING", until |-> until, desired |-> NewVersion, applied |-> 0]

\* Mutant: the status of the subscription is written to the grant.
RevokedMisnamed(g) == [g EXCEPT !.status = "CANCELLED", !.desired = NewVersion]

Revoked(g) == [g EXCEPT !.status = "REVOKED", !.desired = NewVersion]

-----------------------------------------------------------------------------
(* Users: subscriptions and devices.                                       *)

\* A subscription from elsewhere (the harness, a payment) is inserted; the
\* unique index allows one ACTIVE row per user.
Subscribe(s) ==
  /\ s \notin Trials
  /\ sub[s] = "NONE" /\ Term[s] > now
  /\ \A t \in Subs : UserOfSub[t] = UserOfSub[s] => sub[t] # "ACTIVE"
  /\ sub' = [sub EXCEPT ![s] = "ACTIVE"]
  /\ UNCHANGED <<nodeStatus, desired, applied, device, grant, job, routeJobs, route,
                 expiryOps, deliveries, acks, reconciling, restoring, now, failures>>

\* scheduleExistingDeviceAccess: the devices a trial renews on the node.
RenewedDevices(u) ==
  {d \in Devices : /\ UserOfDevice[d] = u /\ device[d] = "ACTIVE" /\ InSync
                   /\ Held(d) \/ (grant[d].status = "NONE" /\ nodeStatus = "HEALTHY")}

\* Mutant: the renewal does not wait for the Node row.
TrialLocksNoNode(u) == FALSE

\* The nodes scheduleExistingDeviceAccess() locks, for a user with devices.
TrialLocksNode(u) ==
  /\ \E d \in Devices : UserOfDevice[d] = u /\ device[d] = "ACTIVE"
  /\ \/ nodeStatus = "HEALTHY"
     \/ InSync /\ \E d \in Devices : UserOfDevice[d] = u /\ Held(d)

\* ... and what it makes of the grant of such a device.
Renewed(g, until) ==
  IF g.status = "NONE" THEN NewGrant(until)
  ELSE [g EXCEPT !.until = until, !.desired = NewVersion]

\* activateInTransaction(): once per user, without a running entitlement.
\* Lapsed ACTIVE subscriptions become EXPIRED, existing devices get the term.
ActivateTrial(s) ==
  LET u == UserOfSub[s]
      D == RenewedDevices(u) IN
  /\ s \in Trials
  /\ sub[s] = "NONE" /\ Term[s] > now /\ EntitledUntil(u) = 0
  /\ TrialLocksNode(u) => ~NodeLocked
  /\ sub' = [t \in Subs |-> IF t = s THEN "ACTIVE"
                            ELSE IF UserOfSub[t] = u /\ sub[t] = "ACTIVE" THEN "EXPIRED"
                            ELSE sub[t]]
  /\ IF D = {} THEN UNCHANGED <<desired, job>> ELSE Bump
  /\ grant' = [d \in Devices |-> IF d \in D THEN Renewed(grant[d], Term[s]) ELSE grant[d]]
  /\ UNCHANGED <<nodeStatus, applied, device, routeJobs, route, expiryOps,
                 deliveries, acks, reconciling, restoring, now, failures>>

\* issue(): device and grant in one transaction.  On a node that is not
\* HEALTHY the device gets no grant here: other nodes serve it.
IssueDevice(d) ==
  LET until == EntitledUntil(UserOfDevice[d]) IN
  /\ device[d] = "NONE" /\ until > 0
  /\ nodeStatus = "HEALTHY" => ~NodeLocked
  /\ device' = [device EXCEPT ![d] = "ACTIVE"]
  /\ IF nodeStatus = "HEALTHY"
     THEN Bump /\ grant' = [grant EXCEPT ![d] = NewGrant(until)]
     ELSE UNCHANGED <<desired, job, grant>>
  /\ UNCHANGED <<nodeStatus, applied, sub, routeJobs, route, expiryOps,
                 deliveries, acks, reconciling, restoring, now, failures>>

\* revoke(): the device, and its grant if one is held.  It locks the nodes
\* with a held grant, no others.
RevokeDevice(d) ==
  /\ device[d] = "ACTIVE"
  /\ Held(d) => ~NodeLocked
  /\ device' = [device EXCEPT ![d] = "REVOKED"]
  /\ IF ~Held(d) THEN UNCHANGED <<desired, job, grant>>
     ELSE IF InSync THEN Bump /\ grant' = [grant EXCEPT ![d] = Revoked(@)]
     ELSE grant' = [grant EXCEPT ![d].status = "REVOKED"] /\ UNCHANGED <<desired, job>>
  /\ UNCHANGED <<nodeStatus, applied, sub, routeJobs, route, expiryOps,
                 deliveries, acks, reconciling, restoring, now, failures>>

UserGrants(s) == {d \in Devices : UserOfDevice[d] = UserOfSub[s] /\ Held(d)}

\* cancelSubscriptionAccess(): a subscription without entitlement is only
\* marked; otherwise all grants of the user are revoked under one version.
CancelSubscription(s) ==
  LET D == IF sub[s] = "ACTIVE" /\ Term[s] > now THEN UserGrants(s) ELSE {} IN
  /\ sub[s] \in {"ACTIVE", "EXPIRED"}
  /\ D # {} => ~NodeLocked
  /\ sub' = [sub EXCEPT ![s] = "CANCELLED"]
  /\ IF D = {} THEN UNCHANGED <<desired, job, grant>>
     ELSE IF InSync
     THEN Bump /\ grant' = [d \in Devices |-> IF d \in D THEN Revoked(grant[d]) ELSE grant[d]]
     ELSE /\ grant' = [d \in Devices |-> IF d \in D THEN [grant[d] EXCEPT !.status = "REVOKED"]
                                                    ELSE grant[d]]
          /\ UNCHANGED <<desired, job>>
  /\ UNCHANGED <<nodeStatus, applied, device, routeJobs, route, expiryOps,
                 deliveries, acks, reconciling, restoring, now, failures>>

-----------------------------------------------------------------------------
(* The maintenance loop of the worker.                                     *)

\* desiredExpiry: a replacement entitlement wins over the expired term.
ExpiryTerm(s) ==
  LET replacement == EntitledUntil(UserOfSub[s])
  IN IF replacement > 0 THEN replacement ELSE Term[s]

\* scheduleExpiredSubscriptionOnNode(): once per subscription and node.
ScheduleExpiry(s) ==
  LET D == UserGrants(s) IN
  /\ sub[s] \in {"ACTIVE", "EXPIRED"} /\ Term[s] <= now
  /\ ~NodeLocked /\ InSync /\ D # {} /\ s \notin expiryOps
  /\ Bump
  /\ grant' = [d \in Devices |-> IF d \in D
                 THEN [grant[d] EXCEPT !.until = ExpiryTerm(s), !.desired = NewVersion]
                 ELSE grant[d]]
  /\ expiryOps' = expiryOps \cup {s}
  /\ UNCHANGED <<nodeStatus, applied, device, sub, routeJobs, route,
                 deliveries, acks, reconciling, restoring, now, failures>>

\* materializeExpiredSubscriptionStatus()
MaterializeExpiry(s) ==
  /\ sub[s] = "ACTIVE" /\ Term[s] <= now
  /\ sub' = [sub EXCEPT ![s] = "EXPIRED"]
  /\ UNCHANGED <<nodeStatus, desired, applied, device, grant, job, routeJobs, route,
                 expiryOps, deliveries, acks, reconciling, restoring, now, failures>>

AckedVersions == {a.version : a \in acks}

\* liveDeliveries: a delivery for version v still counts as under way.
Live(v) == job[v] = "PENDING" \/ (job[v] = "SUCCEEDED" /\ v \notin AckedVersions)
DeliveryLost(d) == grant[d].applied < grant[d].desired /\ ~Live(grant[d].desired)
\* expectedDevices: the terms of the ACTIVE devices of entitled users.
ExpectedDevices ==
  [d \in Devices |-> IF device[d] = "ACTIVE" THEN EntitledUntil(UserOfDevice[d]) ELSE 0]

\* The changes a reconciliation that read the terms "expected" makes.
Missing(d, expected) == expected[d] > 0 /\ grant[d].status = "NONE"
Stale(d, expected) ==
  expected[d] > 0 /\ Held(d) /\ (grant[d].until # expected[d] \/ DeliveryLost(d))
Confirmed(d, expected) ==
  /\ expected[d] > 0
  /\ grant[d].status = "PENDING" /\ grant[d].applied >= grant[d].desired

\* Mutant: a revoke whose delivery was lost is left alone.
LostRevokeIgnored(d) == grant[d].status = "REVOKED" /\ FALSE

LostRevoke(d) == grant[d].status = "REVOKED" /\ DeliveryLost(d)

\* networkChanges: the grants that need a new version.
NetworkChanges(expected, includeMissing) ==
  {d \in Devices : \/ Missing(d, expected) /\ (nodeStatus = "HEALTHY" \/ includeMissing)
                   \/ Stale(d, expected) \/ LostRevoke(d)}
NothingToDo(expected, includeMissing) ==
  /\ NetworkChanges(expected, includeMissing) = {}
  /\ \A d \in Devices : ~Confirmed(d, expected)

\* The grant row after reconciliation.
Reconciled(d, expected, send) ==
  LET g == grant[d]
      status == IF Confirmed(d, expected) THEN "ACTIVE" ELSE g.status IN
  IF d \notin send THEN [g EXCEPT !.status = status]
  ELSE IF g.status = "NONE" THEN NewGrant(expected[d])
  ELSE IF g.status = "REVOKED" THEN [g EXCEPT !.desired = NewVersion]
  ELSE [g EXCEPT !.status = status, !.until = expected[d], !.desired = NewVersion]

\* reconcileOneNode() locks the node and reads the expected devices.
BeginReconcile(includeMissing) ==
  /\ ~NodeLocked /\ InSync
  /\ reconciling' = [active |-> TRUE, missing |-> includeMissing, expected |-> ExpectedDevices]
  /\ UNCHANGED <<nodeStatus, desired, applied, device, sub, grant, job, routeJobs, route,
                 expiryOps, deliveries, acks, restoring, now, failures>>

\* reconcileAccess(), every maintenance cycle, for a node its candidate query
\* selects.
Reconcile == ~NothingToDo(ExpectedDevices, FALSE) /\ BeginReconcile(FALSE)

NotReconciling ==
  [active |-> FALSE, missing |-> FALSE, expected |-> [d \in Devices |-> 0]]

\* ... and writes what follows from it.  Without changes the restore of the
\* node, if that is what called it, goes on; otherwise it is sent away.
EndReconcile ==
  LET expected == reconciling.expected
      send == NetworkChanges(expected, reconciling.missing) IN
  /\ NodeLocked
  /\ IF send = {} THEN UNCHANGED <<desired, job>> ELSE Bump
  /\ grant' = [d \in Devices |-> Reconciled(d, expected, send)]
  /\ reconciling' = NotReconciling
  /\ restoring' = (restoring \/ (reconciling.missing /\ NothingToDo(expected, TRUE)))
  /\ UNCHANGED <<nodeStatus, applied, device, sub, routeJobs, route, expiryOps,
                 deliveries, acks, now, failures>>

-----------------------------------------------------------------------------
(* The operator: node lifecycle and routes.                                *)

\* A change of the node's status closes its route activation (trigger).
ChangeStatus(from, to) ==
  /\ ~NodeLocked
  /\ nodeStatus \in from
  /\ nodeStatus' = to
  /\ route' = 0

Drain ==
  /\ ChangeStatus({"HEALTHY"}, "DRAINING")
  /\ UNCHANGED <<desired, applied, device, sub, grant, job, routeJobs, expiryOps,
                 deliveries, acks, reconciling, restoring, now, failures>>

Disable ==
  /\ ChangeStatus({"HEALTHY", "DRAINING"}, "DISABLED")
  /\ UNCHANGED <<desired, applied, device, sub, grant, job, routeJobs, expiryOps,
                 deliveries, acks, reconciling, restoring, now, failures>>

\* Mutant: only grants that serve are revoked.
QuarantinedActive == {d \in Devices : grant[d].status = "ACTIVE"}

\* The grants quarantine() revokes.
Quarantined == {d \in Devices : Held(d)}

Quarantine ==
  /\ ChangeStatus({"HEALTHY", "DRAINING", "DISABLED"}, "QUARANTINED")
  /\ IF Quarantined = {} THEN UNCHANGED <<desired, job>> ELSE Bump
  /\ grant' = [d \in Devices |-> IF d \in Quarantined THEN Revoked(grant[d]) ELSE grant[d]]
  /\ UNCHANGED <<applied, device, sub, routeJobs, expiryOps,
                 deliveries, acks, reconciling, restoring, now, failures>>

\* restoreNodeToHealthy(), first transaction: reconciliation that also
\* creates missing grants.
RestoreReconcile ==
  /\ ~restoring
  /\ nodeStatus \in {"DRAINING", "DISABLED"}
  /\ BeginReconcile(TRUE)

\* Mutant: the trigger is missing.
MayServeUnchecked == TRUE

\* The trigger on the return to HEALTHY.
MayServe == desired <= applied

\* ... second transaction: HEALTHY, or the trigger rejects it.
RestoreHealthy ==
  /\ restoring /\ ~NodeLocked
  /\ restoring' = FALSE
  /\ \/ MayServe /\ ChangeStatus({"DRAINING", "DISABLED"}, "HEALTHY")
     \/ /\ nodeStatus \in {"DRAINING", "DISABLED"} => ~MayServe
        /\ UNCHANGED <<nodeStatus, route>>
  /\ UNCHANGED <<desired, applied, device, sub, grant, job, routeJobs, expiryOps,
                 deliveries, acks, reconciling, now, failures>>

PublishRoute ==
  /\ nodeStatus = "HEALTHY" /\ ~NodeLocked
  /\ Cardinality(routeJobs) < MaxRoutes
  /\ Bump
  /\ routeJobs' = routeJobs \cup {NewVersion}
  /\ route' = NewVersion
  /\ UNCHANGED <<nodeStatus, applied, device, sub, grant, expiryOps,
                 deliveries, acks, reconciling, restoring, now, failures>>

\* The endpoint or the profile leaves ACTIVE: the activation is closed.
CloseRoute ==
  /\ route # 0
  /\ route' = 0
  /\ UNCHANGED <<nodeStatus, desired, applied, device, sub, grant, job, routeJobs,
                 expiryOps, deliveries, acks, reconciling, restoring, now, failures>>

-----------------------------------------------------------------------------
(* The transport (Outbox and NodeSync) and the node-agent API.             *)

\* The worker completes the job; a route job whose activation was closed
\* fails with ROUTE_ACTIVATION_CLOSED instead.
CompleteJob(v) ==
  /\ job[v] \in {"PENDING", "LOST"}
  /\ job' = [job EXCEPT ![v] = IF v \in routeJobs /\ route # v THEN "FAILED" ELSE "SUCCEEDED"]
  /\ UNCHANGED <<nodeStatus, desired, applied, device, sub, grant, routeJobs, route,
                 expiryOps, deliveries, acks, reconciling, restoring, now, failures>>

\* The attempts of the job, or those of its outbox event, are used up.
LoseJob(v) ==
  /\ job[v] = "PENDING"
  /\ failures < MaxFailures
  /\ failures' = failures + 1
  /\ \E outcome \in {"FAILED", "LOST"} : job' = [job EXCEPT ![v] = outcome]
  /\ UNCHANGED <<nodeStatus, desired, applied, device, sub, grant, routeJobs, route,
                 expiryOps, deliveries, acks, reconciling, restoring, now>>

\* Mutant: a grant gets its credential once it is ACTIVE.
EligibleActive == {d \in Devices : grant[d].status = "ACTIVE" /\ grant[d].until > now}

\* Devices the snapshot carries a credential for.
Eligible == {d \in Devices : Held(d) /\ grant[d].until > now}

\* The content snapshotHash stands for.
Snapshot == [grants |-> grant, credentials |-> Eligible, route |-> route]

\* pendingAcknowledgement: the job of the very latest version.
PendingAck(v) ==
  /\ v = desired /\ desired > applied
  /\ job[v] = "SUCCEEDED" /\ v \notin AckedVersions

\* snapshotInTransaction() with a command to answer: the delivery is recorded.
\* Without one it writes nothing.
Deliver(v) ==
  /\ PendingAck(v) /\ ~NodeLocked
  /\ deliveries' = deliveries \cup {[version |-> v, hash |-> Snapshot]}
  /\ UNCHANGED <<nodeStatus, desired, applied, device, sub, grant, job, routeJobs, route,
                 expiryOps, acks, reconciling, restoring, now, failures>>

\* Mutant: every grant is confirmed, whatever version it waits for.
ConfirmedByAll(d, v) == grant[d].applied < grant[d].desired

\* Grants the acknowledgement of version v confirms.
ConfirmedBy(d, v) == grant[d].desired <= v /\ grant[d].applied < grant[d].desired

\* acknowledgeNodeConfigInTransaction(), for a delivery the agent answers,
\* possibly late or repeatedly.  A second answer with another hash is refused.
Acknowledge(a) ==
  /\ a \in deliveries /\ ~NodeLocked
  /\ a \in acks \/ (job[a.version] = "SUCCEEDED" /\ a.version \notin AckedVersions)
  /\ acks' = acks \cup {a}
  /\ applied' = IF a.version > applied THEN a.version ELSE applied
  /\ grant' = [d \in Devices |-> IF ~ConfirmedBy(d, a.version) THEN grant[d]
                 ELSE [grant[d] EXCEPT !.applied = grant[d].desired,
                                       !.status = IF @ = "PENDING" THEN "ACTIVE" ELSE @]]
  /\ UNCHANGED <<nodeStatus, desired, device, sub, job, routeJobs, route,
                 expiryOps, deliveries, reconciling, restoring, now, failures>>

Tick ==
  /\ now < MaxNow
  /\ now' = now + 1
  /\ UNCHANGED <<nodeStatus, desired, applied, device, sub, grant, job, routeJobs, route,
                 expiryOps, deliveries, acks, reconciling, restoring, failures>>

-----------------------------------------------------------------------------
Init ==
  /\ nodeStatus = "HEALTHY" /\ desired = 0 /\ applied = 0
  /\ device = [d \in Devices |-> "NONE"]
  /\ sub = [s \in Subs |-> "NONE"]
  /\ grant = [d \in Devices |-> NoGrant]
  /\ job = [v \in Versions |-> "NONE"]
  /\ routeJobs = {} /\ route = 0
  /\ expiryOps = {} /\ deliveries = {} /\ acks = {}
  /\ reconciling = NotReconciling /\ restoring = FALSE /\ now = 0 /\ failures = 0

Admin == Drain \/ Disable \/ Quarantine \/ PublishRoute \/ CloseRoute
Restore == RestoreReconcile \/ RestoreHealthy
Maintain == Reconcile \/ EndReconcile \/ \E s \in Subs : ScheduleExpiry(s) \/ MaterializeExpiry(s)
Serve == (\E v \in Versions : Deliver(v)) \/ (\E a \in deliveries : Acknowledge(a))

Next ==
  \/ \E s \in Subs : Subscribe(s) \/ ActivateTrial(s) \/ CancelSubscription(s)
  \/ \E d \in Devices : IssueDevice(d) \/ RevokeDevice(d)
  \/ Maintain \/ Admin \/ Restore
  \/ \E v \in Versions : CompleteJob(v) \/ LoseJob(v)
  \/ Serve
  \/ Tick

Spec == Init /\ [][Next]_vars

\* The maintenance and worker loops run on, and the agent keeps polling,
\* applying and answering.  Fairness is strong for what waits for the Node row:
\* PostgreSQL serves the waiters of a row in turn, so a lock that is taken
\* again and again does not keep them out.
Fairness ==
  /\ SF_vars(Reconcile) /\ WF_vars(EndReconcile)
  /\ WF_vars(\E v \in Versions : job[v] = "PENDING" /\ CompleteJob(v))
  /\ SF_vars(\E v \in Versions : Deliver(v))
  /\ SF_vars(\E a \in deliveries : a \notin acks /\ Acknowledge(a))

-----------------------------------------------------------------------------
(* Properties.                                                             *)

TypeOK ==
  /\ nodeStatus \in NodeStatuses
  /\ desired \in 0..MaxVersion /\ applied \in 0..MaxVersion
  /\ device \in [Devices -> {"NONE", "ACTIVE", "REVOKED"}]
  /\ sub \in [Subs -> {"NONE", "ACTIVE", "EXPIRED", "CANCELLED"}]
  /\ grant \in [Devices -> Grants]
  /\ job \in [Versions -> {"NONE", "PENDING", "SUCCEEDED", "FAILED", "LOST"}]
  /\ routeJobs \subseteq Versions /\ route \in 0..MaxVersion
  /\ expiryOps \subseteq Subs
  /\ \A a \in deliveries \cup acks : a.version \in Versions
  /\ reconciling \in [active : BOOLEAN, missing : BOOLEAN, expected : [Devices -> Nat]]
  /\ restoring \in BOOLEAN /\ now \in 0..MaxNow /\ failures \in 0..MaxFailures

\* A revoke counts as applied only when the node has acknowledged a snapshot
\* that showed the grant as REVOKED: no answer to an older snapshot, late or
\* repeated, confirms it.
RevokeConfirmedByNode ==
  \A d \in Devices :
    grant[d].status = "REVOKED" /\ grant[d].applied = grant[d].desired
      => \E a \in acks : /\ a.version >= grant[d].desired
                         /\ a.hash.grants[d].status = "REVOKED"

\* connection-route-selection: the feed offers the node to the device.
InFeed(d) ==
  /\ device[d] = "ACTIVE" /\ EntitledUntil(UserOfDevice[d]) > 0
  /\ nodeStatus = "HEALTHY"
  /\ grant[d].status = "ACTIVE" /\ grant[d].until > now
  /\ grant[d].applied = grant[d].desired
  /\ route # 0 /\ route <= applied

\* What the feed offers was in snapshots the node acknowledged: the device's
\* credential, and the very activation of the route.
FeedConfirmedByNode ==
  \A d \in Devices : InFeed(d) =>
    /\ \E a \in acks : a.version >= grant[d].desired /\ d \in a.hash.credentials
    /\ \E a \in acks : a.version >= route /\ a.hash.route = route

\* An emergency quarantine leaves no grant the node could serve.
QuarantineRevokesAll ==
  nodeStatus = "QUARANTINED" => \A d \in Devices : ~Held(d)

\* A node returns to HEALTHY only with every grant change confirmed, also
\* those that slipped in between the two transactions of the restore.
RestoredConverged ==
  [][nodeStatus # "HEALTHY" /\ nodeStatus' = "HEALTHY"
       => \A d \in Devices : grant[d].applied = grant[d].desired]_vars

\* The device's grant carries the term of the trial that runs.
HoldsTrial(d, s) ==
  /\ UserOfDevice[d] = UserOfSub[s] /\ sub[s] = "ACTIVE" /\ Term[s] > now
  /\ Held(d) /\ grant[d].until = Term[s]

\* Once a grant has been given the term of a running trial, no transaction
\* gives it another: neither the late expiry of the subscription the trial
\* replaced, nor a reconciliation that read the terms before the trial came.
RenewalNotCutShort ==
  [][\A d \in Devices, s \in Trials :
       HoldsTrial(d, s) /\ Held(d)' => grant'[d].until = Term[s]]_vars

\* The operation of a newer version is dead and reconcileAccess() does not
\* select the node: the agent is offered the newest version only, and the
\* older operation still counts as under way.
Abandoned(d) ==
  /\ grant[d].desired < desired /\ job[desired] \in {"FAILED", "LOST"}
  /\ ~NodeLocked /\ NothingToDo(ExpectedDevices, FALSE)

\* A revoke on a node that takes commands is confirmed in the end, although
\* operations fail or get lost and other users' changes overtake it, unless it
\* is abandoned.  A later version takes it up again.
RevokeConverges ==
  \A d \in Devices : (grant[d].status = "REVOKED" /\ InSync)
                       ~> (grant[d].applied = grant[d].desired \/ ~InSync \/ Abandoned(d))

\* Revoking a device revokes its credentials: none of its grants stays held,
\* so that no snapshot carries the credential of a REVOKED device.
RevokedDeviceHoldsNoGrant ==
  \A d \in Devices : device[d] = "REVOKED" => ~Held(d)
=============================================================================
