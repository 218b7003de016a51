----------------------------- MODULE NodeAgent -----------------------------
(***************************************************************************)
(* The agent of one VPN node (apps/node-agent/src): the control-plane loop *)
(* (main.ts, agent.ts), the local reconcile loop                           *)
(* (local-state-reconciler.ts) and the adapter they share                  *)
(* (local-xray-adapter.ts), over a file system that may lose what was not  *)
(* synced, and the xray container (xray-runtime.ts,                        *)
(* xray-serving-verifier.ts), as NODE_AGENT_MODE=xray composes them.       *)
(*                                                                         *)
(* runExclusive() serialises the adapter's operations; pc is where the one *)
(* that runs stands.  An operation is cut where it leaves something behind *)
(* a crash can find: a stopped or restarted container, a written file.     *)
(* Nobody else writes the files, so what an operation read is still there. *)
(* The control plane is what NodeAccess says of one node, reduced to the   *)
(* snapshots it shows.                                                     *)
(***************************************************************************)
EXTENDS Integers, FiniteSets

CONSTANTS
  Grants,      \* NodeAccessGrant ids of the node
  Until,       \* Until[g]: expiresAt
  Known,       \* the grants that were ACTIVE before
  Sla,         \* ACCESS_CONTROL_ENFORCEMENT_SLA_MS
  Reserve,     \* LOCAL_FAIL_CLOSED_RESERVE_MS
  MaxVersion,  \* bound: configuration versions
  MaxNow,      \* bound: clock ticks
  MaxFaults,   \* bound: crashes, power losses, damaged files, failed stops,
               \* untrusted clock readings
  Reachable    \* TRUE: every request to the control plane is answered

ASSUME NodeAgentAssumption ==
  /\ Until \in [Grants -> Nat]
  /\ Known \subseteq Grants
  /\ Sla \in Nat /\ Reserve \in Nat /\ Reserve < Sla
  /\ MaxVersion \in Nat /\ MaxNow \in Nat /\ MaxFaults \in Nat
  /\ Reachable \in BOOLEAN

VARIABLES
  desired, applied, \* Node: desired/appliedConfigVersion, at the control plane
  command,          \* the command for `desired` was delivered, not yet answered
  grant,            \* NodeAccessGrant rows
  disk, synced,     \* state file and stop-only latch: as read, as a power loss leaves them
  config,           \* the clients in xray's config file
  up, users,        \* the xray container runs; the clients it lets in
  failClosed,       \* runtimeIsFailClosed
  fingerprint,      \* runtimeClientsFingerprint
  confirmed,        \* durabilityIsConfirmed
  ctl, snap,        \* what the control-plane loop is about to do, and with which snapshot
  pc,               \* the exclusive operation
  polled, checked,  \* the loops' turns since the last tick
  now, faults

cpVars   == <<desired, applied, command, grant>>
xrayVars == <<config, up, users>>
memVars  == <<failClosed, fingerprint>>
vars     == <<cpVars, disk, synced, xrayVars, memVars, confirmed, ctl, snap,
              pc, polled, checked, now, faults>>

Versions == 0..MaxVersion
Status   == {"NONE", "PENDING", "ACTIVE", "REVOKED"}
Kinds    == {"missing", "valid", "invalid"}
Entry    == [status : Status, revokedAt : 0..MaxNow, cred : BOOLEAN]
NoEntry  == [status |-> "NONE", revokedAt |-> 0, cred |-> FALSE]
NoGrants == [g \in Grants |-> NoEntry]
NoSnap   == [version |-> 0, grants |-> NoGrants]
NoState  == [kind |-> "missing", version |-> 0, grants |-> NoGrants]
BadState == [NoState EXCEPT !.kind = "invalid"]
NoLatch  == [kind |-> "missing", target |-> 0, ids |-> {}]
BadLatch == [NoLatch EXCEPT !.kind = "invalid"]
NoPrint  == [known |-> FALSE, clients |-> {}]

\* What each table, file, process and loop may hold; a node never confirms a
\* version beyond the desired one.
TypeOK ==
  /\ desired \in Versions /\ applied \in Versions /\ applied <= desired
  /\ command \in BOOLEAN
  /\ grant \in [Grants -> [status : Status, revokedAt : 0..MaxNow, version : Versions]]
  /\ \A files \in {disk, synced} :
       /\ files.state \in [kind : Kinds, version : Versions, grants : [Grants -> Entry]]
       /\ files.latch \in [kind : Kinds, target : Versions, ids : SUBSET Grants]
  /\ config \subseteq Grants /\ up \in BOOLEAN /\ users \subseteq Grants
  /\ failClosed \in BOOLEAN /\ confirmed \in BOOLEAN
  /\ fingerprint \in [known : BOOLEAN, clients : SUBSET Grants]
  /\ ctl \in {"idle", "apply", "confirm", "enforce", "ack"}
  /\ snap \in [version : Versions, grants : [Grants -> Entry]]
  /\ pc \in {"free", "run", "persist", "clear", "latch", "stop", "local"}
  /\ polled \in BOOLEAN /\ checked \in BOOLEAN
  /\ now \in 0..MaxNow /\ faults \in 0..MaxFaults

-----------------------------------------------------------------------------
(* xray-access.ts: what a list of grants says at this moment. *)

\* getActiveGrantExpiry() is a number.
Live(entry) == entry.status = "ACTIVE" /\ entry.cred

\* selectServableXrayClients().
Servable(grants) == {g \in Grants : Live(grants[g]) /\ Until[g] > now}

\* The grants findExpiredXrayClientEnforcementDeadline looks at.
Expired(grants) == {g \in Grants : Live(grants[g]) /\ Until[g] <= now}

\* findRevokedXrayClientEnforcements(): revoked while the old snapshot let it in.
RevokedSince(oldGrants, grants) ==
  {g \in Grants : /\ grants[g].status = "REVOKED" /\ grants[g].revokedAt <= now
                  /\ Live(oldGrants[g]) /\ Until[g] > grants[g].revokedAt}

\* findSnapshotRevocationEnforcements().
RevokedIn(grants) == {g \in Grants : grants[g].status = "REVOKED"}

\* Mutant: the whole SLA is spent on retries.
DueLate(start) == now >= start + Sla

\* shouldFailClosed() for an access that ended at start.
Due(start) == now >= start + Sla - Reserve

\* Mutant: a revoked grant without credential in the new snapshot is passed over.
RevokeDueWithCredential(oldGrants, grants) ==
  \E g \in RevokedSince(oldGrants, grants) : grants[g].cred /\ Due(grants[g].revokedAt)

\* findRevokedXrayClientEnforcementDeadline() has almost come.
RevokeDue(oldGrants, grants) ==
  \E g \in RevokedSince(oldGrants, grants) : Due(grants[g].revokedAt)

\* findExpiredXrayClientEnforcementDeadline() has almost come.
ExpiryDue(grants) == \E g \in Expired(grants) : Due(Until[g])

-----------------------------------------------------------------------------
(* The control plane, as the node-agent API shows it. *)

Bump ==
  /\ desired < MaxVersion
  /\ desired' = desired + 1 /\ command' = FALSE
  /\ UNCHANGED <<applied, disk, synced, xrayVars, memVars, confirmed, ctl, snap,
                 pc, polled, checked, now, faults>>

\* A device is issued: the grant waits for the node's acknowledgement.
IssueGrant(g) ==
  /\ grant[g].status = "NONE"
  /\ grant' = [grant EXCEPT ![g] = [status |-> "PENDING", revokedAt |-> 0,
                                    version |-> desired + 1]]
  /\ Bump

RevokeGrant(g) ==
  /\ grant[g].status \in {"PENDING", "ACTIVE"}
  /\ grant' = [grant EXCEPT ![g] = [status |-> "REVOKED", revokedAt |-> now,
                                    version |-> desired + 1]]
  /\ Bump

\* A route or another device's change asks the node for a new version.
OtherChange == Bump /\ UNCHANGED grant

\* The NodeSyncJob of the latest version SUCCEEDED.
IssueCommand ==
  /\ desired # applied /\ ~command
  /\ command' = TRUE
  /\ UNCHANGED <<desired, applied, grant, disk, synced, xrayVars, memVars,
                 confirmed, ctl, snap, pc, polled, checked, now, faults>>

\* The grants of the snapshot: the credential goes with a grant that is
\* neither revoked nor expired.
ShownGrants ==
  [g \in Grants |-> [status |-> grant[g].status, revokedAt |-> grant[g].revokedAt,
     cred |-> grant[g].status \in {"PENDING", "ACTIVE"} /\ Until[g] > now]]

-----------------------------------------------------------------------------
(* The container and the files. *)

\* DockerXrayServingVerifier.stopServing(): every container is stopped and
\* none is found running.
Stopped ==
  /\ up' = FALSE /\ users' = {} /\ failClosed' = TRUE /\ fingerprint' = NoPrint
  /\ UNCHANGED config

StopOk == Stopped /\ UNCHANGED faults

\* A docker command failed, before or after the container stopped.
StopFails ==
  /\ faults < MaxFaults /\ faults' = faults + 1
  /\ \/ UNCHANGED <<up, users>>
     \/ up' = FALSE /\ users' = {}
  /\ failClosed' = FALSE /\ fingerprint' = NoPrint
  /\ UNCHANGED config

\* forceFailClosed(), whether it throws or not.
Stop == StopOk \/ StopFails

\* fingerprintClients().
FingerprintOf(clients) == [known |-> TRUE, clients |-> clients]

\* runReloadCommand(): the container runs with the new file, was not touched,
\* or stays stopped.
Reloaded(file) ==
  {[up |-> TRUE, users |-> file], [up |-> up, users |-> users], [up |-> FALSE, users |-> {}]}

\* inspectServingClients(): what the API of the one running container lists;
\* nothing without it.
InspectServingClients(xray) == IF xray.up THEN {xray.users} ELSE {}

\* DockerXrayServingVerifier.verifyClients().
Verified(xray, clients) == clients \in InspectServingClients(xray)

\* writeRuntimeConfig(): the rename took place, or it did not.
WriteRuntimeConfig(clients) == {config, clients}

\* observeServingPresence(): a probe that fails sees nothing serving.
ObservedServing == {up, FALSE}

\* FileXrayRuntime.applyClients(): what it leaves behind.  The file is replaced
\* unless it is as wanted; a replaced file, or the option, means a reload; the
\* verifier has the last word.  Each of them may fail.
ApplyOutcomes(clients, reload) ==
  LET Outcome(file, xray, good) ==
        [config |-> file, up |-> xray.up, users |-> xray.users, ok |-> good]
      current == [up |-> up, users |-> users]
  IN {Outcome(file, current, FALSE) : file \in WriteRuntimeConfig(clients)} \cup
     IF config = clients /\ ~reload
     THEN {Outcome(config, current, Verified(current, clients))}
     ELSE {Outcome(clients, xray, FALSE) : xray \in Reloaded(clients)}
          \cup {Outcome(clients, xray, TRUE) : xray \in {x \in Reloaded(clients) : Verified(x, clients)}}

\* failClosedAndRethrow() after an apply that left r behind.
StopAfter(r) ==
  /\ config' = r.config /\ fingerprint' = NoPrint
  /\ \/ up' = FALSE /\ users' = {} /\ failClosed' = TRUE /\ UNCHANGED faults
     \/ /\ faults < MaxFaults /\ faults' = faults + 1
        /\ up' = r.up /\ users' = r.users /\ failClosed' = FALSE

\* Mutant: the directory is not synced after the rename.
WriteStateUnsynced(new) == disk' = [disk EXCEPT !.state = new] /\ UNCHANGED synced

\* writeJsonDurably(): the file is replaced and synced, or was not replaced,
\* or was replaced and the sync of its directory failed.  The file system is
\* one that can sync a directory: syncParentDirectory() takes an answer that
\* it cannot for a success, and then nothing here would be durable.
WriteState(new) == /\ disk' = [disk EXCEPT !.state = new]
                   /\ synced' = [synced EXCEPT !.state = new]

WriteStateFails(new) ==
  /\ disk' \in {disk, [disk EXCEPT !.state = new]}
  /\ UNCHANGED synced

WriteLatch(new) == /\ disk' = [disk EXCEPT !.latch = new]
                   /\ synced' = [synced EXCEPT !.latch = new]

WriteLatchFails(new) ==
  /\ disk' \in {disk, [disk EXCEPT !.latch = new]}
  /\ UNCHANGED synced

\* ensureDurabilityConfirmed() succeeds, for a state that could be read.
EnsureDurable ==
  IF disk.state.kind = "valid" /\ ~confirmed
  THEN /\ synced' = [synced EXCEPT !.state = disk.state] /\ confirmed' = TRUE
       /\ UNCHANGED disk
  ELSE UNCHANGED <<disk, synced, confirmed>>

-----------------------------------------------------------------------------
(* The end of an operation. *)

\* The exclusive operation is over.
Release == pc' = "free"

\* The control-plane loop's cycle ends, with an error or not.
EndCycle == ctl' = "idle" /\ snap' = NoSnap /\ polled' = TRUE

-----------------------------------------------------------------------------
(* NodeAgentRunner.runCycle(). *)

\* heartbeat() and configuration(), then the branch on pendingAcknowledgement
\* and on the two versions.
Fetch ==
  /\ ctl = "idle"
  /\ snap' = [version |-> desired, grants |-> ShownGrants]
  /\ ctl' = IF command THEN "apply" ELSE IF desired # applied THEN "enforce" ELSE "confirm"
  /\ UNCHANGED <<cpVars, disk, synced, xrayVars, memVars, confirmed, pc,
                 polled, checked, now, faults>>

\* A request fails: the next cycle follows after the retry interval.
FetchFails ==
  /\ ctl = "idle" /\ ~Reachable
  /\ EndCycle
  /\ UNCHANGED <<cpVars, disk, synced, xrayVars, memVars, confirmed, pc,
                 checked, now, faults>>

\* Mutant: the version after the one applied is acknowledged.
AckVersionNext == snap.version + 1

AckVersion == snap.version

\* acknowledge(): the control plane moves appliedConfigVersion and confirms the
\* grants the version covers; the request, or only its answer, may get lost.
Acknowledge ==
  /\ ctl = "ack"
  /\ EndCycle
  /\ \/ /\ applied' = IF AckVersion > applied THEN AckVersion ELSE applied
        /\ command' = (command /\ desired # AckVersion)
        /\ grant' = [g \in Grants |->
             IF grant[g].status = "PENDING" /\ grant[g].version <= AckVersion
             THEN [grant[g] EXCEPT !.status = "ACTIVE"] ELSE grant[g]]
     \/ ~Reachable /\ UNCHANGED <<applied, command, grant>>
  /\ UNCHANGED <<desired, disk, synced, xrayVars, memVars, confirmed, pc,
                 checked, now, faults>>

-----------------------------------------------------------------------------
(* applySnapshot(): apply() and reconcileConfirmedSnapshot(). *)

Applying == ctl \in {"apply", "confirm"}

\* What chronyc says of the clock: no usable answer, its reference, its leap
\* status and its error in units of CLOCK_TRUST_THRESHOLD_MS.
ClockReadings ==
  [usable : BOOLEAN, localReference : BOOLEAN, synchronized : BOOLEAN, error : 0..2]

\* ChronyClockTrustProbe.assess().
Trusted(reading) ==
  /\ reading.usable /\ ~reading.localReference /\ reading.synchronized
  /\ reading.error <= 1

\* enforceClockTrust() finds the clock untrusted; the stop may fail too.
ClockStop ==
  /\ \E reading \in ClockReadings : ~Trusted(reading)
  /\ \/ Stopped /\ faults < MaxFaults /\ faults' = faults + 1
     \/ StopFails

\* In either kind of cycle it is the first thing done.
CycleClockUntrusted ==
  /\ pc = "free" /\ (Applying \/ ctl = "enforce")
  /\ ClockStop /\ EndCycle
  /\ UNCHANGED <<cpVars, disk, synced, confirmed, pc, checked, now>>

\* hashNodeAgentSnapshot(): without collisions it is what it hashes.
SnapshotHash(snapshot) == [version |-> snapshot.version, grants |-> snapshot.grants]

\* A downgrade, or the same version with another hash.
Refused ==
  /\ disk.state.kind = "valid"
  /\ \/ disk.state.version > snap.version
     \/ /\ disk.state.version = snap.version
        /\ SnapshotHash(disk.state) # SnapshotHash(snap)

\* The reasons to stop before anything else is done.
StopsFirst == disk.latch.kind # "missing" \/ disk.state.kind # "valid"

\* A client the new version revokes is served and its time is almost up.
StopsForRevoke ==
  /\ disk.state.kind = "valid" /\ disk.state.version < snap.version /\ ~failClosed
  /\ RevokeDue(disk.state.grants, snap.grants)

ApplyStops == StopsFirst \/ (~Refused /\ StopsForRevoke)

\* The stop, or the sync of a state not yet confirmed, fails.
ApplyAborted ==
  /\ pc = "free" /\ Applying
  /\ EndCycle
  /\ \/ ApplyStops /\ StopFails
     \/ disk.state.kind = "valid" /\ ~confirmed /\ Stop
  /\ UNCHANGED <<cpVars, disk, synced, confirmed, pc, checked, now>>

\* Everything before runtime.applyClients().
ApplyCheck ==
  /\ pc = "free" /\ Applying
  /\ EnsureDurable
  /\ IF ApplyStops THEN StopOk ELSE UNCHANGED <<xrayVars, memVars, faults>>
  /\ IF Refused
     THEN EndCycle /\ UNCHANGED pc
     ELSE /\ pc' = "run"
          /\ UNCHANGED <<ctl, snap, polled>>
  /\ UNCHANGED <<cpVars, checked, now>>

\* The snapshot is the one the state file holds.
SameVersion == disk.state.kind = "valid" /\ disk.state.version = snap.version

\* An error in applyClients() leaves the container alone only if it was seen
\* serving before and no deadline is near.
StopsOnError(seen) ==
  \/ failClosed \/ ~seen
  \/ ~SameVersion /\ (disk.state.kind # "valid" \/ RevokeDue(disk.state.grants, snap.grants))

\* observeServingPresence(), applyClients() and,
\* for the version already recorded, confirmDurability().
ApplyRun ==
  /\ pc = "run"
  /\ \E seen \in ObservedServing :
     \E r \in ApplyOutcomes(Servable(snap.grants), ~SameVersion \/ failClosed \/ ~seen) :
       \/ /\ r.ok
          /\ config' = r.config /\ up' = r.up /\ users' = r.users
          /\ failClosed' = FALSE
          /\ pc' = IF SameVersion THEN "clear" ELSE "persist"
          /\ IF SameVersion
             THEN synced' = [synced EXCEPT !.state = disk.state] /\ confirmed' = TRUE
             ELSE UNCHANGED <<synced, confirmed>>
          /\ UNCHANGED <<fingerprint, ctl, snap, polled, faults>>
       \/ /\ ~r.ok \/ SameVersion  \* an error, or the sync fails
          /\ IF StopsOnError(seen) THEN StopAfter(r)
             ELSE /\ config' = r.config /\ up' = r.up /\ users' = r.users
                  /\ UNCHANGED <<memVars, faults>>
          /\ Release /\ EndCycle
          /\ UNCHANGED <<synced, confirmed>>
  /\ UNCHANGED <<cpVars, disk, checked, now>>

NewState == [kind |-> "valid", version |-> snap.version, grants |-> snap.grants]

\* writeDurably().
Persist ==
  /\ pc = "persist"
  /\ \/ /\ WriteState(NewState) /\ confirmed' = TRUE
        /\ pc' = "clear"
        /\ UNCHANGED <<xrayVars, memVars, ctl, snap, polled, faults>>
     \/ /\ WriteStateFails(NewState) /\ confirmed' = FALSE
        /\ Stop
        /\ Release /\ EndCycle
  /\ UNCHANGED <<cpVars, checked, now>>

\* The snapshot just applied lifts the latch.
LatchSatisfied ==
  \/ disk.latch.kind = "missing"
  \/ /\ disk.latch.kind = "valid" /\ snap.version >= disk.latch.target
     /\ disk.latch.ids \cap Servable(snap.grants) = {}

\* The rest of applySnapshot(): the latch is removed, the local loop notified.
Applied ==
  /\ fingerprint' = FingerprintOf(Servable(snap.grants))
  /\ Release /\ checked' = TRUE
  /\ IF ctl = "apply" THEN ctl' = "ack" /\ UNCHANGED <<snap, polled>> ELSE EndCycle
  /\ UNCHANGED <<xrayVars, failClosed, faults>>

\* clearStopOnlyLatchAfterVerifiedApply().
ClearLatch ==
  /\ pc = "clear"
  /\ \/ /\ LatchSatisfied
        /\ IF disk.latch.kind = "missing" THEN UNCHANGED <<disk, synced>> ELSE WriteLatch(NoLatch)
        /\ Applied
     \/ /\ disk.latch.kind # "missing"
        /\ \/ LatchSatisfied /\ WriteLatchFails(NoLatch)
           \/ ~LatchSatisfied /\ UNCHANGED <<disk, synced>>
        /\ Stop /\ Release /\ EndCycle
        /\ UNCHANGED checked
  /\ UNCHANGED <<cpVars, confirmed, now>>

-----------------------------------------------------------------------------
(* enforceSnapshotSecurity(). *)

Enforcements ==
  IF disk.state.kind = "valid" THEN RevokedSince(disk.state.grants, snap.grants)
                               ELSE RevokedIn(snap.grants)

EnforceCheck ==
  /\ pc = "free" /\ ctl = "enforce"
  /\ LET stops == \/ disk.latch.kind # "missing"
                  \/ Enforcements = {} /\ disk.state.kind # "valid"
     IN \/ ~stops /\ UNCHANGED <<xrayVars, memVars, faults>>
        \/ stops /\ StopOk
  /\ IF Enforcements = {} THEN EndCycle /\ UNCHANGED pc
     ELSE pc' = "latch" /\ UNCHANGED <<ctl, snap, polled>>
  /\ UNCHANGED <<cpVars, disk, synced, confirmed, checked, now>>

EnforceAborted ==
  /\ pc = "free" /\ ctl = "enforce"
  /\ disk.latch.kind # "missing" \/ (Enforcements = {} /\ disk.state.kind # "valid")
  /\ StopFails /\ EndCycle
  /\ UNCHANGED <<cpVars, disk, synced, confirmed, pc, checked, now>>

\* The latch with what it already held.
MergedLatch ==
  [kind |-> "valid",
   target |-> IF disk.latch.kind = "valid" /\ disk.latch.target > snap.version
              THEN disk.latch.target ELSE snap.version,
   ids |-> disk.latch.ids \cup Enforcements]

\* persistStopOnlyLatch().
PersistLatch ==
  /\ pc = "latch"
  /\ \/ /\ WriteLatch(MergedLatch)
        /\ pc' = "stop"
        /\ UNCHANGED <<xrayVars, memVars, ctl, snap, polled, faults>>
     \/ /\ WriteLatchFails(MergedLatch)
        /\ Stop /\ Release /\ EndCycle
  /\ UNCHANGED <<cpVars, confirmed, checked, now>>

\* enterFailClosed('uncommanded-revoke-latch').
StopLatched ==
  /\ pc = "stop"
  /\ Stop /\ Release /\ EndCycle
  /\ UNCHANGED <<cpVars, disk, synced, confirmed, checked, now>>

-----------------------------------------------------------------------------
(* LocalStateReconcileLoop: reconcileLocalState() when its timer fires,    *)
(* nextLocalReconcileAt() after a notification.                            *)

\* Mutant: the loop looks at the state file only.
LocalStopsLoose == disk.state.kind # "valid"

LocalStops == disk.latch.kind # "missing" \/ disk.state.kind # "valid"

\* The clock is untrusted, the latch stands, or the state cannot be used.
LocalStop ==
  /\ pc = "free"
  /\ \/ LocalStops /\ Stop
     \/ ClockStop
  /\ checked' = TRUE
  /\ UNCHANGED <<cpVars, disk, synced, confirmed, ctl, snap, pc, polled, now>>

\* The sync of an unconfirmed state, or the stop before the expiry deadline, fails.
LocalAborted ==
  /\ pc = "free" /\ ~LocalStops
  /\ \/ ~confirmed /\ Stop
     \/ ~failClosed /\ ExpiryDue(disk.state.grants) /\ StopFails
  /\ checked' = TRUE
  /\ UNCHANGED <<cpVars, disk, synced, confirmed, ctl, snap, pc, polled, now>>

\* reconcileLocalState() up to applyClients(), which it skips when it sees the
\* container serve what it should (the probe may fail).
LocalCheck ==
  /\ pc = "free" /\ ~LocalStops
  /\ EnsureDurable
  /\ IF ~failClosed /\ ExpiryDue(disk.state.grants) THEN StopOk
     ELSE UNCHANGED <<xrayVars, memVars, faults>>
  /\ \/ /\ ~failClosed' /\ up' /\ fingerprint' = FingerprintOf(Servable(disk.state.grants))
        /\ checked' = TRUE /\ UNCHANGED pc
     \/ /\ pc' = "local"
        /\ UNCHANGED checked
  /\ UNCHANGED <<cpVars, ctl, snap, polled, now>>

LocalRun ==
  /\ pc = "local"
  /\ LET clients == Servable(disk.state.grants)
     IN \E seen \in ObservedServing, r \in ApplyOutcomes(clients, TRUE) :
       \/ /\ r.ok
          /\ config' = r.config /\ up' = r.up /\ users' = r.users
          /\ failClosed' = FALSE /\ fingerprint' = FingerprintOf(clients)
          /\ UNCHANGED faults
       \/ /\ ~r.ok
          /\ IF failClosed \/ ~seen \/ ExpiryDue(disk.state.grants) THEN StopAfter(r)
             ELSE /\ config' = r.config /\ up' = r.up /\ users' = r.users
                  /\ UNCHANGED <<memVars, faults>>
  /\ Release /\ checked' = TRUE
  /\ UNCHANGED <<cpVars, disk, synced, confirmed, ctl, snap, polled, now>>

-----------------------------------------------------------------------------
(* What happens to the node. *)

Boot ==
  /\ failClosed' = FALSE /\ fingerprint' = NoPrint /\ confirmed' = FALSE
  /\ ctl' = "idle" /\ snap' = NoSnap /\ Release
  /\ UNCHANGED <<cpVars, polled, checked, now>>

\* The process dies and systemd starts it again; the container runs on.
Crash ==
  /\ faults < MaxFaults /\ faults' = faults + 1
  /\ Boot
  /\ UNCHANGED <<disk, synced, xrayVars>>

\* The host loses power: what was not synced may be gone, the container is
\* down (restart: 'no').
PowerLoss ==
  /\ faults < MaxFaults /\ faults' = faults + 1
  /\ \E s \in {disk.state, synced.state}, l \in {disk.latch, synced.latch} :
       disk' = [state |-> s, latch |-> l] /\ synced' = disk'
  /\ up' = FALSE /\ users' = {} /\ UNCHANGED config
  /\ Boot

\* The container dies.
XrayDies ==
  /\ up /\ faults < MaxFaults /\ faults' = faults + 1
  /\ up' = FALSE /\ users' = {}
  /\ UNCHANGED <<cpVars, disk, synced, config, memVars, confirmed, ctl, snap,
                 pc, polled, checked, now>>

\* The state file, or the latch, is damaged where it lies.
Corrupt ==
  /\ pc = "free" /\ faults < MaxFaults /\ faults' = faults + 1
  /\ \/ /\ disk.state.kind = "valid"
        /\ disk' = [disk EXCEPT !.state = BadState]
        /\ synced' = [synced EXCEPT !.state = BadState]
     \/ /\ disk.latch.kind = "valid"
        /\ disk' = [disk EXCEPT !.latch = BadLatch]
        /\ synced' = [synced EXCEPT !.latch = BadLatch]
  /\ UNCHANGED <<cpVars, xrayVars, memVars, confirmed, ctl, snap, pc,
                 polled, checked, now>>

\* A tick is longer than an operation, a poll and a check interval: each loop
\* has had a turn.
Tick ==
  /\ now < MaxNow /\ polled /\ checked /\ pc = "free" /\ ctl = "idle"
  /\ now' = now + 1 /\ polled' = FALSE /\ checked' = FALSE
  /\ UNCHANGED <<cpVars, disk, synced, xrayVars, memVars, confirmed, ctl, snap,
                 pc, faults>>

-----------------------------------------------------------------------------
\* The node joins with the grants it already has, on an empty disk.
Init ==
  /\ desired = 0 /\ applied = 0 /\ command = FALSE
  /\ grant = [g \in Grants |-> [status |-> IF g \in Known THEN "ACTIVE" ELSE "NONE",
                                revokedAt |-> 0, version |-> 0]]
  /\ disk = [state |-> NoState, latch |-> NoLatch] /\ synced = disk
  /\ config = {} /\ up = FALSE /\ users = {}
  /\ failClosed = FALSE /\ fingerprint = NoPrint /\ confirmed = FALSE
  /\ ctl = "idle" /\ snap = NoSnap
  /\ pc = "free"
  /\ polled = FALSE /\ checked = FALSE /\ now = 0 /\ faults = 0

ControlPlane == (\E g \in Grants : IssueGrant(g) \/ RevokeGrant(g)) \/ OtherChange \/ IssueCommand
Cycle == Fetch \/ FetchFails \/ CycleClockUntrusted \/ Acknowledge
Apply == ApplyAborted \/ ApplyCheck \/ ApplyRun \/ Persist \/ ClearLatch
Enforce == EnforceCheck \/ EnforceAborted \/ PersistLatch \/ StopLatched
Local == LocalStop \/ LocalAborted \/ LocalCheck \/ LocalRun
Fault == Crash \/ PowerLoss \/ XrayDies \/ Corrupt

Next == ControlPlane \/ Cycle \/ Apply \/ Enforce \/ Local \/ Fault \/ Tick

Spec == Init /\ [][Next]_vars

-----------------------------------------------------------------------------
\* The grant is let in now.
Served(g) == up /\ g \in users

\* The durable state says it may be: the agent will count its deadlines.
Recorded(g) == disk.state.kind = "valid" /\ Live(disk.state.grants[g])

\* What the control plane takes for applied survives a power loss (unless the
\* file itself is damaged): the agent
\* acknowledges a version only after the state file holding it, and the
\* directory entry it was renamed to, are synced.
AcknowledgedIsDurable ==
  synced.state.kind # "invalid" => synced.state.version >= applied

\* A cycle that knows of a revoke whose time is almost up does not end with
\* the client let in, however it ends: commanded or not, with the reload, the
\* state file or the latch failing.  Only a docker command that does not stop
\* the container, or the death of the agent, is left.
CycleEndsRevoked ==
  [][\A g \in RevokedSince(disk.state.grants, snap.grants) :
       /\ disk.state.kind = "valid" /\ Due(snap.grants[g].revokedAt)
       /\ ctl # "idle" /\ ctl' = "idle" /\ faults' = faults
       => ~Served(g)']_vars

\* The revoke stays enforced after its SLA (when the control plane can always
\* be reached).
RevokeWithinSla ==
  \A g \in Grants : grant[g].status = "REVOKED" /\ now >= grant[g].revokedAt + Sla => ~Served(g)

\* A client the state file lets in is out when its expiry is older than the
\* SLA, however often the reload fails and without the control plane.
ExpiryWithinSla ==
  \A g \in Grants : now >= Until[g] + Sla /\ Recorded(g) => ~Served(g)

\* No step, not even one after a crash or from an older snapshot, lets in a
\* client the stop-only latch on disk names.
LatchedStaysOut ==
  [][\A g \in disk.latch.ids : Served(g)' => Served(g)]_vars
=============================================================================
