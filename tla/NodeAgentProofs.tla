-------------------------- MODULE NodeAgentProofs --------------------------
(***************************************************************************)
(* Proofs about NodeAgent, for any grants, terms, versions and number of   *)
(* faults.                                                                 *)
(***************************************************************************)
EXTENDS NodeAgent, TLAPS

-----------------------------------------------------------------------------
(* The inductive invariant, in named parts.                                *)

StateFile == [kind : Kinds, version : Versions, grants : [Grants -> Entry]]
LatchFile == [kind : Kinds, target : Versions, ids : SUBSET Grants]
Files     == [state : StateFile, latch : LatchFile]
Row       == [status : Status, revokedAt : 0..MaxNow, version : Versions]
Snapshot  == [version : Versions, grants : [Grants -> Entry]]

\* The control plane: no version is ahead of the desired one, and a revoke
\* always asks for a new one.
ControlOK ==
  /\ desired \in Versions /\ applied \in Versions /\ applied <= desired
  /\ command \in BOOLEAN
  /\ grant \in [Grants -> Row]
  /\ \A g \in Grants : /\ grant[g].version <= desired
                       /\ grant[g].status = "REVOKED" => grant[g].version # 0

\* A snapshot shows as revoked exactly the revokes its version covers.
Truthful(s) ==
  \A g \in Grants : s.grants[g].status = "REVOKED"
                      <=> (grant[g].status = "REVOKED" /\ grant[g].version <= s.version)

\* A state file: truthful, and not behind what the control plane takes for
\* applied.
GoodState(s) ==
  /\ s \in StateFile /\ s.version <= desired
  /\ Truthful(s)
  /\ s.kind # "invalid" => s.version >= applied

\* A latch names revoked grants.
GoodLatch(l) ==
  /\ l \in LatchFile
  /\ l.kind = "missing" => l.ids = {}
  /\ \A g \in l.ids : grant[g].status = "REVOKED"

FilesOK ==
  /\ disk \in Files /\ synced \in Files
  /\ GoodState(disk.state) /\ GoodState(synced.state)
  /\ GoodLatch(disk.latch) /\ GoodLatch(synced.latch)

\* The container and what the adapter remembers of it: a fail-closed one is down.
RuntimeOK ==
  /\ config \subseteq Grants /\ up \in BOOLEAN /\ users \subseteq Grants
  /\ failClosed \in BOOLEAN
  /\ fingerprint \in [known : BOOLEAN, clients : SUBSET Grants]
  /\ failClosed => ~up

LoopsOK ==
  /\ ctl \in {"idle", "apply", "confirm", "enforce", "ack"}
  /\ pc \in {"free", "run", "persist", "clear", "latch", "stop", "local"}
  /\ confirmed \in BOOLEAN /\ polled \in BOOLEAN /\ checked \in BOOLEAN
  /\ now \in 0..MaxNow /\ faults \in 0..MaxFaults

SnapOK == snap \in Snapshot /\ snap.version <= desired /\ Truthful(snap)

\* A cycle works with a snapshot no older than what was acknowledged and what
\* is on disk; it shows credentials only of accesses that have not ended, and
\* shows as revoked what a latch names.
CycleOK == ctl # "idle" =>
  /\ applied <= snap.version /\ disk.state.version <= snap.version
  /\ \A g \in Grants : snap.grants[g].cred => Until[g] > now
  /\ \A g \in disk.latch.ids \cup synced.latch.ids : snap.grants[g].status = "REVOKED"

\* The exclusive operation is the one the control-plane loop waits for, or the
\* local loop's, which runs only without a latch and with a readable state.
PlacesOK ==
  /\ pc \in {"run", "persist", "clear"} => ctl \in {"apply", "confirm"}
  /\ pc \in {"latch", "stop"} => ctl = "enforce"
  /\ pc = "local" => disk.latch.kind = "missing" /\ disk.state.kind = "valid"

\* The file holds the snapshot of the cycle.
Holds(s) == s.version = snap.version /\ s.grants = snap.grants

\* While applyClients() runs, an equal version means an equal snapshot; when the
\* snapshot is recorded, the files hold it unless damaged.
SnapshotHeld ==
  /\ pc = "run" /\ SameVersion => Holds(disk.state)
  /\ pc = "clear" \/ ctl = "ack" =>
       /\ disk.state.kind # "invalid" => Holds(disk.state)
       /\ synced.state.kind # "invalid" => Holds(synced.state)

\* What an apply has just verified is let in may be.
FreshHeld == pc \in {"persist", "clear"} => \A g \in Grants : Served(g) => Until[g] > now

\* Past the moment the agent should have stopped a recorded client, each tick
\* has cost a fault.
OverdueHeld ==
  \A g \in Grants :
    Served(g) /\ Recorded(g) /\ Due(Until[g]) =>
      faults >= now - (Until[g] + Sla - Reserve) + (IF checked THEN 1 ELSE 0)

IndInv == /\ ControlOK /\ FilesOK /\ RuntimeOK /\ LoopsOK /\ SnapOK /\ CycleOK
          /\ PlacesOK /\ SnapshotHeld /\ FreshHeld /\ OverdueHeld

-----------------------------------------------------------------------------
(* What a step does to the clients that are let in.                        *)

\* Nobody new is let in whose access has ended or whom the latch names.
ServesNoNew ==
  \A g \in Grants : Served(g)' => Served(g) \/ (Until[g] > now /\ g \notin disk.latch.ids)

\* Nobody is newly recorded whose access has ended.
RecordsNoOld == \A g \in Grants : Served(g)' /\ Recorded(g)' => Recorded(g) \/ Until[g] > now

\* A turn of the local loop costs a fault or leaves nobody in who is overdue.
CheckedPays ==
  checked' => \/ checked
              \/ faults' > faults
              \/ \A g \in Grants : Served(g)' /\ Recorded(g)' => ~Due(Until[g])

\* CycleEndsRevoked of one step.
EndsRevoked ==
  \A g \in RevokedSince(disk.state.grants, snap.grants) :
       /\ disk.state.kind = "valid" /\ Due(snap.grants[g].revokedAt)
       /\ ctl # "idle" /\ ctl' = "idle" /\ faults' = faults
       => ~Served(g)'

\* LatchedStaysOut of one step.
LatchedOut == \A g \in disk.latch.ids : Served(g)' => Served(g)

\* The end of a stop: whoever is still let in has cost a fault.
Stops ==
  /\ RuntimeOK' /\ faults' \in 0..MaxFaults /\ faults <= faults'
  /\ ServesNoNew
  /\ \A g \in Grants : Served(g)' => faults' > faults

\* The sets that the types are made of, written out.
USE DEF Versions, Status, Kinds

\* The bounds and terms are numbers.
LEMMA Numbers ==
  /\ MaxVersion \in Nat /\ MaxNow \in Nat /\ MaxFaults \in Nat
  /\ Sla \in Nat /\ Reserve \in Nat /\ Reserve < Sla
  /\ \A g \in Grants : Until[g] \in Nat
  BY NodeAgentAssumption

\* A stop, whatever came of it.
LEMMA StopStops ==
  ASSUME IndInv, Stop \/ ClockStop
  PROVE  Stops
<1>1. RuntimeOK /\ faults \in 0..MaxFaults /\ MaxFaults \in Nat
  BY Numbers DEF IndInv, LoopsOK
<1>2. NoPrint \in [known : BOOLEAN, clients : SUBSET Grants]
  BY DEF NoPrint
<1>3. /\ config' = config /\ fingerprint' = NoPrint /\ failClosed' \in BOOLEAN
      /\ \/ up' = FALSE /\ users' = {}
         \/ up' = up /\ users' = users /\ failClosed' = FALSE /\ faults' = faults + 1
      /\ faults' = faults \/ (faults < MaxFaults /\ faults' = faults + 1)
  BY DEF Stop, StopOk, Stopped, StopFails, ClockStop
<1>4. RuntimeOK'
  <2>1. CASE up' = FALSE /\ users' = {}
    BY <1>1, <1>2, <1>3, <2>1 DEF RuntimeOK
  <2>2. CASE up' = up /\ users' = users /\ failClosed' = FALSE
    BY <1>1, <1>2, <1>3, <2>2 DEF RuntimeOK
  <2>3. QED
    BY <1>3, <2>1, <2>2
<1>5. faults' \in 0..MaxFaults /\ faults <= faults'
  BY <1>1, <1>3
<1>6. ServesNoNew
  BY <1>3 DEF ServesNoNew, Served
<1>7. \A g \in Grants : Served(g)' => faults' = faults + 1
  BY <1>3 DEF Served
<1>8. QED
  BY <1>1, <1>4, <1>5, <1>6, <1>7 DEF Stops

\* What applyClients() may leave behind.
LEMMA OutcomeFacts ==
  ASSUME NEW clients, NEW reload, NEW r \in ApplyOutcomes(clients, reload)
  PROVE  /\ r.config \in {config, clients}
         /\ \/ r.up = up /\ r.users = users
            \/ r.up = TRUE /\ r.users = clients
            \/ r.up = FALSE /\ r.users = {}
         /\ r.ok => r.up /\ r.users = clients
<1> DEFINE Outcome(file, xray, good) ==
             [config |-> file, up |-> xray.up, users |-> xray.users, ok |-> good]
           current == [up |-> up, users |-> users]
<1>1. \/ \E file \in {config, clients} : r = Outcome(file, current, FALSE)
      \/ config = clients /\ r = Outcome(config, current, Verified(current, clients))
      \/ \E xray \in Reloaded(clients) : r = Outcome(clients, xray, FALSE)
      \/ \E xray \in Reloaded(clients) : Verified(xray, clients) /\ r = Outcome(clients, xray, TRUE)
  BY DEF ApplyOutcomes, WriteRuntimeConfig
<1>2. CASE \E file \in {config, clients} : r = Outcome(file, current, FALSE)
  BY <1>2
<1>3. CASE config = clients /\ r = Outcome(config, current, Verified(current, clients))
  BY <1>3 DEF Verified, InspectServingClients
<1>4. CASE \E xray \in Reloaded(clients) : r = Outcome(clients, xray, FALSE)
  BY <1>4 DEF Reloaded
<1>5. CASE \E xray \in Reloaded(clients) : Verified(xray, clients) /\ r = Outcome(clients, xray, TRUE)
  BY <1>5 DEF Reloaded, Verified, InspectServingClients
<1>6. QED
  BY <1>1, <1>2, <1>3, <1>4, <1>5

\* After it, those let in were let in before or are meant to be.
LEMMA OutcomeServes ==
  ASSUME IndInv, NEW clients \in SUBSET Grants, NEW reload, NEW r \in ApplyOutcomes(clients, reload),
         \A g \in clients : Until[g] > now /\ g \notin disk.latch.ids,
         config' = r.config, up' = r.up, users' = r.users
  PROVE  /\ config' \subseteq Grants /\ up' \in BOOLEAN /\ users' \subseteq Grants
         /\ ServesNoNew
         /\ r.ok => up' /\ users' = clients
<1>1. config \subseteq Grants /\ up \in BOOLEAN /\ users \subseteq Grants
  BY DEF IndInv, RuntimeOK
<1>2. /\ r.config \in {config, clients}
      /\ \/ r.up = up /\ r.users = users
         \/ r.up = TRUE /\ r.users = clients
         \/ r.up = FALSE /\ r.users = {}
      /\ r.ok => r.up /\ r.users = clients
  BY OutcomeFacts
<1>3. /\ config' \in {config, clients}
      /\ \/ up' = up /\ users' = users
         \/ up' = TRUE /\ users' = clients
         \/ up' = FALSE /\ users' = {}
  BY <1>2
<1>4. r.ok => up' /\ users' = clients
  BY <1>2
<1>5. ServesNoNew
  BY <1>3 DEF ServesNoNew, Served
<1>6. QED
  BY <1>1, <1>3, <1>4, <1>5

\* failClosedAndRethrow() after it.
LEMMA StopAfterStops ==
  ASSUME IndInv, NEW clients \in SUBSET Grants, NEW reload, NEW r \in ApplyOutcomes(clients, reload),
         \A g \in clients : Until[g] > now /\ g \notin disk.latch.ids,
         StopAfter(r)
  PROVE  Stops
<1>1. RuntimeOK /\ faults \in 0..MaxFaults /\ MaxFaults \in Nat
  BY Numbers DEF IndInv, LoopsOK
<1>2. NoPrint \in [known : BOOLEAN, clients : SUBSET Grants]
  BY DEF NoPrint
<1>3. /\ r.config \in {config, clients}
      /\ \/ r.up = up /\ r.users = users
         \/ r.up = TRUE /\ r.users = clients
         \/ r.up = FALSE /\ r.users = {}
  BY OutcomeFacts
<1>4. RuntimeOK'
  BY <1>1, <1>2, <1>3 DEF StopAfter, RuntimeOK
<1>5. faults' \in 0..MaxFaults /\ faults <= faults'
  BY <1>1 DEF StopAfter
<1>6. ServesNoNew
  BY <1>3 DEF StopAfter, ServesNoNew, Served
<1>7. \A g \in Grants : Served(g)' => faults' > faults
  BY <1>1 DEF StopAfter, Served
<1>8. QED
  BY <1>4, <1>5, <1>6, <1>7 DEF Stops

-----------------------------------------------------------------------------
(* How the parts of the invariant carry over a step.                       *)

\* A file with one part replaced.
LEMMA FileWritten ==
  ASSUME NEW f \in Files, NEW s \in StateFile, NEW l \in LatchFile
  PROVE  /\ f.state \in StateFile /\ f.latch \in LatchFile
         /\ [f EXCEPT !.state = s] \in Files
         /\ [f EXCEPT !.state = s].state = s /\ [f EXCEPT !.state = s].latch = f.latch
         /\ [f EXCEPT !.latch = l] \in Files
         /\ [f EXCEPT !.latch = l].latch = l /\ [f EXCEPT !.latch = l].state = f.state
         /\ [state |-> s, latch |-> l] \in Files
  BY DEF Files

\* One of the two files replaced: the latch.
LEMMA LatchReplaced ==
  ASSUME NEW f \in Files, NEW l \in LatchFile, NEW new, new = [f EXCEPT !.latch = l]
  PROVE  new \in Files /\ new.state = f.state /\ new.latch = l
BY DEF Files

\* The files stay good when their parts are.
LEMMA FilesKeep ==
  ASSUME UNCHANGED <<desired, applied, grant>>, disk' \in Files, synced' \in Files,
         GoodState(disk'.state), GoodState(synced'.state),
         GoodLatch(disk'.latch), GoodLatch(synced'.latch)
  PROVE  FilesOK'
<1>1. GoodState(disk.state)' /\ GoodState(synced.state)'
  BY DEF GoodState, Truthful
<1>2. GoodLatch(disk.latch)' /\ GoodLatch(synced.latch)'
  BY DEF GoodLatch
<1>3. QED
  BY <1>1, <1>2 DEF FilesOK

\* The client that is overdue has cost its faults.
LEMMA OverdueKeeps ==
  ASSUME IndInv, now' = now, faults' \in 0..MaxFaults, faults <= faults', checked' \in BOOLEAN,
         ServesNoNew, RecordsNoOld, CheckedPays
  PROVE  OverdueHeld'
<1> SUFFICES ASSUME NEW g \in Grants, Served(g)', Recorded(g)', Due(Until[g])
             PROVE  faults' >= now - (Until[g] + Sla - Reserve) + (IF checked' THEN 1 ELSE 0)
  BY DEF OverdueHeld, Due
<1>1. /\ now \in Nat /\ faults \in Nat /\ faults' \in Nat /\ Until[g] \in Nat
      /\ Sla \in Nat /\ Reserve \in Nat /\ Reserve < Sla /\ checked \in BOOLEAN
  BY Numbers DEF IndInv, LoopsOK
<1>2. ~(Until[g] > now)
  BY <1>1 DEF Due
<1>3. Served(g) /\ Recorded(g)
  BY <1>2 DEF ServesNoNew, RecordsNoOld
<1>4. faults >= now - (Until[g] + Sla - Reserve) + (IF checked THEN 1 ELSE 0)
  BY <1>3 DEF IndInv, OverdueHeld
<1>5. checked' => checked \/ faults' > faults
  BY DEF CheckedPays
<1>6. CASE checked' /\ ~checked
  BY <1>1, <1>4, <1>5, <1>6
<1>7. CASE ~checked' \/ checked
  BY <1>1, <1>4, <1>7
<1>8. QED
  BY <1>6, <1>7

\* No snapshot is in hand.
LEMMA NoSnapOK ==
  ASSUME ControlOK, ControlOK', snap' = NoSnap
  PROVE  SnapOK'
<1>1. NoGrants \in [Grants -> Entry] /\ \A g \in Grants : NoGrants[g].status = "NONE"
  BY Numbers DEF NoGrants, NoEntry, Entry
<1>2. NoSnap.version = 0 /\ NoSnap.grants = NoGrants /\ 0 \in Versions
  BY Numbers DEF NoSnap
<1>3. NoSnap \in Snapshot
  BY <1>1, <1>2 DEF NoSnap, Snapshot
<1>4. \A g \in Grants : grant'[g].version \in Nat /\ (grant'[g].status = "REVOKED" => grant'[g].version # 0)
  BY Numbers DEF ControlOK, Row
<1>5. Truthful(snap)'
  BY <1>1, <1>2, <1>4 DEF Truthful
<1>6. 0 <= desired'
  BY Numbers DEF ControlOK
<1>7. QED
  BY <1>2, <1>3, <1>5, <1>6 DEF SnapOK

\* A step that ends a cycle, or takes place outside one.
LEMMA EndKeeps ==
  ASSUME IndInv, UNCHANGED <<desired, applied, command, grant, now>>,
         ctl' = "idle", snap' = NoSnap, pc' \in {"free", "local"}, PlacesOK',
         confirmed' \in BOOLEAN, polled' \in BOOLEAN, checked' \in BOOLEAN,
         faults' \in 0..MaxFaults, faults <= faults',
         FilesOK', RuntimeOK', ServesNoNew, RecordsNoOld, CheckedPays
  PROVE  IndInv'
<1>1. ControlOK /\ LoopsOK
  BY DEF IndInv
<1>2. ControlOK'
  BY <1>1 DEF ControlOK
<1>3. SnapOK'
  BY <1>1, <1>2, NoSnapOK
<1>4. LoopsOK'
  BY <1>1 DEF LoopsOK
<1>5. CycleOK' /\ SnapshotHeld' /\ FreshHeld'
  BY DEF CycleOK, SnapshotHeld, FreshHeld
<1>6. OverdueHeld'
  BY OverdueKeeps
<1>7. QED
  BY <1>2, <1>3, <1>4, <1>5, <1>6 DEF IndInv

\* A step within a cycle, or of the local loop.
LEMMA GoesOnKeeps ==
  ASSUME IndInv, UNCHANGED <<desired, applied, command, grant, now, snap, polled>>,
         ctl' \in {"idle", "apply", "confirm", "enforce", "ack"}, ctl' # "idle" => ctl # "idle",
         pc' \in {"free", "run", "persist", "clear", "latch", "stop", "local"},
         confirmed' \in BOOLEAN, checked' \in BOOLEAN,
         faults' \in 0..MaxFaults, faults <= faults',
         FilesOK', RuntimeOK', PlacesOK', SnapshotHeld', FreshHeld',
         ctl' # "idle" => /\ disk'.state.version <= snap.version
                          /\ \A g \in disk'.latch.ids \cup synced'.latch.ids :
                                snap.grants[g].status = "REVOKED",
         ServesNoNew, RecordsNoOld, CheckedPays
  PROVE  IndInv'
<1>1. ControlOK /\ LoopsOK /\ SnapOK /\ CycleOK
  BY DEF IndInv
<1>2. ControlOK'
  BY <1>1 DEF ControlOK
<1>3. SnapOK'
  BY <1>1 DEF SnapOK, Truthful
<1>4. LoopsOK'
  BY <1>1 DEF LoopsOK
<1>5. CycleOK'
  BY <1>1 DEF CycleOK
<1>6. OverdueHeld'
  BY OverdueKeeps
<1>7. QED
  BY <1>2, <1>3, <1>4, <1>5, <1>6 DEF IndInv

\* A step that ends a cycle with a stop keeps everything.
LEMMA StoppedEndKeeps ==
  ASSUME IndInv, UNCHANGED <<desired, applied, command, grant, now>>,
         ctl' = "idle", snap' = NoSnap, pc' = "free",
         confirmed' \in BOOLEAN, polled' \in BOOLEAN, checked' \in BOOLEAN,
         FilesOK', RecordsNoOld, Stops
  PROVE  IndInv' /\ LatchedOut /\ EndsRevoked
<1>1. faults \in Nat /\ faults' \in Nat
  BY Numbers DEF IndInv, LoopsOK, Stops
<1>2. /\ RuntimeOK' /\ faults' \in 0..MaxFaults /\ faults <= faults' /\ ServesNoNew
      /\ \A g \in Grants : Served(g)' => faults' > faults
  BY DEF Stops
<1>3. CheckedPays
  BY <1>1, <1>2 DEF CheckedPays
<1>4. PlacesOK'
  BY DEF PlacesOK
<1>5. IndInv'
  BY <1>2, <1>3, <1>4, EndKeeps
<1>6. LatchedOut
  <2>1. disk.latch.ids \subseteq Grants
    BY DEF IndInv, FilesOK, GoodLatch, LatchFile
  <2>2. QED
    BY <1>2, <2>1 DEF LatchedOut, ServesNoNew
<1>7. EndsRevoked
  <2>1. RevokedSince(disk.state.grants, snap.grants) \subseteq Grants
    BY DEF RevokedSince
  <2>2. QED
    BY <1>1, <1>2, <2>1 DEF EndsRevoked
<1>8. QED
  BY <1>5, <1>6, <1>7

-----------------------------------------------------------------------------
(* Facts about snapshots, files and latches.                               *)

\* Nobody the latch names is let in anew.
LEMMA LatchedFromServes ==
  ASSUME IndInv, ServesNoNew
  PROVE  LatchedOut
<1>1. disk.latch.ids \subseteq Grants
  BY DEF IndInv, FilesOK, GoodLatch, LatchFile
<1>2. QED
  BY <1>1 DEF LatchedOut, ServesNoNew

\* Whom the snapshot of a cycle lets in, its latch does not name.
LEMMA SnapshotServesFresh ==
  ASSUME IndInv, ctl # "idle"
  PROVE  /\ Servable(snap.grants) \in SUBSET Grants
         /\ \A g \in Servable(snap.grants) : Until[g] > now /\ g \notin disk.latch.ids
  BY DEF IndInv, CycleOK, Servable, Live

\* Nor does the local loop, which finds no latch.
LEMMA LocalServesFresh ==
  ASSUME IndInv, disk.latch.kind = "missing"
  PROVE  /\ Servable(disk.state.grants) \in SUBSET Grants
         /\ \A g \in Servable(disk.state.grants) : Until[g] > now /\ g \notin disk.latch.ids
  BY DEF IndInv, FilesOK, GoodLatch, Servable, Live

\* Between two snapshots of one version nothing was revoked.
LEMMA SameVersionRevokesNothing ==
  ASSUME IndInv, disk.state.version = snap.version
  PROVE  RevokedSince(disk.state.grants, snap.grants) = {}
<1>1. Truthful(disk.state) /\ Truthful(snap)
  BY DEF IndInv, FilesOK, GoodState, SnapOK
<1>2. \A g \in Grants : snap.grants[g].status = "REVOKED" => disk.state.grants[g].status = "REVOKED"
  BY <1>1 DEF Truthful
<1>3. QED
  BY <1>2 DEF RevokedSince, Live

\* What a cycle records.
LEMMA NewStateGood ==
  ASSUME IndInv, ctl # "idle"
  PROVE  /\ GoodState(NewState) /\ NewState \in StateFile
         /\ NewState.kind = "valid" /\ NewState.version = snap.version /\ NewState.grants = snap.grants
<1>1. snap \in Snapshot /\ snap.version <= desired /\ Truthful(snap) /\ applied <= snap.version
  BY DEF IndInv, SnapOK, CycleOK
<1>2. /\ NewState.kind = "valid" /\ NewState.version = snap.version /\ NewState.grants = snap.grants
      /\ NewState \in StateFile
  BY <1>1 DEF NewState, StateFile, Snapshot
<1>3. Truthful(NewState)
  BY <1>1, <1>2 DEF Truthful
<1>4. NewState.version >= applied
  BY <1>1, <1>2, Numbers DEF Snapshot, IndInv, ControlOK
<1>5. QED
  BY <1>1, <1>2, <1>3, <1>4 DEF GoodState

\* A damaged state file claims nothing.
LEMMA BadStateGood ==
  ASSUME ControlOK
  PROVE  GoodState(BadState) /\ BadState \in StateFile /\ BadState.kind = "invalid" /\ BadState.version = 0
<1>1. NoGrants \in [Grants -> Entry] /\ \A g \in Grants : NoGrants[g].status = "NONE"
  BY Numbers DEF NoGrants, NoEntry, Entry
<1>2. BadState = [kind |-> "invalid", version |-> 0, grants |-> NoGrants]
  BY DEF BadState, NoState
<1>3. 0 \in Versions /\ 0 <= desired
  BY Numbers DEF ControlOK
<1>4. BadState \in StateFile /\ BadState.version = 0 /\ BadState.kind = "invalid" /\ BadState.grants = NoGrants
  BY <1>1, <1>2, <1>3 DEF StateFile
<1>5. \A g \in Grants : grant[g].version \in Nat /\ (grant[g].status = "REVOKED" => grant[g].version # 0)
  BY Numbers DEF ControlOK, Row
<1>6. Truthful(BadState)
  BY <1>1, <1>4, <1>5 DEF Truthful
<1>7. QED
  BY <1>3, <1>4, <1>6 DEF GoodState

\* No latch, or one that cannot be read, names nobody.
LEMMA EmptyLatchesGood ==
  /\ GoodLatch(NoLatch) /\ NoLatch \in LatchFile /\ NoLatch.ids = {}
  /\ GoodLatch(BadLatch) /\ BadLatch \in LatchFile /\ BadLatch.ids = {}
<1>1. BadLatch = [kind |-> "invalid", target |-> 0, ids |-> {}]
  BY DEF BadLatch, NoLatch
<1>2. 0 \in Versions
  BY Numbers
<1>3. NoLatch \in LatchFile /\ NoLatch.ids = {} /\ BadLatch \in LatchFile /\ BadLatch.ids = {}
  BY <1>1, <1>2 DEF NoLatch, LatchFile
<1>4. QED
  BY <1>3 DEF GoodLatch

\* The latch a cycle writes names what its snapshot shows as revoked.
LEMMA MergedLatchGood ==
  ASSUME IndInv, ctl # "idle"
  PROVE  /\ GoodLatch(MergedLatch) /\ MergedLatch \in LatchFile
         /\ \A g \in MergedLatch.ids : snap.grants[g].status = "REVOKED"
<1>1. /\ disk.latch \in LatchFile /\ snap \in Snapshot /\ Truthful(snap)
      /\ \A g \in disk.latch.ids : snap.grants[g].status = "REVOKED"
  BY DEF IndInv, FilesOK, GoodLatch, SnapOK, CycleOK
<1>2. Enforcements \subseteq Grants /\ \A g \in Enforcements : snap.grants[g].status = "REVOKED"
  BY DEF Enforcements, RevokedSince, RevokedIn
<1>3. MergedLatch.kind = "valid" /\ MergedLatch.ids = disk.latch.ids \cup Enforcements
  BY DEF MergedLatch
<1>4. MergedLatch \in LatchFile
  <2>1. disk.latch.target \in Versions /\ snap.version \in Versions /\ disk.latch.ids \subseteq Grants
    BY <1>1 DEF LatchFile, Snapshot
  <2>2. QED
    BY <1>2, <2>1 DEF MergedLatch, LatchFile
<1>5. \A g \in MergedLatch.ids : g \in Grants /\ snap.grants[g].status = "REVOKED"
  BY <1>1, <1>2, <1>3 DEF LatchFile
<1>6. \A g \in MergedLatch.ids : grant[g].status = "REVOKED"
  BY <1>1, <1>5 DEF Truthful
<1>7. QED
  BY <1>3, <1>4, <1>5, <1>6 DEF GoodLatch

-----------------------------------------------------------------------------
(* The control plane.                                                      *)

\* A grant that is revoked stays, and a revoke takes a new version.
RowsMove ==
  \A g \in Grants : \/ grant'[g] = grant[g]
                    \/ grant[g].status # "REVOKED" /\ grant'[g].status # "REVOKED"
                    \/ grant[g].status # "REVOKED" /\ grant'[g].version = desired + 1

\* Snapshots stay truthful.
LEMMA TruthKeeps ==
  ASSUME ControlOK, RowsMove, NEW s, s.version \in Nat, s.version <= desired, Truthful(s)
  PROVE  Truthful(s)'
<1>1. desired \in Nat
  BY Numbers DEF ControlOK
<1>2. \A g \in Grants : s.grants[g].status = "REVOKED"
                      <=> (grant'[g].status = "REVOKED" /\ grant'[g].version <= s.version)
  BY <1>1 DEF RowsMove, Truthful
<1>3. QED
  BY <1>2 DEF Truthful

\* So do the files.
LEMMA FilesStayGood ==
  ASSUME IndInv, RowsMove, UNCHANGED <<disk, synced>>,
         desired' \in Nat, desired <= desired', applied' \in Nat,
         \A f \in {disk.state, synced.state} : f.kind # "invalid" => f.version >= applied'
  PROVE  FilesOK'
<1>1. ControlOK /\ FilesOK /\ desired \in Nat
  BY Numbers DEF IndInv, ControlOK
<1>2. ASSUME NEW f, f \in {disk.state, synced.state} PROVE GoodState(f)'
  <2>1. f \in StateFile /\ f.version <= desired /\ Truthful(f)
    BY <1>1, <1>2 DEF FilesOK, GoodState
  <2>2. f.version \in Nat
    BY <2>1, Numbers DEF StateFile
  <2>3. Truthful(f)'
    BY <1>1, <2>1, <2>2, TruthKeeps
  <2>4. f.version <= desired'
    BY <1>1, <2>1, <2>2
  <2>5. f.kind # "invalid" => f.version >= applied'
    BY <1>2
  <2>6. QED
    BY <2>1, <2>3, <2>4, <2>5 DEF GoodState
<1>3. ASSUME NEW l, l \in {disk.latch, synced.latch} PROVE GoodLatch(l)'
  <2>1. GoodLatch(l)
    BY <1>1, <1>3 DEF FilesOK
  <2>2. l.ids \subseteq Grants
    BY <2>1 DEF GoodLatch, LatchFile
  <2>3. \A g \in l.ids : grant'[g].status = "REVOKED"
    BY <2>1, <2>2 DEF GoodLatch, RowsMove
  <2>4. QED
    BY <2>1, <2>3 DEF GoodLatch
<1>4. PICK ds, ss, dl, sl : ds = disk.state /\ ss = synced.state /\ dl = disk.latch /\ sl = synced.latch
  OBVIOUS
<1>5. GoodState(ds)' /\ GoodState(ss)' /\ GoodLatch(dl)' /\ GoodLatch(sl)'
  BY <1>2, <1>3, <1>4
<1>6. disk'.state = ds /\ synced'.state = ss /\ disk'.latch = dl /\ synced'.latch = sl
  BY <1>4
<1>7. GoodState(disk.state)' /\ GoodState(synced.state)'
  BY <1>5, <1>6 DEF GoodState, Truthful
<1>8. GoodLatch(disk.latch)' /\ GoodLatch(synced.latch)'
  BY <1>5, <1>6 DEF GoodLatch
<1>9. QED
  BY <1>1, <1>7, <1>8 DEF FilesOK

\* Changes at the control plane.
LEMMA ControlPlaneKeeps ==
  ASSUME IndInv, ControlPlane
  PROVE  IndInv' /\ LatchedOut /\ EndsRevoked
<1>1. /\ UNCHANGED <<applied, disk, synced, config, up, users, failClosed, fingerprint, confirmed,
                     ctl, snap, pc, polled, checked, now, faults>>
      /\ command' \in BOOLEAN
  BY DEF ControlPlane, IssueGrant, RevokeGrant, OtherChange, IssueCommand, Bump, xrayVars, memVars
<1>2. ControlOK /\ FilesOK /\ LoopsOK /\ SnapOK
  BY DEF IndInv
<1>3. desired \in Nat /\ MaxVersion \in Nat /\ MaxNow \in Nat /\ applied \in Nat /\ now \in 0..MaxNow
  BY <1>2, Numbers DEF ControlOK, LoopsOK
<1>4. desired' \in Versions /\ desired <= desired' /\ desired' \in Nat
  BY <1>2, <1>3 DEF ControlPlane, IssueGrant, RevokeGrant, OtherChange, IssueCommand, Bump, ControlOK
<1> DEFINE Moved == \E g \in Grants : \E row \in Row :
             /\ grant[g].status # "REVOKED" /\ row.version = desired + 1 /\ desired' = desired + 1
             /\ grant' = [grant EXCEPT ![g] = row]
<1>5. grant' = grant \/ Moved
  <2>1. CASE OtherChange \/ IssueCommand
    BY <2>1 DEF OtherChange, IssueCommand
  <2>2. ASSUME NEW g \in Grants, IssueGrant(g) PROVE Moved
    <3>1. desired + 1 \in Versions /\ 0 \in 0..MaxNow /\ desired' = desired + 1
      BY <1>3, <2>2 DEF IssueGrant, Bump
    <3> DEFINE row == [status |-> "PENDING", revokedAt |-> 0, version |-> desired + 1]
    <3>2. row \in Row /\ row.version = desired + 1
      BY <3>1 DEF Row
    <3>3. grant[g].status # "REVOKED" /\ grant' = [grant EXCEPT ![g] = row]
      BY <2>2 DEF IssueGrant
    <3> HIDE DEF row
    <3>4. QED
      BY <3>1, <3>2, <3>3
  <2>3. ASSUME NEW g \in Grants, RevokeGrant(g) PROVE Moved
    <3>1. desired + 1 \in Versions /\ desired' = desired + 1
      BY <1>3, <2>3 DEF RevokeGrant, Bump
    <3> DEFINE row == [status |-> "REVOKED", revokedAt |-> now, version |-> desired + 1]
    <3>2. row \in Row /\ row.version = desired + 1
      BY <1>3, <3>1 DEF Row
    <3>3. grant[g].status # "REVOKED" /\ grant' = [grant EXCEPT ![g] = row]
      BY <2>3 DEF RevokeGrant
    <3> HIDE DEF row
    <3>4. QED
      BY <3>1, <3>2, <3>3
  <2>4. QED
    BY <2>1, <2>2, <2>3 DEF ControlPlane
<1>6. RowsMove /\ grant' \in [Grants -> Row]
      /\ \A g \in Grants : \/ grant'[g] = grant[g]
                           \/ grant'[g].version = desired + 1 /\ desired' = desired + 1
  BY <1>2, <1>5 DEF RowsMove, ControlOK
<1>7. ControlOK'
  <2>1. \A g \in Grants : grant[g].version \in Nat
    BY <1>2, Numbers DEF ControlOK, Row
  <2>2. \A g \in Grants : /\ grant'[g].version <= desired'
                          /\ grant'[g].status = "REVOKED" => grant'[g].version # 0
    BY <1>2, <1>3, <1>4, <1>6, <2>1 DEF ControlOK
  <2>3. applied' \in Versions /\ applied' <= desired'
    BY <1>1, <1>2, <1>3, <1>4 DEF ControlOK
  <2>4. QED
    BY <1>1, <1>4, <1>6, <2>2, <2>3 DEF ControlOK
<1>8. FilesOK'
  <2>1. \A f \in {disk.state, synced.state} : f.kind # "invalid" => f.version >= applied'
    BY <1>1, <1>2 DEF FilesOK, GoodState
  <2>2. QED
    BY <1>1, <1>3, <1>4, <1>6, <2>1, FilesStayGood
<1>9. SnapOK'
  <2>1. PICK s : s = snap
    OBVIOUS
  <2>2. s \in Snapshot /\ s.version <= desired /\ Truthful(s) /\ s.version \in Nat
    BY <1>2, <2>1, Numbers DEF SnapOK, Snapshot
  <2>3. Truthful(s)' /\ s.version <= desired'
    BY <1>2, <1>3, <1>4, <1>6, <2>2, TruthKeeps
  <2>4. QED
    BY <1>1, <2>1, <2>2, <2>3 DEF SnapOK, Truthful
<1>10. RuntimeOK' /\ LoopsOK' /\ CycleOK' /\ PlacesOK' /\ SnapshotHeld' /\ FreshHeld' /\ OverdueHeld'
  <2>1. RuntimeOK' /\ LoopsOK'
    BY <1>1 DEF IndInv, RuntimeOK, LoopsOK
  <2>2. CycleOK' /\ PlacesOK'
    BY <1>1 DEF IndInv, CycleOK, PlacesOK
  <2>3. SnapshotHeld' /\ FreshHeld' /\ OverdueHeld'
    BY <1>1 DEF IndInv, SnapshotHeld, FreshHeld, OverdueHeld, Holds, SameVersion, Served, Recorded, Due
  <2>4. QED
    BY <2>1, <2>2, <2>3
<1>11. LatchedOut /\ EndsRevoked
  BY <1>1 DEF LatchedOut, EndsRevoked, Served
<1>12. QED
  BY <1>7, <1>8, <1>9, <1>10, <1>11 DEF IndInv

-----------------------------------------------------------------------------
(* The control-plane loop.                                                 *)

\* Nothing happens to the container.
LEMMA QuietRuntime ==
  ASSUME IndInv, UNCHANGED <<config, up, users, failClosed, fingerprint, faults>>
  PROVE  /\ RuntimeOK' /\ ServesNoNew /\ faults' \in 0..MaxFaults /\ faults <= faults'
         /\ \A g \in Grants : Served(g)' => Served(g)
<1>1. RuntimeOK /\ faults \in 0..MaxFaults /\ MaxFaults \in Nat
  BY Numbers DEF IndInv, LoopsOK
<1>2. QED
  BY <1>1 DEF RuntimeOK, ServesNoNew, Served

\* Nothing happens to the files.
LEMMA QuietFiles ==
  ASSUME IndInv, UNCHANGED <<desired, applied, grant, disk, synced>>
  PROVE  FilesOK' /\ RecordsNoOld
<1>1. FilesOK
  BY DEF IndInv
<1>2. FilesOK'
  BY <1>1 DEF FilesOK, GoodState, GoodLatch, Truthful
<1>3. RecordsNoOld
  BY DEF RecordsNoOld, Recorded
<1>4. QED
  BY <1>2, <1>3

\* A snapshot is fetched.
LEMMA FetchKeeps ==
  ASSUME IndInv, Fetch
  PROVE  IndInv' /\ LatchedOut /\ EndsRevoked
<1>1. /\ ctl = "idle" /\ snap' = [version |-> desired, grants |-> ShownGrants]
      /\ ctl' \in {"apply", "enforce", "confirm"}
      /\ UNCHANGED <<desired, applied, command, grant, disk, synced, config, up, users, failClosed,
                     fingerprint, confirmed, pc, polled, checked, now, faults>>
  BY DEF Fetch, cpVars, xrayVars, memVars
<1>2. ControlOK /\ FilesOK /\ RuntimeOK /\ LoopsOK /\ PlacesOK /\ FreshHeld /\ OverdueHeld
  BY DEF IndInv
<1>3. \A g \in Grants : grant[g] \in Row
  BY <1>2 DEF ControlOK
<1>4. /\ ShownGrants \in [Grants -> Entry]
      /\ \A g \in Grants : /\ ShownGrants[g].status = grant[g].status
                           /\ ShownGrants[g].cred => Until[g] > now
  BY <1>3 DEF ShownGrants, Entry, Row
<1>5. snap'.version = desired /\ snap'.grants = ShownGrants /\ snap' \in Snapshot
  BY <1>1, <1>2, <1>4 DEF Snapshot, ControlOK
<1>6. SnapOK'
  <2>1. snap'.version <= desired'
    BY <1>1, <1>2, <1>5, Numbers DEF ControlOK
  <2>2. Truthful(snap)'
    BY <1>1, <1>2, <1>4, <1>5 DEF Truthful, ControlOK
  <2>3. QED
    BY <1>5, <2>1, <2>2 DEF SnapOK
<1>7. CycleOK'
  <2>1. applied <= desired /\ disk.state.version <= desired
    BY <1>2 DEF ControlOK, FilesOK, GoodState
  <2>2. \A g \in disk.latch.ids \cup synced.latch.ids : g \in Grants /\ grant[g].status = "REVOKED"
    BY <1>2 DEF FilesOK, GoodLatch, LatchFile
  <2>3. QED
    BY <1>1, <1>4, <1>5, <2>1, <2>2 DEF CycleOK
<1>8. pc' \in {"free", "local"} /\ pc' = pc
  BY <1>1, <1>2 DEF LoopsOK, PlacesOK
<1>9. PlacesOK' /\ SnapshotHeld' /\ FreshHeld'
  BY <1>1, <1>2, <1>8 DEF PlacesOK, SnapshotHeld, FreshHeld
<1>10. ControlOK' /\ RuntimeOK' /\ LoopsOK'
  BY <1>1, <1>2 DEF ControlOK, RuntimeOK, LoopsOK
<1>11. OverdueHeld'
  BY <1>1, <1>2 DEF OverdueHeld, Served, Recorded, Due
<1>12. FilesOK'
  BY <1>1, QuietFiles
<1>13. LatchedOut /\ EndsRevoked
  BY <1>1 DEF LatchedOut, EndsRevoked, Served
<1>14. QED
  BY <1>6, <1>7, <1>9, <1>10, <1>11, <1>12, <1>13 DEF IndInv

\* The control plane does not answer.
LEMMA FetchFailsKeeps ==
  ASSUME IndInv, FetchFails
  PROVE  IndInv' /\ LatchedOut /\ EndsRevoked
<1>1. /\ ctl = "idle" /\ ctl' = "idle" /\ snap' = NoSnap /\ polled' \in BOOLEAN
      /\ UNCHANGED <<desired, applied, command, grant, disk, synced, config, up, users, failClosed,
                     fingerprint, confirmed, pc, checked, now, faults>>
  BY DEF FetchFails, EndCycle, cpVars, xrayVars, memVars
<1>2. /\ RuntimeOK' /\ ServesNoNew /\ faults' \in 0..MaxFaults /\ faults <= faults'
      /\ FilesOK' /\ RecordsNoOld
  BY <1>1, QuietRuntime, QuietFiles
<1>3. PlacesOK /\ LoopsOK
  BY DEF IndInv
<1>4. pc' \in {"free", "local"} /\ PlacesOK'
  BY <1>1, <1>3 DEF LoopsOK, PlacesOK
<1>5. CheckedPays /\ checked' \in BOOLEAN /\ confirmed' \in BOOLEAN
  BY <1>1, <1>3 DEF CheckedPays, LoopsOK
<1>6. IndInv'
  BY <1>1, <1>2, <1>4, <1>5, EndKeeps
<1>7. EndsRevoked
  BY <1>1 DEF EndsRevoked
<1>8. QED
  BY <1>2, <1>6, <1>7, LatchedFromServes

\* The acknowledgement, which may get lost.
LEMMA AcknowledgeKeeps ==
  ASSUME IndInv, Acknowledge
  PROVE  IndInv' /\ LatchedOut /\ EndsRevoked
<1>1. /\ ctl = "ack" /\ ctl' = "idle" /\ snap' = NoSnap /\ polled' \in BOOLEAN
      /\ UNCHANGED <<desired, disk, synced, config, up, users, failClosed,
                     fingerprint, confirmed, pc, checked, now, faults>>
  BY DEF Acknowledge, EndCycle, xrayVars, memVars
<1>2. ControlOK /\ FilesOK /\ RuntimeOK /\ LoopsOK /\ SnapOK /\ CycleOK /\ PlacesOK /\ SnapshotHeld
  BY DEF IndInv
<1>3. /\ applied \in Nat /\ desired \in Nat /\ snap.version \in Nat /\ snap.version \in Versions
      /\ applied <= snap.version /\ snap.version <= desired
  BY <1>1, <1>2, Numbers DEF ControlOK, SnapOK, Snapshot, CycleOK
<1>4. applied' \in {applied, snap.version} /\ applied' \in Versions /\ applied' <= desired'
  BY <1>1, <1>2, <1>3 DEF Acknowledge, AckVersion, ControlOK
<1>5. command' \in BOOLEAN
  BY <1>2 DEF Acknowledge, ControlOK
<1>6. /\ grant' \in [Grants -> Row]
      /\ \A g \in Grants : \/ grant'[g] = grant[g]
                           \/ /\ grant[g].status = "PENDING" /\ grant'[g].status = "ACTIVE"
                              /\ grant'[g].version = grant[g].version
  <2>1. CASE grant' = grant
    BY <1>2, <2>1 DEF ControlOK
  <2>2. CASE grant' = [g \in Grants |->
             IF grant[g].status = "PENDING" /\ grant[g].version <= AckVersion
             THEN [grant[g] EXCEPT !.status = "ACTIVE"] ELSE grant[g]]
    <3>1. ASSUME NEW g \in Grants
          PROVE  /\ [grant[g] EXCEPT !.status = "ACTIVE"] \in Row
                 /\ [grant[g] EXCEPT !.status = "ACTIVE"].status = "ACTIVE"
                 /\ [grant[g] EXCEPT !.status = "ACTIVE"].version = grant[g].version
                 /\ grant[g] \in Row
      BY <1>2 DEF ControlOK, Row
    <3>2. QED
      BY <2>2, <3>1
  <2>3. QED
    BY <2>1, <2>2 DEF Acknowledge
<1>7. RowsMove
  BY <1>6 DEF RowsMove
<1>8. ControlOK'
  <2>1. \A g \in Grants : /\ grant'[g].version <= desired'
                          /\ grant'[g].status = "REVOKED" => grant'[g].version # 0
    BY <1>1, <1>2, <1>6 DEF ControlOK
  <2>2. QED
    BY <1>1, <1>2, <1>4, <1>5, <1>6, <2>1 DEF ControlOK
<1>9. FilesOK'
  <2>1. ASSUME NEW f, f \in {disk.state, synced.state}, f.kind # "invalid" PROVE f.version >= applied'
    <3>1. f.version = snap.version
      BY <1>1, <1>2, <2>1 DEF SnapshotHeld, Holds
    <3>2. QED
      BY <1>3, <1>4, <3>1
  <2>2. QED
    BY <1>1, <1>3, <1>4, <1>7, <2>1, FilesStayGood
<1>10. SnapOK'
  BY <1>1, <1>2, <1>8, NoSnapOK
<1>11. pc' \in {"free", "local"} /\ pc' = pc
  BY <1>1, <1>2 DEF LoopsOK, PlacesOK
<1>12. PlacesOK' /\ SnapshotHeld' /\ FreshHeld' /\ CycleOK'
  BY <1>1, <1>2, <1>11 DEF PlacesOK, SnapshotHeld, FreshHeld, CycleOK
<1>13. RuntimeOK' /\ LoopsOK'
  BY <1>1, <1>2 DEF RuntimeOK, LoopsOK
<1>14. OverdueHeld'
  BY <1>1 DEF IndInv, OverdueHeld, Served, Recorded, Due
<1>15. LatchedOut
  BY <1>1 DEF LatchedOut, Served
<1>16. EndsRevoked
  <2>1. disk.state.kind = "valid" => disk.state.version = snap.version
    BY <1>1, <1>2 DEF SnapshotHeld, Holds
  <2>2. QED
    BY <2>1, SameVersionRevokesNothing DEF EndsRevoked
<1>17. QED
  BY <1>8, <1>9, <1>10, <1>12, <1>13, <1>14, <1>15, <1>16 DEF IndInv

\* The steps of the cycles that end with a stop and leave the files alone.
LEMMA StoppedCyclesKeep ==
  ASSUME IndInv, CycleClockUntrusted \/ ApplyAborted \/ EnforceAborted \/ StopLatched
  PROVE  IndInv' /\ LatchedOut /\ EndsRevoked
<1>1. /\ ctl' = "idle" /\ snap' = NoSnap /\ polled' \in BOOLEAN /\ pc' = "free"
      /\ UNCHANGED <<desired, applied, command, grant, disk, synced, confirmed, checked, now>>
  BY DEF CycleClockUntrusted, ApplyAborted, EnforceAborted, StopLatched, EndCycle, Release, cpVars
<1>2. Stop \/ ClockStop
  BY DEF CycleClockUntrusted, ApplyAborted, EnforceAborted, StopLatched, Stop
<1>3. confirmed' \in BOOLEAN /\ checked' \in BOOLEAN
  BY <1>1 DEF IndInv, LoopsOK
<1>4. QED
  BY <1>1, <1>2, <1>3, StopStops, QuietFiles, StoppedEndKeeps

\* A stop that succeeds, or none.
LEMMA MaybeStopped ==
  ASSUME IndInv, NEW stops \in BOOLEAN,
         IF stops THEN StopOk ELSE UNCHANGED <<xrayVars, memVars, faults>>
  PROVE  /\ RuntimeOK' /\ ServesNoNew /\ faults' = faults /\ faults' \in 0..MaxFaults /\ faults <= faults'
         /\ \A g \in Grants : Served(g)' => Served(g) /\ ~stops
<1>1. faults \in 0..MaxFaults /\ faults \in Nat
  BY Numbers DEF IndInv, LoopsOK
<1>2. CASE stops
  <2>1. StopOk
    BY <1>2
  <2>2. Stops
    BY <2>1, StopStops DEF Stop
  <2>3. up' = FALSE /\ faults' = faults
    BY <2>1 DEF StopOk, Stopped
  <2>4. QED
    BY <1>1, <2>2, <2>3 DEF Stops, Served
<1>3. CASE ~stops
  <2>1. UNCHANGED <<config, up, users, failClosed, fingerprint, faults>>
    BY <1>3 DEF xrayVars, memVars
  <2>2. QED
    BY <1>1, <1>3, <2>1, QuietRuntime
<1>4. QED
  BY <1>2, <1>3

\* The sync of a state that was not yet confirmed.
LEMMA DurableKeeps ==
  ASSUME IndInv, UNCHANGED <<desired, applied, grant>>, EnsureDurable
  PROVE  /\ FilesOK' /\ RecordsNoOld /\ confirmed' \in BOOLEAN
         /\ disk' = disk /\ synced'.latch = synced.latch
         /\ synced'.state \in {disk.state, synced.state}
<1>1. FilesOK /\ confirmed \in BOOLEAN
  BY DEF IndInv, LoopsOK
<1>2. disk \in Files /\ synced \in Files /\ disk.state \in StateFile /\ synced.latch \in LatchFile
  BY <1>1 DEF FilesOK, GoodState, GoodLatch
<1>3. disk' = disk /\ confirmed' \in BOOLEAN
      /\ (synced' = synced \/ synced' = [synced EXCEPT !.state = disk.state])
  BY <1>1 DEF EnsureDurable
<1>4. synced' \in Files /\ synced'.latch = synced.latch /\ synced'.state \in {disk.state, synced.state}
  <2>1. PICK written : written = [synced EXCEPT !.state = disk.state]
    OBVIOUS
  <2>2. written \in Files /\ written.latch = synced.latch /\ written.state = disk.state
    BY <1>2, <2>1, FileWritten
  <2>3. QED
    BY <1>2, <1>3, <2>1, <2>2
<1>5. FilesOK'
  BY <1>1, <1>2, <1>3, <1>4, FilesKeep DEF FilesOK
<1>6. RecordsNoOld
  BY <1>3 DEF RecordsNoOld, Recorded
<1>7. QED
  BY <1>3, <1>4, <1>5, <1>6

\* Everything before applyClients().
LEMMA ApplyCheckKeeps ==
  ASSUME IndInv, ApplyCheck
  PROVE  IndInv' /\ LatchedOut /\ EndsRevoked
<1>1. /\ pc = "free" /\ ctl \in {"apply", "confirm"}
      /\ UNCHANGED <<desired, applied, command, grant, checked, now>>
      /\ EnsureDurable
  BY DEF ApplyCheck, Applying, cpVars
<1>2. CycleOK /\ LoopsOK
  BY DEF IndInv
<1>3. PICK stops \in BOOLEAN : stops <=> ApplyStops
  OBVIOUS
<1>4. IF stops THEN StopOk ELSE UNCHANGED <<xrayVars, memVars, faults>>
  BY <1>3 DEF ApplyCheck
<1>5. /\ RuntimeOK' /\ ServesNoNew /\ faults' = faults /\ faults' \in 0..MaxFaults /\ faults <= faults'
      /\ \A g \in Grants : Served(g)' => Served(g) /\ ~stops
  BY <1>4, MaybeStopped
<1>6. /\ FilesOK' /\ RecordsNoOld /\ confirmed' \in BOOLEAN
      /\ disk' = disk /\ synced'.latch = synced.latch
  BY <1>1, DurableKeeps
<1>7. CheckedPays /\ checked' \in BOOLEAN
  BY <1>1, <1>2 DEF CheckedPays, LoopsOK
<1>8. LatchedOut
  BY <1>5, LatchedFromServes
<1>9. CASE Refused
  <2>1. ctl' = "idle" /\ snap' = NoSnap /\ polled' \in BOOLEAN /\ pc' = "free"
    BY <1>1, <1>9 DEF ApplyCheck, EndCycle
  <2>2. PlacesOK'
    BY <2>1 DEF PlacesOK
  <2>3. IndInv'
    BY <1>1, <1>5, <1>6, <1>7, <2>1, <2>2, EndKeeps
  <2>4. EndsRevoked
    <3>1. disk.state.version \in Nat /\ snap.version \in Nat
      BY Numbers DEF IndInv, FilesOK, GoodState, StateFile, SnapOK, Snapshot
    <3>2. disk.state.version = snap.version
      BY <1>1, <1>2, <1>9, <3>1 DEF Refused, CycleOK
    <3>3. QED
      BY <3>2, SameVersionRevokesNothing DEF EndsRevoked
  <2>5. QED
    BY <1>8, <2>3, <2>4
<1>10. CASE ~Refused
  <2>1. pc' = "run" /\ UNCHANGED <<ctl, snap, polled>>
    BY <1>10 DEF ApplyCheck
  <2>2. PlacesOK'
    BY <1>1, <2>1 DEF PlacesOK
  <2>3. SnapshotHeld'
    <3>1. SameVersion => Holds(disk.state)
      BY <1>10 DEF Refused, SameVersion, Holds, SnapshotHash
    <3>2. QED
      BY <1>1, <1>6, <2>1, <3>1 DEF SnapshotHeld, SameVersion, Holds
  <2>4. FreshHeld'
    BY <2>1 DEF FreshHeld
  <2>5. /\ disk'.state.version <= snap.version
        /\ \A g \in disk'.latch.ids \cup synced'.latch.ids : snap.grants[g].status = "REVOKED"
    BY <1>1, <1>2, <1>6 DEF CycleOK
  <2>6. IndInv'
    BY <1>1, <1>5, <1>6, <1>7, <2>1, <2>2, <2>3, <2>4, <2>5, GoesOnKeeps
  <2>7. EndsRevoked
    BY <1>1, <2>1 DEF EndsRevoked
  <2>8. QED
    BY <1>8, <2>6, <2>7
<1>11. QED
  BY <1>9, <1>10

\* applyClients() and its error path.
LEMMA ApplyRunKeeps ==
  ASSUME IndInv, ApplyRun
  PROVE  IndInv' /\ LatchedOut /\ EndsRevoked
<1>1. /\ pc = "run" /\ ctl \in {"apply", "confirm"}
      /\ UNCHANGED <<desired, applied, command, grant, disk, checked, now>>
  BY DEF ApplyRun, IndInv, PlacesOK, cpVars
<1>2. FilesOK /\ RuntimeOK /\ CycleOK /\ LoopsOK /\ SnapshotHeld
  BY DEF IndInv
<1>3. PICK clients : clients = Servable(snap.grants)
  OBVIOUS
<1>4. clients \in SUBSET Grants /\ \A g \in clients : Until[g] > now /\ g \notin disk.latch.ids
  BY <1>1, <1>3, SnapshotServesFresh
<1> DEFINE Good(r) ==
             /\ r.ok
             /\ config' = r.config /\ up' = r.up /\ users' = r.users
             /\ failClosed' = FALSE
             /\ pc' = IF SameVersion THEN "clear" ELSE "persist"
             /\ IF SameVersion
                THEN synced' = [synced EXCEPT !.state = disk.state] /\ confirmed' = TRUE
                ELSE UNCHANGED <<synced, confirmed>>
             /\ UNCHANGED <<fingerprint, ctl, snap, polled, faults>>
           Bad(seen, r) ==
             /\ ~r.ok \/ SameVersion
             /\ IF StopsOnError(seen) THEN StopAfter(r)
                ELSE /\ config' = r.config /\ up' = r.up /\ users' = r.users
                     /\ UNCHANGED <<memVars, faults>>
             /\ Release /\ EndCycle
             /\ UNCHANGED <<synced, confirmed>>
<1>5. PICK seen, reload : \E r \in ApplyOutcomes(clients, reload) : Good(r) \/ Bad(seen, r)
  BY <1>3 DEF ApplyRun
<1>6. PICK r \in ApplyOutcomes(clients, reload) : Good(r) \/ Bad(seen, r)
  BY <1>5
<1>7. CheckedPays /\ checked' \in BOOLEAN /\ confirmed \in BOOLEAN /\ RecordsNoOld
  BY <1>1, <1>2 DEF CheckedPays, LoopsOK, RecordsNoOld, Recorded
<1>8. faults \in 0..MaxFaults /\ faults \in Nat
  BY <1>2, Numbers DEF LoopsOK
<1>9. CASE Good(r)
  <2>1. /\ config' \subseteq Grants /\ up' \in BOOLEAN /\ users' \subseteq Grants /\ ServesNoNew
        /\ users' = clients
    BY <1>4, <1>9, OutcomeServes
  <2>2. RuntimeOK'
    BY <1>2, <1>9, <2>1 DEF RuntimeOK
  <2>3. /\ disk \in Files /\ synced \in Files /\ disk.state \in StateFile /\ synced.latch \in LatchFile
    BY <1>2 DEF FilesOK, GoodState, GoodLatch
  <2>4. /\ synced' \in Files /\ synced'.latch = synced.latch
        /\ synced'.state = IF SameVersion THEN disk.state ELSE synced.state
    <3>1. PICK written : written = [synced EXCEPT !.state = disk.state]
      OBVIOUS
    <3>2. written \in Files /\ written.latch = synced.latch /\ written.state = disk.state
      BY <2>3, <3>1, FileWritten
    <3>3. QED
      BY <1>9, <2>3, <3>1, <3>2
  <2>5. FilesOK'
    BY <1>1, <1>2, <2>3, <2>4, FilesKeep DEF FilesOK
  <2>6. pc' \in {"clear", "persist"} /\ (pc' = "clear" => SameVersion) /\ confirmed' \in BOOLEAN
    BY <1>7, <1>9
  <2>7. PlacesOK' /\ FreshHeld'
    BY <1>1, <1>4, <1>9, <2>1, <2>6 DEF PlacesOK, FreshHeld, Served
  <2>8. SnapshotHeld'
    <3>1. SameVersion => Holds(disk.state)
      BY <1>1, <1>2 DEF SnapshotHeld
    <3>2. QED
      BY <1>1, <1>9, <2>4, <2>6, <3>1 DEF SnapshotHeld, Holds
  <2>9. /\ disk'.state.version <= snap.version
        /\ \A g \in disk'.latch.ids \cup synced'.latch.ids : snap.grants[g].status = "REVOKED"
    BY <1>1, <1>2, <2>4 DEF CycleOK
  <2>10. faults' \in 0..MaxFaults /\ faults <= faults' /\ UNCHANGED <<ctl, snap, polled>>
    BY <1>8, <1>9
  <2>11. IndInv'
    BY <1>1, <1>7, <2>1, <2>2, <2>5, <2>6, <2>7, <2>8, <2>9, <2>10, GoesOnKeeps
  <2>12. EndsRevoked
    BY <1>1, <2>10 DEF EndsRevoked
  <2>13. QED
    BY <2>1, <2>11, <2>12, LatchedFromServes
<1>10. CASE Bad(seen, r)
  <2>1. ctl' = "idle" /\ snap' = NoSnap /\ polled' \in BOOLEAN /\ pc' = "free" /\ confirmed' \in BOOLEAN
    BY <1>7, <1>10 DEF Release, EndCycle
  <2>2. FilesOK'
    BY <1>1, <1>10, QuietFiles
  <2>3. CASE StopsOnError(seen)
    <3>1. Stops
      BY <1>4, <1>10, <2>3, StopAfterStops
    <3>2. QED
      BY <1>1, <1>7, <2>1, <2>2, <3>1, StoppedEndKeeps
  <2>4. CASE ~StopsOnError(seen)
    <3>1. /\ config' = r.config /\ up' = r.up /\ users' = r.users
          /\ UNCHANGED <<failClosed, fingerprint, faults>>
      BY <1>10, <2>4 DEF memVars
    <3>2. /\ config' \subseteq Grants /\ up' \in BOOLEAN /\ users' \subseteq Grants /\ ServesNoNew
      BY <1>4, <3>1, OutcomeServes
    <3>3. ~failClosed /\ (SameVersion \/ (disk.state.kind = "valid" /\ ~RevokeDue(disk.state.grants, snap.grants)))
      BY <2>4 DEF StopsOnError
    <3>4. RuntimeOK'
      BY <1>2, <3>1, <3>2, <3>3 DEF RuntimeOK
    <3>5. PlacesOK' /\ faults' \in 0..MaxFaults /\ faults <= faults'
      BY <1>8, <2>1, <3>1 DEF PlacesOK
    <3>6. IndInv'
      BY <1>1, <1>7, <2>1, <2>2, <3>2, <3>4, <3>5, EndKeeps
    <3>7. EndsRevoked
      <4>1. CASE SameVersion
        BY <4>1, SameVersionRevokesNothing DEF EndsRevoked, SameVersion
      <4>2. CASE ~RevokeDue(disk.state.grants, snap.grants)
        BY <4>2 DEF EndsRevoked, RevokeDue
      <4>3. QED
        BY <3>3, <4>1, <4>2
    <3>8. QED
      BY <3>2, <3>6, <3>7, LatchedFromServes
  <2>5. QED
    BY <2>3, <2>4
<1>11. QED
  BY <1>6, <1>9, <1>10

\* The snapshot is recorded, or xray stopped.
LEMMA PersistKeeps ==
  ASSUME IndInv, Persist
  PROVE  IndInv' /\ LatchedOut /\ EndsRevoked
<1>1. /\ pc = "persist" /\ ctl \in {"apply", "confirm"}
      /\ UNCHANGED <<desired, applied, command, grant, checked, now>>
  BY DEF Persist, IndInv, PlacesOK, cpVars
<1>2. FilesOK /\ RuntimeOK /\ CycleOK /\ LoopsOK /\ FreshHeld
  BY DEF IndInv
<1>3. PICK new : new = NewState
  OBVIOUS
<1>4. /\ GoodState(new) /\ new \in StateFile
      /\ new.kind = "valid" /\ new.version = snap.version /\ new.grants = snap.grants
  BY <1>1, <1>3, NewStateGood
<1>5. /\ disk \in Files /\ synced \in Files /\ disk.latch \in LatchFile /\ synced.latch \in LatchFile
  BY <1>2 DEF FilesOK, GoodLatch
<1>6. CheckedPays /\ checked' \in BOOLEAN
  BY <1>1, <1>2 DEF CheckedPays, LoopsOK
<1>7. ASSUME disk'.state \in {disk.state, new} PROVE RecordsNoOld
  <2>1. \A g \in Grants : Live(new.grants[g]) => Until[g] > now
    BY <1>1, <1>2, <1>4 DEF CycleOK, Live
  <2>2. QED
    BY <1>7, <2>1 DEF RecordsNoOld, Recorded
<1>8. CASE /\ WriteState(NewState) /\ confirmed' = TRUE
           /\ pc' = "clear"
           /\ UNCHANGED <<xrayVars, memVars, ctl, snap, polled, faults>>
  <2>1. /\ disk' \in Files /\ synced' \in Files /\ disk'.state = new /\ synced'.state = new
        /\ disk'.latch = disk.latch /\ synced'.latch = synced.latch
    BY <1>3, <1>4, <1>5, <1>8, FileWritten DEF WriteState
  <2>2. FilesOK'
    BY <1>1, <1>2, <1>4, <2>1, FilesKeep DEF FilesOK
  <2>3. UNCHANGED <<config, up, users, failClosed, fingerprint, faults>>
    BY <1>8 DEF xrayVars, memVars
  <2>4. /\ RuntimeOK' /\ ServesNoNew /\ faults' \in 0..MaxFaults /\ faults <= faults'
    BY <2>3, QuietRuntime
  <2>5. PlacesOK'
    BY <1>1, <1>8 DEF PlacesOK
  <2>6. FreshHeld'
    BY <1>1, <1>2, <2>3 DEF FreshHeld, Served
  <2>7. SnapshotHeld'
    BY <1>4, <1>8, <2>1 DEF SnapshotHeld, Holds
  <2>8. /\ disk'.state.version <= snap.version
        /\ \A g \in disk'.latch.ids \cup synced'.latch.ids : snap.grants[g].status = "REVOKED"
    <3>1. snap.version \in Nat
      BY Numbers DEF IndInv, SnapOK, Snapshot
    <3>2. QED
      BY <1>1, <1>2, <1>4, <2>1, <3>1 DEF CycleOK
  <2>9. RecordsNoOld
    BY <1>7, <2>1
  <2>10. IndInv'
    BY <1>1, <1>6, <1>8, <2>2, <2>4, <2>5, <2>6, <2>7, <2>8, <2>9, GoesOnKeeps
  <2>11. EndsRevoked
    BY <1>1, <1>8 DEF EndsRevoked
  <2>12. QED
    BY <2>4, <2>10, <2>11, LatchedFromServes
<1>9. CASE /\ WriteStateFails(NewState) /\ confirmed' = FALSE
           /\ Stop
           /\ Release /\ EndCycle
  <2>1. /\ disk' \in Files /\ synced' = synced /\ disk'.state \in {disk.state, new}
        /\ disk'.latch = disk.latch
    <3>1. PICK written : written = [disk EXCEPT !.state = new]
      OBVIOUS
    <3>2. written \in Files /\ written.latch = disk.latch /\ written.state = new
      BY <1>4, <1>5, <3>1, FileWritten
    <3>3. QED
      BY <1>3, <1>5, <1>9, <3>1, <3>2 DEF WriteStateFails
  <2>2. FilesOK'
    BY <1>1, <1>2, <1>4, <1>5, <2>1, FilesKeep DEF FilesOK
  <2>3. RecordsNoOld
    BY <1>7, <2>1
  <2>4. ctl' = "idle" /\ snap' = NoSnap /\ polled' \in BOOLEAN /\ pc' = "free" /\ confirmed' \in BOOLEAN
    BY <1>9 DEF Release, EndCycle
  <2>5. Stops
    BY <1>9, StopStops
  <2>6. QED
    BY <1>1, <1>6, <2>2, <2>3, <2>4, <2>5, StoppedEndKeeps
<1>10. QED
  BY <1>8, <1>9 DEF Persist

\* A latch is written, in one place or both.
LEMMA LatchWritten ==
  ASSUME IndInv, UNCHANGED <<desired, applied, grant>>, NEW l, GoodLatch(l),
         disk' \in {disk, [disk EXCEPT !.latch = l]},
         synced' \in {synced, [synced EXCEPT !.latch = l]}
  PROVE  /\ FilesOK' /\ RecordsNoOld
         /\ disk'.state = disk.state /\ synced'.state = synced.state
         /\ disk'.latch \in {disk.latch, l} /\ synced'.latch \in {synced.latch, l}
<1>1. FilesOK
  BY DEF IndInv
<1>2. /\ disk \in Files /\ synced \in Files /\ l \in LatchFile
      /\ disk.state \in StateFile /\ synced.state \in StateFile
  BY <1>1 DEF FilesOK, GoodState, GoodLatch
<1>3. PICK onDisk, safe : onDisk = [disk EXCEPT !.latch = l] /\ safe = [synced EXCEPT !.latch = l]
  OBVIOUS
<1>4. onDisk \in Files /\ onDisk.state = disk.state /\ onDisk.latch = l
  BY <1>2, <1>3, LatchReplaced
<1>5. safe \in Files /\ safe.state = synced.state /\ safe.latch = l
  BY <1>2, <1>3, LatchReplaced
<1>6. disk' \in {disk, onDisk} /\ synced' \in {synced, safe}
  BY <1>3
<1>7. /\ disk' \in Files /\ synced' \in Files
      /\ disk'.state = disk.state /\ synced'.state = synced.state
      /\ disk'.latch \in {disk.latch, l} /\ synced'.latch \in {synced.latch, l}
  BY <1>2, <1>4, <1>5, <1>6
<1>8. FilesOK'
  BY <1>1, <1>7, FilesKeep DEF FilesOK
<1>9. RecordsNoOld
  BY <1>7 DEF RecordsNoOld, Recorded
<1>10. QED
  BY <1>7, <1>8, <1>9

\* The latch is lifted, or xray stopped.
LEMMA ClearLatchKeeps ==
  ASSUME IndInv, ClearLatch
  PROVE  IndInv' /\ LatchedOut /\ EndsRevoked
<1>1. /\ pc = "clear" /\ ctl \in {"apply", "confirm"}
      /\ UNCHANGED <<desired, applied, command, grant, confirmed, now>>
  BY DEF ClearLatch, IndInv, PlacesOK, cpVars
<1>2. CycleOK /\ LoopsOK /\ FreshHeld /\ SnapshotHeld /\ RuntimeOK
  BY DEF IndInv
<1>3. GoodLatch(NoLatch) /\ NoLatch.ids = {} /\ confirmed' \in BOOLEAN
  BY <1>1, <1>2, EmptyLatchesGood DEF LoopsOK
<1>4. CASE /\ LatchSatisfied
           /\ IF disk.latch.kind = "missing" THEN UNCHANGED <<disk, synced>> ELSE WriteLatch(NoLatch)
           /\ Applied
  <2>1. /\ pc' = "free" /\ checked' = TRUE /\ fingerprint' = FingerprintOf(Servable(snap.grants))
        /\ UNCHANGED <<config, up, users, failClosed, faults>>
    BY <1>4 DEF Applied, Release, xrayVars
  <2>2. /\ FilesOK' /\ RecordsNoOld
        /\ disk'.state = disk.state /\ synced'.state = synced.state
        /\ disk'.latch \in {disk.latch, NoLatch} /\ synced'.latch \in {synced.latch, NoLatch}
    <3>1. disk' \in {disk, [disk EXCEPT !.latch = NoLatch]}
          /\ synced' \in {synced, [synced EXCEPT !.latch = NoLatch]}
      BY <1>4 DEF WriteLatch
    <3>2. QED
      BY <1>1, <1>3, <3>1, LatchWritten
  <2>3. faults' \in 0..MaxFaults /\ faults <= faults' /\ ServesNoNew
    BY <1>2, <2>1, Numbers DEF LoopsOK, ServesNoNew, Served
  <2>4. RuntimeOK'
    <3>1. Servable(snap.grants) \subseteq Grants
      BY DEF Servable
    <3>2. fingerprint' \in [known : BOOLEAN, clients : SUBSET Grants]
      BY <2>1, <3>1 DEF FingerprintOf
    <3>3. QED
      BY <1>2, <2>1, <3>2 DEF RuntimeOK
  <2>5. CheckedPays
    <3>1. ASSUME NEW g \in Grants, Served(g)' PROVE ~Due(Until[g])
      <4>1. Until[g] > now
        BY <1>1, <1>2, <2>1, <3>1 DEF FreshHeld, Served
      <4>2. now \in Nat /\ Until[g] \in Nat /\ Sla \in Nat /\ Reserve \in Nat /\ Reserve < Sla
        BY <1>2, Numbers DEF LoopsOK
      <4>3. QED
        BY <4>1, <4>2 DEF Due
    <3>2. \A g \in Grants : Served(g)' => ~Due(Until[g])
      BY <3>1
    <3>3. \A g \in Grants : Served(g)' /\ Recorded(g)' => ~Due(Until[g])
      BY <3>2
    <3>4. QED
      BY <3>3 DEF CheckedPays
  <2>6. PlacesOK' /\ FreshHeld'
    BY <2>1 DEF PlacesOK, FreshHeld
  <2>7. LatchedOut
    BY <2>3, LatchedFromServes
  <2>8. CASE ctl = "apply"
    <3>1. ctl' = "ack" /\ UNCHANGED <<snap, polled>>
      BY <1>4, <2>8 DEF Applied
    <3>2. SnapshotHeld'
      BY <1>1, <1>2, <2>1, <2>2, <3>1 DEF SnapshotHeld, Holds
    <3>3. /\ disk'.state.version <= snap.version
          /\ \A g \in disk'.latch.ids \cup synced'.latch.ids : snap.grants[g].status = "REVOKED"
      BY <1>1, <1>2, <1>3, <2>2 DEF CycleOK
    <3>4. IndInv'
      BY <1>1, <1>3, <2>1, <2>2, <2>3, <2>4, <2>5, <2>6, <2>8, <3>1, <3>2, <3>3, GoesOnKeeps
    <3>5. EndsRevoked
      BY <3>1 DEF EndsRevoked
    <3>6. QED
      BY <2>7, <3>4, <3>5
  <2>9. CASE ctl # "apply"
    <3>1. ctl' = "idle" /\ snap' = NoSnap /\ polled' \in BOOLEAN
      BY <1>4, <2>9 DEF Applied, EndCycle
    <3>2. IndInv'
      BY <1>1, <1>3, <2>1, <2>2, <2>3, <2>4, <2>5, <2>6, <3>1, EndKeeps
    <3>3. EndsRevoked
      <4>1. disk.state.kind = "valid" => disk.state.version = snap.version
        BY <1>1, <1>2 DEF SnapshotHeld, Holds
      <4>2. QED
        BY <4>1, SameVersionRevokesNothing DEF EndsRevoked
    <3>4. QED
      BY <2>7, <3>2, <3>3
  <2>10. QED
    BY <2>8, <2>9
<1>5. CASE /\ disk.latch.kind # "missing"
           /\ \/ LatchSatisfied /\ WriteLatchFails(NoLatch)
              \/ ~LatchSatisfied /\ UNCHANGED <<disk, synced>>
           /\ Stop /\ Release /\ EndCycle
           /\ UNCHANGED checked
  <2>1. disk' \in {disk, [disk EXCEPT !.latch = NoLatch]}
        /\ synced' \in {synced, [synced EXCEPT !.latch = NoLatch]}
    BY <1>5 DEF WriteLatchFails
  <2>2. FilesOK' /\ RecordsNoOld
    BY <1>1, <1>3, <2>1, LatchWritten
  <2>3. /\ ctl' = "idle" /\ snap' = NoSnap /\ polled' \in BOOLEAN /\ pc' = "free"
        /\ checked' \in BOOLEAN
    BY <1>2, <1>5 DEF Release, EndCycle, LoopsOK
  <2>4. Stops
    BY <1>5, StopStops
  <2>5. QED
    BY <1>1, <1>3, <2>2, <2>3, <2>4, StoppedEndKeeps
<1>6. QED
  BY <1>4, <1>5 DEF ClearLatch

-----------------------------------------------------------------------------
(* enforceSnapshotSecurity().                                              *)

\* What is enforced without a command.
LEMMA EnforceCheckKeeps ==
  ASSUME IndInv, EnforceCheck
  PROVE  IndInv' /\ LatchedOut /\ EndsRevoked
<1>1. /\ pc = "free" /\ ctl = "enforce"
      /\ UNCHANGED <<desired, applied, command, grant, disk, synced, confirmed, checked, now>>
  BY DEF EnforceCheck, cpVars
<1>2. CycleOK /\ LoopsOK
  BY DEF IndInv
<1>3. PICK stops \in BOOLEAN : IF stops THEN StopOk ELSE UNCHANGED <<xrayVars, memVars, faults>>
  <2>1. StopOk \/ UNCHANGED <<xrayVars, memVars, faults>>
    BY DEF EnforceCheck
  <2>2. QED
    BY <2>1
<1>4. RuntimeOK' /\ ServesNoNew /\ faults' \in 0..MaxFaults /\ faults <= faults'
  BY <1>3, MaybeStopped
<1>5. FilesOK' /\ RecordsNoOld
  BY <1>1, QuietFiles
<1>6. CheckedPays /\ checked' \in BOOLEAN /\ confirmed' \in BOOLEAN
  BY <1>1, <1>2 DEF CheckedPays, LoopsOK
<1>7. LatchedOut
  BY <1>4, LatchedFromServes
<1>8. CASE Enforcements = {}
  <2>1. ctl' = "idle" /\ snap' = NoSnap /\ polled' \in BOOLEAN /\ pc' = "free"
    BY <1>1, <1>8 DEF EnforceCheck, EndCycle
  <2>2. PlacesOK'
    BY <2>1 DEF PlacesOK
  <2>3. IndInv'
    BY <1>1, <1>4, <1>5, <1>6, <2>1, <2>2, EndKeeps
  <2>4. EndsRevoked
    BY <1>8 DEF EndsRevoked, Enforcements
  <2>5. QED
    BY <1>7, <2>3, <2>4
<1>9. CASE Enforcements # {}
  <2>1. pc' = "latch" /\ UNCHANGED <<ctl, snap, polled>>
    BY <1>9 DEF EnforceCheck
  <2>2. PlacesOK' /\ FreshHeld' /\ SnapshotHeld'
    BY <1>1, <2>1 DEF PlacesOK, FreshHeld, SnapshotHeld
  <2>3. /\ disk'.state.version <= snap.version
        /\ \A g \in disk'.latch.ids \cup synced'.latch.ids : snap.grants[g].status = "REVOKED"
    BY <1>1, <1>2 DEF CycleOK
  <2>4. IndInv'
    BY <1>1, <1>4, <1>5, <1>6, <2>1, <2>2, <2>3, GoesOnKeeps
  <2>5. EndsRevoked
    BY <1>1, <2>1 DEF EndsRevoked
  <2>6. QED
    BY <1>7, <2>4, <2>5
<1>10. QED
  BY <1>8, <1>9

\* The latch is written, or xray stopped.
LEMMA PersistLatchKeeps ==
  ASSUME IndInv, PersistLatch
  PROVE  IndInv' /\ LatchedOut /\ EndsRevoked
<1>1. /\ pc = "latch" /\ ctl = "enforce"
      /\ UNCHANGED <<desired, applied, command, grant, confirmed, checked, now>>
  BY DEF PersistLatch, IndInv, PlacesOK, cpVars
<1>2. CycleOK /\ LoopsOK
  BY DEF IndInv
<1>3. PICK new : new = MergedLatch
  OBVIOUS
<1>4. GoodLatch(new) /\ \A g \in new.ids : snap.grants[g].status = "REVOKED"
  BY <1>1, <1>3, MergedLatchGood
<1>5. CheckedPays /\ checked' \in BOOLEAN /\ confirmed' \in BOOLEAN
  BY <1>1, <1>2 DEF CheckedPays, LoopsOK
<1>6. disk' \in {disk, [disk EXCEPT !.latch = new]}
      /\ synced' \in {synced, [synced EXCEPT !.latch = new]}
  BY <1>3 DEF PersistLatch, WriteLatch, WriteLatchFails
<1>7. /\ FilesOK' /\ RecordsNoOld
      /\ disk'.state = disk.state /\ synced'.state = synced.state
      /\ disk'.latch \in {disk.latch, new} /\ synced'.latch \in {synced.latch, new}
  BY <1>1, <1>4, <1>6, LatchWritten
<1>8. CASE /\ WriteLatch(MergedLatch)
           /\ pc' = "stop"
           /\ UNCHANGED <<xrayVars, memVars, ctl, snap, polled, faults>>
  <2>1. UNCHANGED <<config, up, users, failClosed, fingerprint, faults>>
    BY <1>8 DEF xrayVars, memVars
  <2>2. RuntimeOK' /\ ServesNoNew /\ faults' \in 0..MaxFaults /\ faults <= faults'
    BY <2>1, QuietRuntime
  <2>3. PlacesOK' /\ FreshHeld' /\ SnapshotHeld'
    BY <1>1, <1>8 DEF PlacesOK, FreshHeld, SnapshotHeld
  <2>4. /\ disk'.state.version <= snap.version
        /\ \A g \in disk'.latch.ids \cup synced'.latch.ids : snap.grants[g].status = "REVOKED"
    BY <1>1, <1>2, <1>4, <1>7 DEF CycleOK
  <2>5. IndInv'
    BY <1>1, <1>5, <1>7, <1>8, <2>2, <2>3, <2>4, GoesOnKeeps
  <2>6. EndsRevoked
    BY <1>1, <1>8 DEF EndsRevoked
  <2>7. QED
    BY <2>2, <2>5, <2>6, LatchedFromServes
<1>9. CASE Stop /\ Release /\ EndCycle
  <2>1. ctl' = "idle" /\ snap' = NoSnap /\ polled' \in BOOLEAN /\ pc' = "free"
    BY <1>9 DEF Release, EndCycle
  <2>2. Stops
    BY <1>9, StopStops
  <2>3. QED
    BY <1>1, <1>5, <1>7, <2>1, <2>2, StoppedEndKeeps
<1>10. QED
  BY <1>8, <1>9 DEF PersistLatch

-----------------------------------------------------------------------------
(* The local loop.                                                         *)

\* The local loop leaves the cycle alone.
LEMMA LocalKeeps ==
  ASSUME IndInv, UNCHANGED <<desired, applied, command, grant, now, ctl, snap, polled, disk>>,
         pc \in {"free", "local"}, pc' \in {"free", "local"},
         pc' = "local" => disk.latch.kind = "missing" /\ disk.state.kind = "valid",
         confirmed' \in BOOLEAN, checked' \in BOOLEAN,
         faults' \in 0..MaxFaults, faults <= faults',
         FilesOK', RuntimeOK',
         synced'.latch = synced.latch, synced'.state \in {disk.state, synced.state},
         ServesNoNew, RecordsNoOld, CheckedPays
  PROVE  IndInv' /\ LatchedOut /\ EndsRevoked
<1>1. PlacesOK /\ SnapshotHeld /\ CycleOK /\ LoopsOK
  BY DEF IndInv
<1>2. PlacesOK' /\ FreshHeld'
  BY DEF PlacesOK, FreshHeld
<1>3. SnapshotHeld'
  BY <1>1 DEF SnapshotHeld, Holds
<1>4. ctl' # "idle" => /\ disk'.state.version <= snap.version
                       /\ \A g \in disk'.latch.ids \cup synced'.latch.ids :
                             snap.grants[g].status = "REVOKED"
  BY <1>1 DEF CycleOK
<1>5. ctl' \in {"idle", "apply", "confirm", "enforce", "ack"}
  BY <1>1 DEF LoopsOK
<1>6. IndInv'
  BY <1>2, <1>3, <1>4, <1>5, GoesOnKeeps
<1>7. EndsRevoked
  BY DEF EndsRevoked
<1>8. QED
  BY <1>6, <1>7, LatchedFromServes

\* Whose expiry deadline has come, the state file shows.
LEMMA OverdueIsDue ==
  ASSUME IndInv, NEW g \in Grants, Recorded(g), Due(Until[g])
  PROVE  ExpiryDue(disk.state.grants)
<1>1. now \in Nat /\ Until[g] \in Nat /\ Sla \in Nat /\ Reserve \in Nat /\ Reserve < Sla
  BY Numbers DEF IndInv, LoopsOK
<1>2. Until[g] <= now
  BY <1>1 DEF Due
<1>3. QED
  BY <1>2 DEF ExpiryDue, Expired, Recorded

\* The local loop stops xray, or tries to.
LEMMA LocalStopsKeep ==
  ASSUME IndInv, LocalStop \/ LocalAborted
  PROVE  IndInv' /\ LatchedOut /\ EndsRevoked
<1>1. /\ pc = "free" /\ pc' = "free" /\ checked' = TRUE
      /\ UNCHANGED <<desired, applied, command, grant, disk, synced, confirmed, ctl, snap, polled, now>>
  BY DEF LocalStop, LocalAborted, cpVars
<1>2. Stop \/ ClockStop
  BY DEF LocalStop, LocalAborted, Stop
<1>3. Stops
  BY <1>2, StopStops
<1>4. RuntimeOK' /\ faults' \in 0..MaxFaults /\ faults <= faults' /\ ServesNoNew /\ CheckedPays
  BY <1>3 DEF Stops, CheckedPays
<1>5. FilesOK' /\ RecordsNoOld
  BY <1>1, QuietFiles
<1>6. confirmed' \in BOOLEAN
  BY <1>1 DEF IndInv, LoopsOK
<1>7. QED
  BY <1>1, <1>4, <1>5, <1>6, LocalKeeps

\* reconcileLocalState() up to applyClients().
LEMMA LocalCheckKeeps ==
  ASSUME IndInv, LocalCheck
  PROVE  IndInv' /\ LatchedOut /\ EndsRevoked
<1>1. /\ pc = "free" /\ EnsureDurable
      /\ disk.latch.kind = "missing" /\ disk.state.kind = "valid"
      /\ UNCHANGED <<desired, applied, command, grant, ctl, snap, polled, now>>
  BY DEF LocalCheck, LocalStops, cpVars
<1>2. RuntimeOK /\ LoopsOK
  BY DEF IndInv
<1>3. PICK stops \in BOOLEAN : stops <=> ~failClosed /\ ExpiryDue(disk.state.grants)
  OBVIOUS
<1>4. IF stops THEN StopOk ELSE UNCHANGED <<xrayVars, memVars, faults>>
  BY <1>3 DEF LocalCheck
<1>5. /\ RuntimeOK' /\ ServesNoNew /\ faults' \in 0..MaxFaults /\ faults <= faults'
      /\ \A g \in Grants : Served(g)' => Served(g) /\ ~stops
  BY <1>4, MaybeStopped
<1>6. /\ FilesOK' /\ RecordsNoOld /\ confirmed' \in BOOLEAN
      /\ disk' = disk /\ synced'.latch = synced.latch
      /\ synced'.state \in {disk.state, synced.state}
  BY <1>1, DurableKeeps
<1>7. pc' \in {"free", "local"} /\ checked' \in BOOLEAN
  BY <1>1, <1>2 DEF LocalCheck, LoopsOK
<1>8. CheckedPays
  <2>1. ASSUME NEW g \in Grants, Served(g)', Recorded(g)', Due(Until[g]) PROVE FALSE
    <3>1. Served(g) /\ ~stops /\ Recorded(g)
      BY <1>5, <1>6, <2>1 DEF Recorded
    <3>2. ~failClosed
      BY <1>2, <3>1 DEF RuntimeOK, Served
    <3>3. ExpiryDue(disk.state.grants)
      BY <2>1, <3>1, OverdueIsDue
    <3>4. QED
      BY <1>3, <3>1, <3>2, <3>3
  <2>2. \A g \in Grants : Served(g)' /\ Recorded(g)' => ~Due(Until[g])
    BY <2>1
  <2>3. QED
    BY <2>2 DEF CheckedPays
<1>9. QED
  BY <1>1, <1>5, <1>6, <1>7, <1>8, LocalKeeps

\* The local loop's applyClients() and its error path.
LEMMA LocalRunKeeps ==
  ASSUME IndInv, LocalRun
  PROVE  IndInv' /\ LatchedOut /\ EndsRevoked
<1>1. /\ pc = "local" /\ pc' = "free" /\ checked' = TRUE
      /\ UNCHANGED <<desired, applied, command, grant, disk, synced, confirmed, ctl, snap, polled, now>>
  BY DEF LocalRun, Release, cpVars
<1>2. RuntimeOK /\ LoopsOK /\ disk.latch.kind = "missing"
  BY <1>1 DEF IndInv, PlacesOK
<1>3. PICK clients : clients = Servable(disk.state.grants)
  OBVIOUS
<1>4. clients \in SUBSET Grants /\ \A g \in clients : Until[g] > now /\ g \notin disk.latch.ids
  BY <1>2, <1>3, LocalServesFresh
<1> DEFINE Good(r) ==
             /\ r.ok
             /\ config' = r.config /\ up' = r.up /\ users' = r.users
             /\ failClosed' = FALSE /\ fingerprint' = FingerprintOf(clients)
             /\ UNCHANGED faults
           Bad(seen, r) ==
             /\ ~r.ok
             /\ IF failClosed \/ ~seen \/ ExpiryDue(disk.state.grants) THEN StopAfter(r)
                ELSE /\ config' = r.config /\ up' = r.up /\ users' = r.users
                     /\ UNCHANGED <<memVars, faults>>
<1>5. PICK seen : \E r \in ApplyOutcomes(clients, TRUE) : Good(r) \/ Bad(seen, r)
  BY <1>3 DEF LocalRun
<1>6. PICK r \in ApplyOutcomes(clients, TRUE) : Good(r) \/ Bad(seen, r)
  BY <1>5
<1>7. FilesOK' /\ RecordsNoOld /\ confirmed' \in BOOLEAN
  BY <1>1, <1>2, QuietFiles DEF LoopsOK
<1>8. faults \in 0..MaxFaults /\ faults \in Nat
  BY <1>2, Numbers DEF LoopsOK
<1>9. RuntimeOK' /\ ServesNoNew /\ faults' \in 0..MaxFaults /\ faults <= faults' /\ CheckedPays
  <2>1. CASE Good(r)
    <3>1. /\ config' \subseteq Grants /\ up' \in BOOLEAN /\ users' \subseteq Grants /\ ServesNoNew
          /\ users' = clients
      BY <1>4, <2>1, OutcomeServes
    <3>2. FingerprintOf(clients) \in [known : BOOLEAN, clients : SUBSET Grants]
      BY <1>4 DEF FingerprintOf
    <3>3. RuntimeOK'
      BY <2>1, <3>1, <3>2 DEF RuntimeOK
    <3>4. ASSUME NEW g \in Grants, Served(g)' PROVE ~Due(Until[g])
      <4>1. Until[g] > now
        BY <1>4, <3>1, <3>4 DEF Served
      <4>2. now \in Nat /\ Until[g] \in Nat /\ Sla \in Nat /\ Reserve \in Nat /\ Reserve < Sla
        BY <1>2, Numbers DEF LoopsOK
      <4>3. QED
        BY <4>1, <4>2 DEF Due
    <3>5. CheckedPays
      <4>1. \A g \in Grants : Served(g)' /\ Recorded(g)' => ~Due(Until[g])
        BY <3>4
      <4>2. QED
        BY <4>1 DEF CheckedPays
    <3>6. QED
      BY <1>8, <2>1, <3>1, <3>3, <3>5
  <2>2. CASE Bad(seen, r) /\ (failClosed \/ ~seen \/ ExpiryDue(disk.state.grants))
    <3>1. Stops
      BY <1>4, <2>2, StopAfterStops
    <3>2. QED
      BY <3>1 DEF Stops, CheckedPays
  <2>3. CASE Bad(seen, r) /\ ~(failClosed \/ ~seen \/ ExpiryDue(disk.state.grants))
    <3>1. /\ config' = r.config /\ up' = r.up /\ users' = r.users
          /\ UNCHANGED <<failClosed, fingerprint, faults>>
      BY <2>3 DEF memVars
    <3>2. config' \subseteq Grants /\ up' \in BOOLEAN /\ users' \subseteq Grants /\ ServesNoNew
      BY <1>4, <3>1, OutcomeServes
    <3>3. RuntimeOK'
      BY <1>2, <2>3, <3>1, <3>2 DEF RuntimeOK
    <3>4. ASSUME NEW g \in Grants, Recorded(g)', Due(Until[g]) PROVE FALSE
      <4>1. Recorded(g)
        BY <1>1, <3>4 DEF Recorded
      <4>2. QED
        BY <2>3, <3>4, <4>1, OverdueIsDue
    <3>5. CheckedPays
      <4>1. \A g \in Grants : Served(g)' /\ Recorded(g)' => ~Due(Until[g])
        BY <3>4
      <4>2. QED
        BY <4>1 DEF CheckedPays
    <3>6. QED
      BY <1>8, <3>1, <3>2, <3>3, <3>5
  <2>4. QED
    BY <1>6, <2>1, <2>2, <2>3
<1>10. QED
  BY <1>1, <1>7, <1>9, LocalKeeps

-----------------------------------------------------------------------------
(* What happens to the node.                                               *)

\* The process dies, or the host does.
LEMMA RestartsKeep ==
  ASSUME IndInv, Crash \/ PowerLoss
  PROVE  IndInv' /\ LatchedOut /\ EndsRevoked
<1>1. /\ faults < MaxFaults /\ faults' = faults + 1
      /\ failClosed' = FALSE /\ fingerprint' = NoPrint /\ confirmed' = FALSE
      /\ ctl' = "idle" /\ snap' = NoSnap /\ pc' = "free" /\ config' = config
      /\ UNCHANGED <<desired, applied, command, grant, polled, checked, now>>
  BY DEF Crash, PowerLoss, Boot, Release, cpVars, xrayVars
<1>2. FilesOK /\ RuntimeOK /\ LoopsOK
  BY DEF IndInv
<1>3. faults \in Nat /\ faults' \in 0..MaxFaults /\ faults <= faults'
  BY <1>1, <1>2, Numbers DEF LoopsOK
<1>4. polled' \in BOOLEAN /\ checked' \in BOOLEAN /\ CheckedPays
  BY <1>1, <1>2 DEF LoopsOK, CheckedPays
<1>5. NoPrint \in [known : BOOLEAN, clients : SUBSET Grants]
  BY DEF NoPrint
<1>6. FilesOK' /\ RecordsNoOld /\ RuntimeOK' /\ ServesNoNew
  <2>1. CASE Crash
    <3>1. UNCHANGED <<disk, synced, up, users>>
      BY <2>1 DEF Crash, xrayVars
    <3>2. QED
      BY <1>1, <1>2, <1>5, <3>1, QuietFiles DEF RuntimeOK, ServesNoNew, Served
  <2>2. CASE PowerLoss
    <3>1. up' = FALSE /\ users' = {}
      BY <2>2 DEF PowerLoss
    <3>2. PICK s \in {disk.state, synced.state} : \E l \in {disk.latch, synced.latch} :
             disk' = [state |-> s, latch |-> l] /\ synced' = disk'
      BY <2>2 DEF PowerLoss
    <3>3. PICK l \in {disk.latch, synced.latch} :
             disk' = [state |-> s, latch |-> l] /\ synced' = disk'
      BY <3>2
    <3>4. GoodState(s) /\ GoodLatch(l)
      BY <1>2 DEF FilesOK
    <3>5. disk' \in Files /\ disk'.state = s /\ disk'.latch = l /\ synced' = disk'
      BY <3>3, <3>4 DEF GoodState, GoodLatch, Files
    <3>6. FilesOK'
      BY <1>1, <3>4, <3>5, FilesKeep
    <3>7. RecordsNoOld /\ RuntimeOK' /\ ServesNoNew
      BY <1>1, <1>2, <1>5, <3>1 DEF RecordsNoOld, RuntimeOK, ServesNoNew, Served
    <3>8. QED
      BY <3>6, <3>7
  <2>3. QED
    BY <2>1, <2>2
<1>7. PlacesOK'
  BY <1>1 DEF PlacesOK
<1>8. IndInv'
  BY <1>1, <1>3, <1>4, <1>6, <1>7, EndKeeps
<1>9. EndsRevoked
  BY <1>1, <1>3 DEF EndsRevoked
<1>10. QED
  BY <1>6, <1>8, <1>9, LatchedFromServes

\* The container dies.
LEMMA XrayDiesKeeps ==
  ASSUME IndInv, XrayDies
  PROVE  IndInv' /\ LatchedOut /\ EndsRevoked
<1>1. /\ faults < MaxFaults /\ faults' = faults + 1 /\ up' = FALSE /\ users' = {}
      /\ UNCHANGED <<desired, applied, command, grant, disk, synced, config, failClosed, fingerprint,
                     confirmed, ctl, snap, pc, polled, checked, now>>
  BY DEF XrayDies, cpVars, memVars
<1>2. RuntimeOK /\ LoopsOK /\ PlacesOK /\ SnapshotHeld /\ CycleOK
  BY DEF IndInv
<1>3. faults' \in 0..MaxFaults /\ faults <= faults'
  BY <1>1, <1>2, Numbers DEF LoopsOK
<1>4. FilesOK' /\ RecordsNoOld
  BY <1>1, QuietFiles
<1>5. RuntimeOK' /\ PlacesOK' /\ FreshHeld' /\ ServesNoNew
  BY <1>1, <1>2 DEF RuntimeOK, PlacesOK, FreshHeld, ServesNoNew, Served
<1>6. SnapshotHeld'
  BY <1>1, <1>2 DEF SnapshotHeld, SameVersion, Holds
<1>7. /\ CheckedPays /\ confirmed' \in BOOLEAN /\ checked' \in BOOLEAN
      /\ ctl' \in {"idle", "apply", "confirm", "enforce", "ack"}
      /\ pc' \in {"free", "run", "persist", "clear", "latch", "stop", "local"}
  BY <1>1, <1>2 DEF CheckedPays, LoopsOK
<1>8. ctl' # "idle" => /\ disk'.state.version <= snap.version
                       /\ \A g \in disk'.latch.ids \cup synced'.latch.ids :
                             snap.grants[g].status = "REVOKED"
  BY <1>1, <1>2 DEF CycleOK
<1>9. IndInv'
  BY <1>1, <1>3, <1>4, <1>5, <1>6, <1>7, <1>8, GoesOnKeeps
<1>10. EndsRevoked
  BY <1>1 DEF EndsRevoked
<1>11. QED
  BY <1>5, <1>9, <1>10, LatchedFromServes

\* A file is damaged.
LEMMA CorruptKeeps ==
  ASSUME IndInv, Corrupt
  PROVE  IndInv' /\ LatchedOut /\ EndsRevoked
<1>1. /\ pc = "free" /\ faults < MaxFaults /\ faults' = faults + 1
      /\ UNCHANGED <<desired, applied, command, grant, config, up, users, failClosed, fingerprint,
                     confirmed, ctl, snap, pc, polled, checked, now>>
  BY DEF Corrupt, cpVars, xrayVars, memVars
<1>2. ControlOK /\ FilesOK /\ RuntimeOK /\ LoopsOK /\ SnapshotHeld /\ CycleOK /\ SnapOK
  BY DEF IndInv
<1>3. faults' \in 0..MaxFaults /\ faults <= faults'
  BY <1>1, <1>2, Numbers DEF LoopsOK
<1>4. RuntimeOK' /\ ServesNoNew
  BY <1>1, <1>2 DEF RuntimeOK, ServesNoNew, Served
<1>5. PlacesOK' /\ FreshHeld'
  BY <1>1 DEF PlacesOK, FreshHeld
<1>6. /\ CheckedPays /\ confirmed' \in BOOLEAN /\ checked' \in BOOLEAN
      /\ ctl' \in {"idle", "apply", "confirm", "enforce", "ack"}
  BY <1>1, <1>2 DEF CheckedPays, LoopsOK
<1>7. /\ FilesOK' /\ RecordsNoOld /\ SnapshotHeld'
      /\ ctl' # "idle" => /\ disk'.state.version <= snap.version
                          /\ \A g \in disk'.latch.ids \cup synced'.latch.ids :
                                snap.grants[g].status = "REVOKED"
  <2>1. CASE /\ disk' = [disk EXCEPT !.state = BadState]
             /\ synced' = [synced EXCEPT !.state = BadState]
    <3>1. /\ GoodState(BadState) /\ BadState \in StateFile
          /\ BadState.kind = "invalid" /\ BadState.version = 0
      BY <1>2, BadStateGood
    <3>2. disk \in Files /\ synced \in Files /\ disk.latch \in LatchFile /\ synced.latch \in LatchFile
      BY <1>2 DEF FilesOK, GoodLatch
    <3>3. disk' \in Files /\ disk'.state = BadState /\ disk'.latch = disk.latch
      BY <2>1, <3>1, <3>2, FileWritten
    <3>4. synced' \in Files /\ synced'.state = BadState /\ synced'.latch = synced.latch
      BY <2>1, <3>1, <3>2, FileWritten
    <3>5. FilesOK'
      BY <1>1, <1>2, <3>1, <3>3, <3>4, FilesKeep DEF FilesOK
    <3>6. RecordsNoOld
      BY <3>1, <3>3 DEF RecordsNoOld, Recorded
    <3>7. SnapshotHeld'
      BY <1>1, <3>1, <3>3, <3>4 DEF SnapshotHeld
    <3>8. 0 <= snap.version
      BY <1>2, Numbers DEF SnapOK, Snapshot
    <3>9. QED
      BY <1>1, <1>2, <3>1, <3>3, <3>4, <3>5, <3>6, <3>7, <3>8 DEF CycleOK
  <2>2. CASE /\ disk' = [disk EXCEPT !.latch = BadLatch]
             /\ synced' = [synced EXCEPT !.latch = BadLatch]
    <3>1. GoodLatch(BadLatch) /\ BadLatch.ids = {}
      BY EmptyLatchesGood
    <3>2. disk' \in {disk, [disk EXCEPT !.latch = BadLatch]}
          /\ synced' \in {synced, [synced EXCEPT !.latch = BadLatch]}
      BY <2>2
    <3>3. /\ FilesOK' /\ RecordsNoOld
          /\ disk'.state = disk.state /\ synced'.state = synced.state
          /\ disk'.latch \in {disk.latch, BadLatch} /\ synced'.latch \in {synced.latch, BadLatch}
      BY <1>1, <3>1, <3>2, LatchWritten
    <3>4. SnapshotHeld'
      BY <1>1, <1>2, <3>3 DEF SnapshotHeld, Holds
    <3>5. QED
      BY <1>1, <1>2, <3>1, <3>3, <3>4 DEF CycleOK
  <2>3. QED
    BY <2>1, <2>2 DEF Corrupt
<1>8. IndInv'
  BY <1>1, <1>3, <1>4, <1>5, <1>6, <1>7, GoesOnKeeps
<1>9. EndsRevoked
  BY <1>1 DEF EndsRevoked
<1>10. QED
  BY <1>4, <1>8, <1>9, LatchedFromServes

\* Time passes: each loop has had its turn.
LEMMA TickKeeps ==
  ASSUME IndInv, Tick
  PROVE  IndInv' /\ LatchedOut /\ EndsRevoked
<1>1. /\ now < MaxNow /\ now' = now + 1 /\ checked /\ pc = "free" /\ ctl = "idle"
      /\ polled' = FALSE /\ checked' = FALSE
      /\ UNCHANGED <<desired, applied, command, grant, disk, synced, config, up, users, failClosed,
                     fingerprint, confirmed, ctl, snap, pc, faults>>
  BY DEF Tick, cpVars, xrayVars, memVars
<1>2. ControlOK /\ RuntimeOK /\ LoopsOK /\ SnapOK /\ OverdueHeld
  BY DEF IndInv
<1>3. now \in Nat /\ MaxNow \in Nat /\ faults \in Nat
  BY <1>2, Numbers DEF LoopsOK
<1>4. LoopsOK'
  <2>1. now' \in 0..MaxNow
    BY <1>1, <1>3
  <2>2. QED
    BY <1>1, <1>2, <2>1 DEF LoopsOK
<1>5. ControlOK' /\ RuntimeOK'
  BY <1>1, <1>2 DEF ControlOK, RuntimeOK
<1>6. SnapOK'
  BY <1>1, <1>2 DEF SnapOK, Truthful
<1>7. FilesOK'
  BY <1>1, QuietFiles
<1>8. CycleOK' /\ PlacesOK' /\ SnapshotHeld' /\ FreshHeld'
  BY <1>1 DEF CycleOK, PlacesOK, SnapshotHeld, FreshHeld
<1>9. OverdueHeld'
  <2>1. ASSUME NEW g \in Grants, Served(g)', Recorded(g)', now + 1 >= Until[g] + Sla - Reserve
        PROVE  faults >= now + 1 - (Until[g] + Sla - Reserve)
    <3>1. Until[g] \in Nat /\ Sla \in Nat /\ Reserve \in Nat
      BY Numbers
    <3>2. Served(g) /\ Recorded(g)
      BY <1>1, <2>1 DEF Served, Recorded
    <3>3. CASE now >= Until[g] + Sla - Reserve
      <4>1. faults >= now - (Until[g] + Sla - Reserve) + 1
        BY <1>1, <1>2, <3>2, <3>3 DEF OverdueHeld, Due
      <4>2. QED
        BY <1>3, <3>1, <4>1
    <3>4. CASE ~(now >= Until[g] + Sla - Reserve)
      BY <1>3, <3>1, <3>4
    <3>5. QED
      BY <3>3, <3>4
  <2>2. ASSUME NEW g \in Grants, Served(g)', Recorded(g)', now' >= Until[g] + Sla - Reserve
        PROVE  faults' >= now' - (Until[g] + Sla - Reserve) + (IF checked' THEN 1 ELSE 0)
    <3>1. Until[g] \in Nat /\ Sla \in Nat /\ Reserve \in Nat
      BY Numbers
    <3>2. faults >= now + 1 - (Until[g] + Sla - Reserve)
      BY <1>1, <2>1, <2>2
    <3>3. QED
      BY <1>1, <1>3, <3>1, <3>2
  <2>3. QED
    BY <2>2 DEF OverdueHeld, Due
<1>10. LatchedOut /\ EndsRevoked
  BY <1>1 DEF LatchedOut, EndsRevoked, Served
<1>11. QED
  BY <1>4, <1>5, <1>6, <1>7, <1>8, <1>9, <1>10 DEF IndInv

-----------------------------------------------------------------------------
(* The theorems.                                                           *)

\* The node joins: nothing was revoked, nothing is on disk.
LEMMA InvInit ==
  ASSUME Init
  PROVE  IndInv
<1>1. /\ desired = 0 /\ applied = 0 /\ command = FALSE
      /\ disk.state = NoState /\ disk.latch = NoLatch /\ synced = disk
      /\ disk = [state |-> NoState, latch |-> NoLatch]
      /\ config = {} /\ up = FALSE /\ users = {}
      /\ failClosed = FALSE /\ fingerprint = NoPrint /\ confirmed = FALSE
      /\ ctl = "idle" /\ snap = NoSnap /\ pc = "free"
      /\ polled = FALSE /\ checked = FALSE /\ now = 0 /\ faults = 0
  BY DEF Init
<1>2. 0 \in Versions /\ 0 \in 0..MaxNow /\ 0 \in 0..MaxFaults
  BY Numbers
<1>3. \A g \in Grants : grant[g].status # "REVOKED" /\ grant[g].version = 0
  BY DEF Init
<1>4. grant \in [Grants -> Row]
  <2>1. ASSUME NEW g \in Grants
        PROVE  [status |-> IF g \in Known THEN "ACTIVE" ELSE "NONE", revokedAt |-> 0, version |-> 0] \in Row
    BY <1>2 DEF Row
  <2>2. QED
    BY <2>1 DEF Init
<1>5. ControlOK
  <2>1. desired \in Versions /\ applied \in Versions /\ applied <= desired
    BY <1>1, <1>2
  <2>2. \A g \in Grants : /\ grant[g].version <= desired
                          /\ grant[g].status = "REVOKED" => grant[g].version # 0
    BY <1>1, <1>3
  <2>3. command \in BOOLEAN
    BY <1>1
  <2>4. QED
    BY <1>4, <2>1, <2>2, <2>3 DEF ControlOK
<1>6. NoGrants \in [Grants -> Entry] /\ \A g \in Grants : NoGrants[g].status = "NONE"
  BY Numbers DEF NoGrants, NoEntry, Entry
<1>7. NoState \in StateFile /\ NoState.version = 0 /\ NoState.grants = NoGrants
  BY <1>2, <1>6 DEF NoState, StateFile
<1>8. Truthful(NoState)
  BY <1>3, <1>6, <1>7 DEF Truthful
<1>9. GoodState(NoState)
  BY <1>1, <1>7, <1>8 DEF GoodState
<1>10. GoodLatch(NoLatch) /\ NoLatch \in LatchFile
  BY EmptyLatchesGood
<1>11. FilesOK
  <2>1. disk \in Files
    BY <1>1, <1>7, <1>10 DEF Files
  <2>2. QED
    BY <1>1, <1>9, <1>10, <2>1 DEF FilesOK
<1>12. RuntimeOK
  <2>1. NoPrint \in [known : BOOLEAN, clients : SUBSET Grants]
    BY DEF NoPrint
  <2>2. QED
    BY <1>1, <2>1 DEF RuntimeOK
<1>13. LoopsOK
  BY <1>1, <1>2 DEF LoopsOK
<1>14. SnapOK
  <2>1. NoSnap.version = 0 /\ NoSnap.grants = NoGrants /\ NoSnap \in Snapshot
    BY <1>2, <1>6 DEF NoSnap, Snapshot
  <2>2. Truthful(NoSnap)
    BY <1>3, <1>6, <2>1 DEF Truthful
  <2>3. QED
    BY <1>1, <2>1, <2>2 DEF SnapOK
<1>15. CycleOK /\ PlacesOK /\ SnapshotHeld /\ FreshHeld /\ OverdueHeld
  BY <1>1 DEF CycleOK, PlacesOK, SnapshotHeld, FreshHeld, OverdueHeld, Served
<1>16. QED
  BY <1>5, <1>11, <1>12, <1>13, <1>14, <1>15 DEF IndInv

\* Nothing happens.
LEMMA StutterKeeps ==
  ASSUME IndInv, UNCHANGED vars
  PROVE  IndInv'
<1>1. UNCHANGED <<desired, applied, command, grant, disk, synced, config, up, users, failClosed,
                  fingerprint, confirmed, ctl, snap, pc, polled, checked, now, faults>>
  BY DEF vars, cpVars, xrayVars, memVars
<1>2. ControlOK' /\ RuntimeOK' /\ LoopsOK'
  BY <1>1 DEF IndInv, ControlOK, RuntimeOK, LoopsOK
<1>3. FilesOK'
  BY <1>1, QuietFiles
<1>4. SnapOK' /\ CycleOK' /\ PlacesOK'
  BY <1>1 DEF IndInv, SnapOK, Truthful, CycleOK, PlacesOK
<1>5. SnapshotHeld' /\ FreshHeld' /\ OverdueHeld'
  BY <1>1 DEF IndInv, SnapshotHeld, SameVersion, Holds, FreshHeld, OverdueHeld, Served, Recorded, Due
<1>6. QED
  BY <1>2, <1>3, <1>4, <1>5 DEF IndInv

\* Every step keeps the invariant, lets in nobody a latch names and ends no
\* cycle with an overdue revoke.
LEMMA StepKeeps ==
  ASSUME IndInv, Next
  PROVE  IndInv' /\ LatchedOut /\ EndsRevoked
<1>1. CASE ControlPlane
  BY <1>1, ControlPlaneKeeps
<1>2. CASE Cycle
  BY <1>2, FetchKeeps, FetchFailsKeeps, StoppedCyclesKeep, AcknowledgeKeeps DEF Cycle
<1>3. CASE Apply
  BY <1>3, StoppedCyclesKeep, ApplyCheckKeeps, ApplyRunKeeps, PersistKeeps, ClearLatchKeeps DEF Apply
<1>4. CASE Enforce
  BY <1>4, StoppedCyclesKeep, EnforceCheckKeeps, PersistLatchKeeps DEF Enforce
<1>5. CASE Local
  BY <1>5, LocalStopsKeep, LocalCheckKeeps, LocalRunKeeps DEF Local
<1>6. CASE Fault
  BY <1>6, RestartsKeep, XrayDiesKeeps, CorruptKeeps DEF Fault
<1>7. CASE Tick
  BY <1>7, TickKeeps
<1>8. QED
  BY <1>1, <1>2, <1>3, <1>4, <1>5, <1>6, <1>7 DEF Next

\* The inductive invariant holds: the files are truthful and not behind what
\* was acknowledged, a cycle's snapshot is no older than either, and each tick
\* an overdue client stays in has cost a fault.
THEOREM Invariance == Spec => []IndInv
<1>1. Init => IndInv
  BY InvInit
<1>2. IndInv /\ [Next]_vars => IndInv'
  BY StepKeeps, StutterKeeps
<1>3. QED
  BY <1>1, <1>2, PTL DEF Spec

\* The node's tables, files, processes and loops keep their types, and a node
\* never confirms a version beyond the desired one.
THEOREM TypeCorrect == Spec => []TypeOK
<1>1. IndInv => TypeOK
  <2> SUFFICES ASSUME IndInv PROVE TypeOK
    OBVIOUS
  <2>1. /\ disk.state \in StateFile /\ disk.latch \in LatchFile
        /\ synced.state \in StateFile /\ synced.latch \in LatchFile
    BY DEF IndInv, FilesOK, GoodState, GoodLatch
  <2>2. /\ desired \in Versions /\ applied \in Versions /\ applied <= desired
        /\ command \in BOOLEAN
        /\ grant \in [Grants -> [status : Status, revokedAt : 0..MaxNow, version : Versions]]
    BY DEF IndInv, ControlOK, Row
  <2>3. \A files \in {disk, synced} :
          /\ files.state \in [kind : Kinds, version : Versions, grants : [Grants -> Entry]]
          /\ files.latch \in [kind : Kinds, target : Versions, ids : SUBSET Grants]
    BY <2>1 DEF StateFile, LatchFile
  <2>4. snap \in [version : Versions, grants : [Grants -> Entry]]
    BY DEF IndInv, SnapOK, Snapshot
  <2>5. QED
    BY <2>2, <2>3, <2>4 DEF IndInv, RuntimeOK, LoopsOK, TypeOK
<1>2. QED
  BY <1>1, Invariance, PTL

\* acknowledge() is sent only for a version whose state file, and the directory
\* entry it was renamed to, are synced: a power loss at any moment finds what
\* the control plane takes for applied.
THEOREM AcknowledgedIsDurableHolds == Spec => []AcknowledgedIsDurable
<1>1. IndInv => AcknowledgedIsDurable
  BY DEF IndInv, FilesOK, GoodState, AcknowledgedIsDurable
<1>2. QED
  BY <1>1, Invariance, PTL

\* A client reconcileLocalState() can see is out when its expiry is older than
\* the SLA, however often the reload fails and without the control plane, as
\* long as there are fewer faults than LOCAL_FAIL_CLOSED_RESERVE_MS has turns of
\* the local loop: past the moment the agent stops, every turn that leaves the
\* client in costs one.
THEOREM ExpiryWithinSlaHolds ==
  ASSUME MaxFaults < Reserve
  PROVE  Spec => []ExpiryWithinSla
<1>1. IndInv => ExpiryWithinSla
  <2>1. SUFFICES ASSUME IndInv, NEW g \in Grants, now >= Until[g] + Sla, Recorded(g), Served(g)
                 PROVE  FALSE
    BY DEF ExpiryWithinSla
  <2>2. /\ now \in Nat /\ faults \in Nat /\ faults <= MaxFaults /\ Until[g] \in Nat
        /\ Sla \in Nat /\ Reserve \in Nat /\ MaxFaults \in Nat
    BY <2>1, Numbers DEF IndInv, LoopsOK
  <2>3. Due(Until[g])
    BY <2>1, <2>2 DEF Due
  <2>4. faults >= now - (Until[g] + Sla - Reserve) + (IF checked THEN 1 ELSE 0)
    BY <2>1, <2>3 DEF IndInv, OverdueHeld
  <2>5. QED
    BY <2>1, <2>2, <2>4
<1>2. QED
  BY <1>1, Invariance, PTL

\* A cycle that knows of a revoke whose time is almost up does not end with the
\* client let in, whichever of the reload, the state file and the latch fails.
THEOREM CycleEndsRevokedHolds == Spec => CycleEndsRevoked
<1>1. IndInv /\ [Next]_vars => [EndsRevoked]_vars
  BY StepKeeps
<1>2. Spec => [][EndsRevoked]_vars
  BY <1>1, Invariance, PTL DEF Spec
<1>3. QED
  BY <1>2 DEF CycleEndsRevoked, EndsRevoked

\* No step, not even one after a crash or from an older snapshot, lets in a
\* client the stop-only latch on disk names.
THEOREM LatchedStaysOutHolds == Spec => LatchedStaysOut
<1>1. IndInv /\ [Next]_vars => [LatchedOut]_vars
  BY StepKeeps
<1>2. Spec => [][LatchedOut]_vars
  BY <1>1, Invariance, PTL DEF Spec
<1>3. QED
  BY <1>2 DEF LatchedStaysOut, LatchedOut

=============================================================================
