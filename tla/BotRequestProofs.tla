-------------------------- MODULE BotRequestProofs --------------------------
(***************************************************************************)
(* Proofs about BotRequest, for any number of updates, concurrent handlers *)
(* and credentials, any clock drift of the bot and any number of faults,   *)
(* as long as a nonce lives for more than twice the tolerated skew.        *)
(***************************************************************************)
EXTENDS BotRequest, FiniteSetTheorems, SequenceTheorems, TLAPS

-----------------------------------------------------------------------------
(* The inductive invariant, in named parts.                                *)

Phases == {"authenticated", "credential", "scope"}

\* The clock, the faults and the credential rows.
RowsOK ==
    /\ now \in 0..MaxNow /\ faults \in 0..MaxFaults
    /\ revoked \in Seq(BOOLEAN) /\ Len(revoked) \in 0..MaxVersion
    /\ signer \in Versions \cup {NoFile} /\ file \in Versions \cup {NoFile}
    /\ botched \in BOOLEAN

\* What the operator's command has in hand at each of its stages.
CliOK ==
    \/ cli = Idle
    \/ cli \in [phase : {"install", "compensate"}, version : Versions,
                old : Versions \cup {NoFile}]
    \/ cli \in [phase : {"revoke"}, version : Versions, protected : Versions]

\* The bot numbers its requests, so a nonce belongs to one request.
RequestsOK ==
    /\ requests \subseteq [update : Updates, version : Versions, at : Nat, nonce : 1..MaxSigned]
    /\ IsFiniteSet(requests)
    /\ \A r \in requests : r.nonce <= Cardinality(requests)
    /\ \A r, s \in requests : r.nonce = s.nonce => r = s

\* Redis, and: while a request may still pass the window, Redis remembers
\* that its nonce was used.
NoncesOK ==
    /\ nonces \in [1..MaxSigned -> 0..(MaxNow + NonceTtl)]
    /\ accepted \subseteq 1..MaxSigned
    /\ \A n \in accepted : n <= Cardinality(requests)
    /\ \A r \in requests : r.nonce \in accepted => nonces[r.nonce] > r.at + Skew

\* A handler is idle or runs a request the bot signed.
HandlersOK ==
    handler \in [Handlers -> {Idle} \cup [phase : Phases, request : requests]]

\* An update has no row and no effect, or the row of its one effect.
ResultsOK ==
    /\ idem \in [Updates -> {NoRow, 1}]
    /\ effect \in [Updates -> {{}, {1}}] /\ told \in [Updates -> {{}, {1}}]
    /\ \A u \in Updates : effect[u] = IF idem[u] = NoRow THEN {} ELSE {1}
    /\ \A u \in Updates : told[u] \subseteq effect[u]

\* One transaction per update is past the scope lock, and it found no row.
ScopeHeld ==
    \A h \in Handlers : handler[h].phase = "scope" =>
        /\ idem[handler[h].request.update] = NoRow
        /\ \A k \in Handlers :
              /\ handler[k].phase = "scope"
              /\ handler[k].request.update = handler[h].request.update
              => k = h

\* A credential whose row a transaction has locked is not revoked.
CredentialHeld ==
    \A h \in Handlers : handler[h].phase \in {"credential", "scope"} =>
        ~revoked[handler[h].request.version]

\* What a running command may count on: an installation can be undone, a
\* compensation does not hit the installed credential, and the credential
\* a revocation spares is the installed one.
CliSafe ==
    /\ cli.phase = "install" =>
          /\ ~revoked[cli.version] /\ cli.old # cli.version
          /\ cli.old = NoFile \/ ~revoked[cli.old]
    /\ cli.phase = "compensate" => botched \/ file # cli.version
    /\ cli.phase = "revoke" => cli.protected = file

Types == RowsOK /\ CliOK /\ RequestsOK /\ NoncesOK /\ HandlersOK /\ ResultsOK

IndInv == Types /\ ScopeHeld /\ CredentialHeld /\ CliSafe /\ InstalledIsActive

-----------------------------------------------------------------------------
(* The inductive invariant holds initially and is preserved.               *)

\* Nothing provisioned, signed, accepted or executed.
LEMMA InvInit == Init => IndInv
<1> SUFFICES ASSUME Init PROVE IndInv
  OBVIOUS
<1> USE BoundsAssumption DEF Init
<1>1. RowsOK /\ CliOK /\ HandlersOK /\ ResultsOK
  <2>0. <<>> \in Seq(BOOLEAN) /\ Len(<<>>) = 0
    OBVIOUS
  <2>1. RowsOK
    <3>1. revoked \in Seq(BOOLEAN) /\ Len(revoked) \in 0..MaxVersion
      BY <2>0
    <3>2. now \in 0..MaxNow /\ faults \in 0..MaxFaults
      OBVIOUS
    <3>3. botched \in BOOLEAN
      OBVIOUS
    <3>4. QED
      BY <3>1, <3>2, <3>3 DEF RowsOK
  <2>2. CliOK /\ HandlersOK
    BY DEF CliOK, HandlersOK
  <2>3. ResultsOK
    BY DEF ResultsOK, NoRow
  <2>4. QED
    BY <2>1, <2>2, <2>3
<1>2. RequestsOK /\ NoncesOK
  BY FS_EmptySet DEF RequestsOK, NoncesOK
<1>3. ScopeHeld /\ CredentialHeld /\ CliSafe /\ InstalledIsActive
  BY DEF ScopeHeld, CredentialHeld, CliSafe, InstalledIsActive, Installed, Idle, NoFile
<1>4. QED
  BY <1>1, <1>2, <1>3 DEF IndInv, Types

\* A new credential row keeps the rows there were.
LEMMA AppendRow ==
  ASSUME RowsOK, revoked' = Append(revoked, FALSE), Len(revoked) < MaxVersion
  PROVE  /\ revoked' \in Seq(BOOLEAN) /\ Len(revoked') = Len(revoked) + 1
         /\ Len(revoked') \in 0..MaxVersion
         /\ Versions \subseteq Versions' /\ Len(revoked) + 1 \in Versions'
         /\ Len(revoked) + 1 \notin Versions /\ ~revoked'[Len(revoked) + 1]
         /\ \A v \in Versions : revoked'[v] = revoked[v]
<1>1. revoked \in Seq(BOOLEAN) /\ Len(revoked) \in Nat /\ MaxVersion \in Nat
  BY BoundsAssumption DEF RowsOK
<1>2. revoked' \in Seq(BOOLEAN) /\ Len(revoked') = Len(revoked) + 1
  BY <1>1
<1>3. Versions = 1..Len(revoked) /\ Versions' = 1..(Len(revoked) + 1)
  BY <1>1, <1>2 DEF Versions
<1>4. ~revoked'[Len(revoked) + 1] /\ \A v \in 1..Len(revoked) : revoked'[v] = revoked[v]
  BY <1>1
<1>5. QED
  BY <1>1, <1>2, <1>3, <1>4

\* A revocation sets one row's flag.
LEMMA RevokeRow ==
  ASSUME RowsOK, NEW v \in Versions, revoked' = [revoked EXCEPT ![v] = TRUE]
  PROVE  /\ revoked' \in Seq(BOOLEAN) /\ Len(revoked') = Len(revoked)
         /\ Versions' = Versions
         /\ \A w \in Versions : w # v => revoked'[w] = revoked[w]
  BY DEF RowsOK, Versions

\* The parts about the bot, Redis and the handlers survive a new row or a
\* revocation of a row no transaction has locked.
LEMMA RowsChange ==
  ASSUME IndInv, Versions \subseteq Versions',
         \A h \in Handlers : handler[h].phase \in {"credential", "scope"} =>
            revoked'[handler[h].request.version] = revoked[handler[h].request.version],
         UNCHANGED <<now, requests, nonces, accepted, handler, idem, effect, told>>
  PROVE  /\ RequestsOK' /\ NoncesOK' /\ HandlersOK' /\ ResultsOK'
         /\ ScopeHeld' /\ CredentialHeld'
<1> USE DEF IndInv, Types
<1>1. RequestsOK'
  BY DEF RequestsOK
<1>2. NoncesOK' /\ HandlersOK' /\ ResultsOK' /\ ScopeHeld'
  BY DEF NoncesOK, HandlersOK, ResultsOK, ScopeHeld
<1>3. CredentialHeld'
  BY DEF CredentialHeld
<1>4. QED
  BY <1>1, <1>2, <1>3

\* The lock of a running transaction's credential row, and its version.
LEMMA LockedVersion ==
  ASSUME IndInv, NEW h \in Handlers, handler[h].phase \in {"credential", "scope"}
  PROVE  handler[h].request \in requests /\ handler[h].request.version \in Versions
  BY DEF IndInv, Types, HandlersOK, RequestsOK, Idle

\* The operator's command keeps the invariant: at each of its stages, when it
\* fails, and when it dies.
LEMMA CliKeeps == IndInv /\ CliStep => IndInv'
<1> SUFFICES ASSUME IndInv, CliStep PROVE IndInv'
  OBVIOUS
<1> DEFINE Rest == /\ RequestsOK' /\ NoncesOK' /\ HandlersOK' /\ ResultsOK'
                   /\ ScopeHeld' /\ CredentialHeld'
           Own == RowsOK' /\ CliOK' /\ CliSafe' /\ InstalledIsActive'
<1>0. IndInv' <=> Own /\ Rest
  BY DEF IndInv, Types
<1> USE DEF bot, redis, execution
<1>a. RowsOK /\ CliOK /\ CliSafe /\ InstalledIsActive
  BY DEF IndInv, Types
<1>1. CASE Rotate \/ Provision
  <2>1. /\ revoked' = Append(revoked, FALSE) /\ Len(revoked) < MaxVersion
        /\ UNCHANGED <<now, signer, file, requests, nonces, accepted, handler, idem, effect,
                       told, botched, faults>>
    BY <1>1 DEF Rotate, Provision
  <2>2. /\ revoked' \in Seq(BOOLEAN) /\ Len(revoked') = Len(revoked) + 1
        /\ Len(revoked') \in 0..MaxVersion
        /\ Versions \subseteq Versions' /\ Len(revoked) + 1 \in Versions'
        /\ Len(revoked) + 1 \notin Versions /\ ~revoked'[Len(revoked) + 1]
        /\ \A v \in Versions : revoked'[v] = revoked[v]
    BY <1>a, <2>1, AppendRow
  <2>3. Rest
    BY <2>1, <2>2, LockedVersion, RowsChange
  <2>4. RowsOK'
    BY <1>a, <2>1, <2>2 DEF RowsOK
  <2>5. InstalledIsActive'
    BY <1>a, <2>1, <2>2 DEF InstalledIsActive, Installed, Active
  <2>6. /\ cli' = [phase |-> "install", version |-> Len(revoked) + 1, old |-> file]
        /\ file = NoFile \/ file \in Active
    BY <1>1 DEF Rotate, Provision, Installed
  <2>7. CliOK' /\ CliSafe'
    <3>1. file \in Versions \cup {NoFile} /\ Len(revoked) \in Nat
      BY <1>a DEF RowsOK
    <3>2. CliOK'
      BY <3>1, <2>2, <2>6 DEF CliOK
    <3>3. cli'.phase = "install" /\ cli'.version = Len(revoked) + 1 /\ cli'.old = file
      BY <2>6
    <3>4. file # NoFile => file \in Versions /\ ~revoked[file]
      BY <2>6 DEF Active
    <3>5. file # Len(revoked) + 1
      BY <3>1, <2>2 DEF NoFile
    <3>6. CliSafe'
      BY <3>3, <3>4, <3>5, <2>2 DEF CliSafe
    <3>7. QED
      BY <3>2, <3>6
  <2>8. QED
    BY <1>0, <2>3, <2>4, <2>5, <2>7
<1>2. CASE Install
  <2>1. Rest
    BY <1>2, RowsChange DEF Install, Versions
  <2>2. Own
    BY <1>2, <1>a DEF Install, RowsOK, CliOK, CliSafe, InstalledIsActive, Installed, Active, Versions, Idle
  <2>3. QED
    BY <1>0, <2>1, <2>2
<1>3. CASE InstallFails
  <2>1. Rest
    BY <1>3, RowsChange DEF InstallFails, Versions
  <2>2. cli \in [phase : {"install", "compensate"}, version : Versions, old : Versions \cup {NoFile}]
    BY <1>3, <1>a DEF InstallFails, CliOK, Idle
  <2>3. RowsOK' /\ CliOK'
    <3>1. botched' \in BOOLEAN
      BY <1>3, <1>a DEF InstallFails, RowsOK
    <3>2. Versions' = Versions
      BY <1>3 DEF InstallFails, Versions
    <3>3. file' \in Versions \cup {NoFile}
      BY <1>3, <2>2 DEF InstallFails
    <3>4. faults' \in 0..MaxFaults
      BY <1>3, <1>a, BoundsAssumption DEF InstallFails, RowsOK
    <3>5. RowsOK'
      BY <1>3, <1>a, <3>1, <3>2, <3>3, <3>4 DEF InstallFails, RowsOK
    <3>6. CliOK'
      BY <1>3, <2>2, <3>2 DEF InstallFails, CliOK
    <3>7. QED
      BY <3>5, <3>6
  <2>4. CliSafe' /\ InstalledIsActive'
    BY <1>3, <1>a, <2>2 DEF InstallFails, CliSafe, InstalledIsActive, Installed, Active, Versions
  <2>5. QED
    BY <1>0, <2>1, <2>3, <2>4
<1>4. CASE Compensate
  <2>1. cli.version \in Versions
    BY <1>4, <1>a DEF Compensate, CliOK, Idle
  <2>2. /\ revoked' \in Seq(BOOLEAN) /\ Len(revoked') = Len(revoked) /\ Versions' = Versions
        /\ \A w \in Versions : w # cli.version => revoked'[w] = revoked[w]
    BY <1>4, <1>a, <2>1, RevokeRow DEF Compensate
  <2>3. Rest
    BY <1>4, <2>2, RowsChange, LockedVersion DEF Compensate, RowFree
  <2>4. Own
    BY <1>4, <1>a, <2>2 DEF Compensate, RowsOK, CliOK, CliSafe, InstalledIsActive, Installed, Active, Idle
  <2>5. QED
    BY <1>0, <2>3, <2>4
<1>5. CASE \E v \in Versions : AskRevoke(v)
  <2> PICK v \in Versions : AskRevoke(v)
    BY <1>5
  <2>1. Rest
    BY RowsChange DEF AskRevoke, Versions
  <2>2. Own
    BY <1>a DEF AskRevoke, RowsOK, CliOK, CliSafe, InstalledIsActive, Installed, Active, Versions
  <2>3. QED
    BY <1>0, <2>1, <2>2
<1>6. CASE Revoke
  <2>1. cli.version \in Versions /\ cli.protected = file
    BY <1>6, <1>a DEF Revoke, CliOK, CliSafe, Idle
  <2>2. CASE Revocable(cli.version, cli.protected)
    <3>1. /\ revoked' \in Seq(BOOLEAN) /\ Len(revoked') = Len(revoked) /\ Versions' = Versions
          /\ \A w \in Versions : w # cli.version => revoked'[w] = revoked[w]
      BY <1>6, <1>a, <2>1, <2>2, RevokeRow DEF Revoke
    <3>2. Rest
      BY <1>6, <2>2, <3>1, RowsChange, LockedVersion DEF Revoke, RowFree
    <3>3. Own
      BY <1>6, <1>a, <2>1, <2>2, <3>1
         DEF Revoke, Revocable, RowsOK, CliOK, CliSafe, InstalledIsActive, Installed, Active, Idle
    <3>4. QED
      BY <1>0, <3>2, <3>3
  <2>3. CASE ~Revocable(cli.version, cli.protected)
    <3>1. Rest
      BY <1>6, <2>3, RowsChange DEF Revoke, Versions
    <3>2. Own
      BY <1>6, <2>3, <1>a DEF Revoke, RowsOK, CliOK, CliSafe, InstalledIsActive, Installed, Active, Versions, Idle
    <3>3. QED
      BY <1>0, <3>1, <3>2
  <2>4. QED
    BY <2>2, <2>3
<1>7. CASE CliDies
  <2>1. Rest
    BY <1>7, RowsChange DEF CliDies, Versions
  <2>2. Own
    BY <1>7, <1>a DEF CliDies, RowsOK, CliOK, CliSafe, InstalledIsActive, Installed, Active, Versions, Idle
  <2>3. QED
    BY <1>0, <2>1, <2>2
<1>8. QED
  BY <1>1, <1>2, <1>3, <1>4, <1>5, <1>6, <1>7 DEF CliStep

\* The parts about the credentials do not depend on the rest of the state.
LEMMA CliFrame ==
  ASSUME IndInv, UNCHANGED <<revoked, file, cli, botched>>
  PROVE  /\ CliOK' /\ CliSafe' /\ InstalledIsActive' /\ Versions' = Versions
  BY DEF IndInv, Types, CliOK, CliSafe, InstalledIsActive, Installed, Active, Versions

\* A new request has a nonce of its own, which Redis has not seen.
LEMMA SignKeeps == ASSUME IndInv, NEW u \in Updates, Sign(u) PROVE IndInv'
<1> DEFINE n == Cardinality(requests) + 1
<1>1. PICK drift \in ClockDrifts :
        requests' = requests \cup
              {[update |-> u, version |-> signer, at |-> now + drift, nonce |-> n]}
  BY DEF Sign
<1> DEFINE q == [update |-> u, version |-> signer, at |-> now + drift, nonce |-> n]
<1>2. /\ signer # NoFile /\ Cardinality(requests) < MaxSigned
      /\ UNCHANGED <<now, signer, revoked, file, cli, botched, nonces, accepted,
                     handler, idem, effect, told, faults>>
  BY DEF Sign, credentials, redis, execution
<1>3. /\ RowsOK /\ RequestsOK /\ NoncesOK /\ HandlersOK /\ ResultsOK
      /\ ScopeHeld /\ CredentialHeld
  BY DEF IndInv, Types
<1>4. Cardinality(requests) \in Nat /\ n \in 1..MaxSigned
  BY <1>2, <1>3, FS_CardinalityType, BoundsAssumption DEF RequestsOK
<1>5. CliOK' /\ CliSafe' /\ InstalledIsActive' /\ Versions' = Versions
  BY <1>2, CliFrame
<1>6. RowsOK'
  BY <1>2, <1>3, <1>5 DEF RowsOK
<1>7. q \in [update : Updates, version : Versions, at : Nat, nonce : 1..MaxSigned]
  BY <1>2, <1>3, <1>4, BoundsAssumption DEF RowsOK
<1>8. \A r \in requests : r.nonce \in Nat /\ r.nonce < n
  BY <1>3, <1>4 DEF RequestsOK
<1>9. q.nonce = n
  OBVIOUS
<1> HIDE DEF q
<1>10. requests' = requests \cup {q}
  BY <1>1 DEF q
<1>11. q \notin requests
  BY <1>4, <1>8, <1>9
<1>12. IsFiniteSet(requests') /\ Cardinality(requests') = n
  BY <1>3, <1>10, <1>11, FS_AddElement DEF RequestsOK
<1>13. RequestsOK'
  <2>1. \A r \in requests' : r.nonce <= Cardinality(requests')
    BY <1>4, <1>8, <1>9, <1>10, <1>12
  <2>2. \A r, s \in requests' : r.nonce = s.nonce => r = s
    BY <1>3, <1>4, <1>8, <1>9, <1>10 DEF RequestsOK
  <2>3. requests' \subseteq [update : Updates, version : Versions', at : Nat, nonce : 1..MaxSigned]
    BY <1>3, <1>5, <1>7, <1>10 DEF RequestsOK
  <2>4. QED
    BY <2>1, <2>2, <2>3, <1>12 DEF RequestsOK
<1>14. NoncesOK'
  <2>1. q.nonce \notin accepted
    BY <1>3, <1>4, <1>9 DEF NoncesOK
  <2>2. \A k \in accepted : k <= n
    BY <1>3, <1>4 DEF NoncesOK
  <2>3. QED
    BY <1>2, <1>3, <1>10, <1>12, <2>1, <2>2 DEF NoncesOK
<1>15. HandlersOK' /\ ResultsOK' /\ ScopeHeld' /\ CredentialHeld'
  BY <1>2, <1>3, <1>10 DEF HandlersOK, ResultsOK, ScopeHeld, CredentialHeld
<1>16. QED
  BY <1>5, <1>6, <1>13, <1>14, <1>15 DEF IndInv, Types

\* The parts a step of the API leaves alone.
LEMMA ApiFrame ==
  ASSUME IndInv, UNCHANGED <<now, signer, requests, revoked, file, cli, botched, faults>>
  PROVE  RowsOK' /\ RequestsOK' /\ CliOK' /\ CliSafe' /\ InstalledIsActive'
<1>1. CliOK' /\ CliSafe' /\ InstalledIsActive' /\ Versions' = Versions
  BY CliFrame
<1>2. RowsOK' /\ RequestsOK'
  BY <1>1 DEF IndInv, Types, RowsOK, RequestsOK
<1>3. QED
  BY <1>1, <1>2

\* Ending a transaction keeps what the other handlers rely on.
LEMMA EndKeeps ==
  ASSUME IndInv, NEW h \in Handlers, End(h), UNCHANGED <<requests, revoked, idem>>
  PROVE  HandlersOK' /\ ScopeHeld' /\ CredentialHeld'
<1>1. HandlersOK /\ ScopeHeld /\ CredentialHeld
  BY DEF IndInv, Types
<1>2. HandlersOK'
  BY <1>1 DEF HandlersOK, End
<1>3. handler'[h] = Idle /\ \A k \in Handlers : k # h => handler'[k] = handler[k]
  BY <1>1 DEF HandlersOK, End
<1>4. Idle.phase = "idle"
  BY DEF Idle
<1>5. ScopeHeld' /\ CredentialHeld'
  BY <1>1, <1>3, <1>4 DEF ScopeHeld, CredentialHeld
<1>6. QED
  BY <1>2, <1>5

\* An answer with the stored result is the result of the effect.
LEMMA AnswerKeeps ==
  ASSUME ResultsOK, NEW u \in Updates, idem[u] # NoRow, Answer(u, idem[u]),
         UNCHANGED <<idem, effect>>
  PROVE  ResultsOK' /\ told' \in {told, [told EXCEPT ![u] = effect[u]]}
<1>1. idem[u] = 1 /\ effect[u] = {1} /\ told[u] \in {{}, {1}}
  BY DEF ResultsOK, NoRow
<1>2. told' \in {told, [told EXCEPT ![u] = {1}]}
  BY <1>1 DEF Answer
<1>3. ResultsOK'
  BY <1>1, <1>2 DEF ResultsOK
<1>4. QED
  BY <1>1, <1>2, <1>3

\* A request that passes the window and finds its nonce free was not accepted
\* before: the reservation would outlive the window.
LEMMA FreshNonce ==
  ASSUME IndInv, NEW h \in Handlers, NEW r \in requests, Authenticate(h, r)
  PROVE  r.nonce \notin accepted
<1>1. r.nonce \in 1..MaxSigned /\ r.at \in Nat /\ now \in Nat /\ nonces[r.nonce] \in Nat
  BY BoundsAssumption DEF IndInv, Types, RequestsOK, RowsOK, NoncesOK
<1>2. ~(nonces[r.nonce] > now) /\ now <= r.at + Skew
  BY DEF Authenticate, Reserved, InWindow
<1>3. r.nonce \in accepted => nonces[r.nonce] > r.at + Skew
  BY DEF IndInv, Types, NoncesOK
<1>4. QED
  BY <1>1, <1>2, <1>3, BoundsAssumption

\* Authentication reserves the nonce for longer than the request stays valid.
LEMMA AuthenticateKeeps ==
  ASSUME IndInv, NEW h \in Handlers, NEW r \in requests, Authenticate(h, r)
  PROVE  IndInv'
<1>1. RowsOK' /\ RequestsOK' /\ CliOK' /\ CliSafe' /\ InstalledIsActive'
  BY ApiFrame DEF Authenticate, bot, credentials
<1>2. /\ RowsOK /\ RequestsOK /\ NoncesOK /\ HandlersOK /\ ResultsOK
      /\ ScopeHeld /\ CredentialHeld
  BY DEF IndInv, Types
<1>3. /\ UNCHANGED <<now, requests, revoked, idem, effect, told>>
      /\ nonces' = [nonces EXCEPT ![r.nonce] = now + NonceTtl]
      /\ accepted' = accepted \cup {r.nonce}
      /\ handler' = [handler EXCEPT ![h] = [phase |-> "authenticated", request |-> r]]
      /\ r.at <= now + Skew
  BY DEF Authenticate, Reserve, InWindow, bot, credentials
<1>4. NoncesOK'
  <2>1. /\ r.nonce \in 1..MaxSigned /\ r.at \in Nat /\ now \in 0..MaxNow
        /\ now + NonceTtl \in 0..(MaxNow + NonceTtl)
        /\ r.nonce <= Cardinality(requests)
    BY <1>2, BoundsAssumption DEF RequestsOK, RowsOK
  <2>2. nonces' \in [1..MaxSigned -> 0..(MaxNow + NonceTtl)] /\ accepted' \subseteq 1..MaxSigned
    BY <1>2, <1>3, <2>1 DEF NoncesOK
  <2>3. nonces'[r.nonce] > r.at + Skew
    BY <1>2, <1>3, <2>1, BoundsAssumption DEF NoncesOK
  <2>4. \A s \in requests : s.nonce \in accepted' => nonces'[s.nonce] > s.at + Skew
    <3> SUFFICES ASSUME NEW s \in requests, s.nonce \in accepted'
                 PROVE  nonces'[s.nonce] > s.at + Skew
      OBVIOUS
    <3>1. CASE s.nonce = r.nonce
      BY <1>2, <2>3, <3>1 DEF RequestsOK
    <3>2. CASE s.nonce # r.nonce
      BY <1>2, <1>3, <2>1, <3>2 DEF NoncesOK
    <3>3. QED
      BY <3>1, <3>2
  <2>5. QED
    BY <1>2, <1>3, <2>1, <2>2, <2>4 DEF NoncesOK
<1>5. HandlersOK' /\ ResultsOK'
  BY <1>2, <1>3 DEF HandlersOK, ResultsOK, Phases
<1>6. handler'[h].phase = "authenticated" /\ \A k \in Handlers : k # h => handler'[k] = handler[k]
  BY <1>2, <1>3 DEF HandlersOK
<1>7. ScopeHeld' /\ CredentialHeld'
  BY <1>2, <1>3, <1>6 DEF ScopeHeld, CredentialHeld
<1>8. QED
  BY <1>1, <1>4, <1>5, <1>7 DEF IndInv, Types

\* Each lock, the operation and the roll back of a transaction keep the
\* invariant.
LEMMA ExecutesKeeps ==
  ASSUME IndInv, NEW h \in Handlers, Executes(h) \/ RollBack(h)
  PROVE  IndInv'
<1>1. /\ RowsOK /\ RequestsOK /\ NoncesOK /\ HandlersOK /\ ResultsOK
      /\ ScopeHeld /\ CredentialHeld
  BY DEF IndInv, Types
<1>2. UNCHANGED <<now, signer, requests, revoked, file, cli, botched, nonces, accepted, faults>>
  BY DEF Executes, RollBack, LockCredential, LockScope, Perform, bot, credentials, redis
<1>3. RowsOK' /\ RequestsOK' /\ CliOK' /\ CliSafe' /\ InstalledIsActive' /\ NoncesOK'
  BY <1>1, <1>2, ApiFrame DEF NoncesOK
<1> DEFINE r == handler[h].request
           u == r.update
<1> SUFFICES HandlersOK' /\ ResultsOK' /\ ScopeHeld' /\ CredentialHeld'
  BY <1>3 DEF IndInv, Types
<1>4. handler[h] # Idle => handler[h] \in [phase : Phases, request : requests]
  BY <1>1 DEF HandlersOK
<1>5. handler[h] \in [phase : Phases, request : requests] => u \in Updates
  BY <1>1 DEF RequestsOK
<1>6. Idle.phase = "idle"
  BY DEF Idle
<1>7. CASE RollBack(h)
  <2>1. End(h) /\ UNCHANGED <<idem, effect, told>>
    BY <1>7 DEF RollBack
  <2>2. QED
    BY <1>1, <1>2, <2>1, EndKeeps DEF ResultsOK
<1>8. CASE LockCredential(h)
  <2>1. UNCHANGED <<idem, effect, told>> /\ ResultsOK' /\ handler[h].phase = "authenticated"
    BY <1>1, <1>8 DEF LockCredential, ResultsOK
  <2>2. CASE ~Revalidated(r)
    BY <1>2, <1>8, <2>1, <2>2, EndKeeps DEF LockCredential
  <2>3. CASE Revalidated(r)
    <3>1. handler' = [handler EXCEPT ![h].phase = "credential"] /\ ~revoked[r.version]
      BY <1>8, <2>3 DEF LockCredential, Revalidated
    <3>2. handler[h] \in [phase : Phases, request : requests]
      BY <1>4, <1>6, <2>1
    <3>3. /\ handler'[h] = [handler[h] EXCEPT !.phase = "credential"]
          /\ \A k \in Handlers : k # h => handler'[k] = handler[k]
      BY <1>1, <3>1 DEF HandlersOK
    <3>4. handler'[h].phase = "credential" /\ handler'[h].request = r
      BY <3>2, <3>3
    <3>5. HandlersOK'
      BY <1>1, <1>2, <3>1, <3>2 DEF HandlersOK, Phases
    <3>6. ScopeHeld' /\ CredentialHeld'
      BY <1>1, <1>2, <2>1, <3>1, <3>3, <3>4 DEF ScopeHeld, CredentialHeld
    <3>7. QED
      BY <2>1, <3>5, <3>6
  <2>4. QED
    BY <2>2, <2>3
<1>9. CASE LockScope(h)
  <2>1. UNCHANGED <<idem, effect>> /\ handler[h].phase = "credential" /\ ScopeFree(r)
    BY <1>9 DEF LockScope
  <2>2. handler[h] \in [phase : Phases, request : requests] /\ u \in Updates
    BY <1>4, <1>5, <1>6, <2>1
  <2>3. CASE idem[u] # NoRow
    <3>1. Answer(u, idem[u]) /\ End(h)
      BY <1>9, <2>3 DEF LockScope
    <3>2. QED
      BY <1>1, <1>2, <2>1, <2>2, <2>3, <3>1, EndKeeps, AnswerKeeps
  <2>4. CASE idem[u] = NoRow
    <3>1. handler' = [handler EXCEPT ![h].phase = "scope"] /\ UNCHANGED told
      BY <1>9, <2>4 DEF LockScope
    <3>2. ResultsOK'
      BY <1>1, <2>1, <3>1 DEF ResultsOK
    <3>3. /\ handler'[h] = [handler[h] EXCEPT !.phase = "scope"]
          /\ \A k \in Handlers : k # h => handler'[k] = handler[k]
      BY <1>1, <3>1 DEF HandlersOK
    <3>4. handler'[h].phase = "scope" /\ handler'[h].request = r
      BY <2>2, <3>3
    <3>5. HandlersOK'
      BY <1>1, <1>2, <2>2, <3>1 DEF HandlersOK, Phases
    <3>6. ScopeHeld'
      <4> SUFFICES ASSUME NEW k \in Handlers, handler'[k].phase = "scope"
                   PROVE  /\ idem'[handler'[k].request.update] = NoRow
                          /\ \A g \in Handlers :
                                /\ handler'[g].phase = "scope"
                                /\ handler'[g].request.update = handler'[k].request.update
                                => g = k
        BY DEF ScopeHeld
      <4>1. \A g \in Handlers : g # h /\ handler'[g].phase = "scope"
              => handler'[g] = handler[g] /\ handler[g].request.update # u
        BY <2>1, <3>3 DEF ScopeFree
      <4>2. CASE k = h
        BY <2>1, <2>4, <3>4, <4>1, <4>2
      <4>3. CASE k # h
        <5>1. handler'[k] = handler[k] /\ handler[k].request.update # u
          BY <4>1, <4>3
        <5>2. idem[handler[k].request.update] = NoRow
          BY <1>1, <5>1 DEF ScopeHeld
        <5>3. ASSUME NEW g \in Handlers, handler'[g].phase = "scope",
                     handler'[g].request.update = handler'[k].request.update
              PROVE  g = k
          <6>1. g # h
            BY <3>4, <5>1, <5>3
          <6>2. handler'[g] = handler[g]
            BY <4>1, <5>3, <6>1
          <6>3. QED
            BY <1>1, <5>1, <5>3, <6>2 DEF ScopeHeld
        <5>4. QED
          BY <2>1, <5>1, <5>2, <5>3
      <4>4. QED
        BY <4>2, <4>3
    <3>7. CredentialHeld'
      BY <1>1, <1>2, <2>1, <3>3, <3>4 DEF CredentialHeld
    <3>8. QED
      BY <3>2, <3>5, <3>6, <3>7
  <2>5. QED
    BY <2>3, <2>4
<1>10. CASE Perform(h)
  <2>1. handler[h].phase = "scope" /\ End(h)
    BY <1>10 DEF Perform
  <2>2. handler[h] \in [phase : Phases, request : requests] /\ u \in Updates
    BY <1>4, <1>5, <1>6, <2>1
  <2>3. idem[u] = NoRow /\ effect[u] = {} /\ Cardinality(effect[u]) = 0
    BY <1>1, <2>1, <2>2, FS_EmptySet DEF ScopeHeld, ResultsOK
  <2>4. /\ idem' = [idem EXCEPT ![u] = 1]
        /\ effect' = [effect EXCEPT ![u] = {1}]
        /\ told' \in {told, [told EXCEPT ![u] = @ \cup {1}]}
    <3>1. /\ idem' = [idem EXCEPT ![u] = Cardinality(effect[u]) + 1]
          /\ effect' = [effect EXCEPT ![u] = effect[u] \cup {Cardinality(effect[u]) + 1}]
          /\ Answer(u, Cardinality(effect[u]) + 1)
      BY <1>10 DEF Perform
    <3>2. Cardinality(effect[u]) + 1 = 1 /\ effect[u] \cup {1} = {1}
      BY <2>3
    <3>3. QED
      BY <3>1, <3>2 DEF Answer
  <2>5. told[u] = {}
    BY <1>1, <2>2, <2>3 DEF ResultsOK
  <2>6. ResultsOK'
    <3>1. told[u] \cup {1} = {1}
      BY <2>5
    <3>2. told' \in [Updates -> {{}, {1}}]
      BY <1>1, <2>2, <2>4, <3>1 DEF ResultsOK
    <3>3. /\ idem' \in [Updates -> {NoRow, 1}]
          /\ effect' \in [Updates -> {{}, {1}}]
          /\ \A v \in Updates : effect'[v] = IF idem'[v] = NoRow THEN {} ELSE {1}
      <4>1. idem' \in [Updates -> {NoRow, 1}] /\ effect' \in [Updates -> {{}, {1}}]
        BY <1>1, <2>2, <2>4 DEF ResultsOK
      <4>2. effect'[u] = {1} /\ idem'[u] = 1 /\ 1 # NoRow
        BY <1>1, <2>2, <2>4 DEF ResultsOK, NoRow
      <4>3. \A v \in Updates : v # u => effect'[v] = effect[v] /\ idem'[v] = idem[v]
        BY <1>1, <2>2, <2>4 DEF ResultsOK
      <4>4. QED
        BY <1>1, <4>1, <4>2, <4>3 DEF ResultsOK
    <3>4. effect'[u] = {1} /\ \A v \in Updates : v # u => effect'[v] = effect[v]
      BY <1>1, <2>2, <2>4 DEF ResultsOK
    <3>5. \A v \in Updates : v # u => told'[v] = told[v]
      BY <1>1, <2>2, <2>4 DEF ResultsOK
    <3>6. \A v \in Updates : told'[v] \subseteq effect'[v]
      BY <1>1, <2>2, <3>2, <3>4, <3>5 DEF ResultsOK
    <3>7. QED
      BY <3>2, <3>3, <3>6 DEF ResultsOK
  <2>7. handler'[h] = Idle /\ \A k \in Handlers : k # h => handler'[k] = handler[k]
    BY <1>1, <2>1 DEF HandlersOK, End
  <2>8. HandlersOK'
    BY <1>1, <1>2, <2>1 DEF HandlersOK, End
  <2>9. CredentialHeld'
    BY <1>1, <1>2, <1>6, <2>7 DEF CredentialHeld
  <2>10. ScopeHeld'
    <3> SUFFICES ASSUME NEW k \in Handlers, handler'[k].phase = "scope"
                 PROVE  /\ idem'[handler'[k].request.update] = NoRow
                        /\ \A g \in Handlers :
                              /\ handler'[g].phase = "scope"
                              /\ handler'[g].request.update = handler'[k].request.update
                              => g = k
      BY DEF ScopeHeld
    <3>1. k # h /\ handler'[k] = handler[k]
      BY <1>6, <2>7
    <3>2. handler[k].request.update # u
      BY <1>1, <2>1, <3>1 DEF ScopeHeld
    <3>3. idem'[handler[k].request.update] = idem[handler[k].request.update]
      BY <1>1, <2>4, <3>2 DEF ResultsOK
    <3>4. QED
      BY <1>1, <1>6, <2>7, <3>1, <3>3 DEF ScopeHeld
  <2>11. QED
    BY <2>6, <2>8, <2>9, <2>10
<1>11. QED
  BY <1>7, <1>8, <1>9, <1>10 DEF Executes

\* Every step preserves the invariant.
LEMMA InvNext == IndInv /\ [Next]_vars => IndInv'
<1> SUFFICES ASSUME IndInv, [Next]_vars PROVE IndInv'
  OBVIOUS
<1>0. /\ RowsOK /\ RequestsOK /\ NoncesOK /\ HandlersOK /\ ResultsOK
      /\ ScopeHeld /\ CredentialHeld
  BY DEF IndInv, Types
<1>1. ASSUME NEW u \in Updates, Sign(u) PROVE IndInv'
  BY <1>1, SignKeeps
<1>2. CASE RestartBot
  <2>1. UNCHANGED <<now, requests, revoked, file, cli, botched, nonces, accepted,
                    handler, idem, effect, told, faults>>
    BY <1>2 DEF RestartBot, credentials, redis, execution
  <2>2. CliOK' /\ CliSafe' /\ InstalledIsActive' /\ Versions' = Versions
    BY <2>1, CliFrame
  <2>3. RowsOK'
    BY <1>0, <1>2, <2>1, <2>2 DEF RowsOK, RestartBot
  <2>4. /\ RequestsOK' /\ NoncesOK' /\ HandlersOK' /\ ResultsOK'
        /\ ScopeHeld' /\ CredentialHeld'
    BY <1>0, <2>1, <2>2
       DEF RequestsOK, NoncesOK, HandlersOK, ResultsOK, ScopeHeld, CredentialHeld
  <2>5. QED
    BY <2>2, <2>3, <2>4 DEF IndInv, Types
<1>3. CASE CliStep
  BY <1>3, CliKeeps
<1>4. ASSUME NEW h \in Handlers, ApiStep(h) PROVE IndInv'
  BY <1>4, AuthenticateKeeps, ExecutesKeeps DEF ApiStep
<1>5. CASE LoseRedis
  <2>1. UNCHANGED <<now, signer, requests, revoked, file, cli, botched, handler, idem, effect, told>>
    BY <1>5 DEF LoseRedis, bot, credentials, execution
  <2>2. CliOK' /\ CliSafe' /\ InstalledIsActive' /\ Versions' = Versions
    BY <2>1, CliFrame
  <2>3. RowsOK'
    BY <1>0, <1>5, <2>1, <2>2, BoundsAssumption DEF RowsOK, LoseRedis
  <2>4. NoncesOK'
    BY <1>0, <1>5, <2>1, BoundsAssumption DEF NoncesOK, LoseRedis
  <2>5. RequestsOK' /\ HandlersOK' /\ ResultsOK' /\ ScopeHeld' /\ CredentialHeld'
    BY <1>0, <2>1, <2>2 DEF RequestsOK, HandlersOK, ResultsOK, ScopeHeld, CredentialHeld
  <2>6. QED
    BY <2>2, <2>3, <2>4, <2>5 DEF IndInv, Types
<1>6. CASE Tick \/ UNCHANGED vars
  <2>1. UNCHANGED <<signer, requests, revoked, file, cli, botched, nonces, accepted,
                    handler, idem, effect, told, faults>>
    BY <1>6 DEF Tick, vars, bot, credentials, redis, execution
  <2>2. CliOK' /\ CliSafe' /\ InstalledIsActive' /\ Versions' = Versions
    BY <2>1, CliFrame
  <2>3. RowsOK'
    BY <1>0, <1>6, <2>1, <2>2, BoundsAssumption DEF RowsOK, Tick, vars
  <2>4. /\ RequestsOK' /\ NoncesOK' /\ HandlersOK' /\ ResultsOK'
        /\ ScopeHeld' /\ CredentialHeld'
    BY <1>0, <2>1, <2>2
       DEF RequestsOK, NoncesOK, HandlersOK, ResultsOK, ScopeHeld, CredentialHeld
  <2>5. QED
    BY <2>2, <2>3, <2>4 DEF IndInv, Types
<1>7. QED
  BY <1>1, <1>2, <1>3, <1>4, <1>5, <1>6 DEF Next, BotStep

\* IndInv holds in every reachable state.
THEOREM Invariance == Spec => []IndInv
<1>1. QED
  BY InvInit, InvNext, PTL DEF Spec

\* The invariant's parts give the type invariant that the run checks.
LEMMA InvTypes == IndInv => TypeOK
<1> SUFFICES ASSUME IndInv PROVE TypeOK
  OBVIOUS
<1>1. RowsOK /\ CliOK /\ RequestsOK /\ NoncesOK /\ HandlersOK /\ ResultsOK
  BY DEF IndInv, Types
<1>2. /\ cli.phase \in {"idle", "install", "compensate", "revoke"}
      /\ cli # Idle => cli.version \in Versions
  BY <1>1 DEF CliOK, Idle
<1>3. \A h \in Handlers :
          \/ handler[h] = Idle
          \/ /\ handler[h].phase \in {"authenticated", "credential", "scope"}
             /\ handler[h].request \in requests
  BY <1>1 DEF HandlersOK, Phases
<1>4. \A u \in Updates : {idem[u]} \cup told[u] \subseteq effect[u] \cup {NoRow}
  BY <1>1 DEF ResultsOK, NoRow
<1>5. QED
  BY <1>1, <1>2, <1>3, <1>4 DEF TypeOK, RowsOK, RequestsOK, NoncesOK

\* Type correctness of the bot, the credentials, Redis and the executions.
THEOREM TypeCorrect == Spec => []TypeOK
<1>1. QED
  BY Invariance, InvTypes, PTL

\* However the operator's command fails, dies or is run, the credential a
\* restarted bot reads is active, unless an installation failed and undoing
\* it failed too.
THEOREM InstalledIsActiveHolds == Spec => []InstalledIsActive
<1>1. IndInv => InstalledIsActive
  BY DEF IndInv
<1>2. QED
  BY <1>1, Invariance, PTL

-----------------------------------------------------------------------------
(* The nonce, the revocation, and the contract.                            *)

\* Only authentication makes an idle handler busy, and for a nonce that was
\* not accepted.
FreshStep ==
    \A h \in Handlers : handler[h] = Idle /\ handler'[h] # Idle
        => handler'[h].request.nonce \notin accepted

LEMMA OnlyAuthenticateStarts ==
  ASSUME IndInv, Next, NEW h \in Handlers, handler[h] = Idle, handler'[h] # Idle
  PROVE  \E r \in requests : Authenticate(h, r) /\ handler'[h].request = r
<1>1. handler \in [Handlers -> {Idle} \cup [phase : Phases, request : requests]]
  BY DEF IndInv, Types, HandlersOK
<1>2. handler' # handler
  OBVIOUS
<1>3. PICK k \in Handlers : ApiStep(k)
  BY <1>2 DEF Next, BotStep, RestartBot, Sign, CliStep, Rotate, Provision, Install, InstallFails,
              Compensate, AskRevoke, Revoke, CliDies, LoseRedis, Tick, execution
<1>4. CASE k # h
  BY <1>1, <1>3, <1>4 DEF ApiStep, Authenticate, Executes, LockCredential, LockScope, Perform,
                          RollBack, End
<1>5. CASE k = h
  <2>1. ~Executes(h) /\ ~RollBack(h)
    BY DEF Executes, LockCredential, LockScope, Perform, RollBack, Idle
  <2>2. PICK r \in requests : Authenticate(h, r)
    BY <1>3, <1>5, <2>1 DEF ApiStep
  <2>3. handler'[h].request = r
    BY <1>1, <2>2 DEF Authenticate
  <2>4. QED
    BY <2>2, <2>3
<1>6. QED
  BY <1>4, <1>5

\* A signed request is accepted once while Redis keeps its data, for any skew,
\* any drift of the bot's clock and any nonce life above twice the skew.
THEOREM NonceAcceptedOnceHolds == Spec => NonceAcceptedOnce
<1>1. IndInv /\ [Next]_vars => [FreshStep]_vars
  BY OnlyAuthenticateStarts, FreshNonce DEF FreshStep
<1>2. Spec => [][FreshStep]_vars
  BY <1>1, Invariance, PTL DEF Spec
<1>3. QED
  BY <1>2 DEF NonceAcceptedOnce, FreshStep

\* An effect is a transaction that ends with its credential not revoked.
RevokedStep ==
    effect' # effect =>
        \E h \in Handlers : /\ handler[h] # Idle /\ handler'[h] = Idle
                            /\ ~revoked[handler[h].request.version]

\* Only the commit of an operation changes an effect.
LEMMA OnlyPerformActs ==
  ASSUME Next, effect' # effect
  PROVE  \E h \in Handlers : Perform(h)
  BY DEF Next, BotStep, RestartBot, Sign, CliStep, Rotate, Provision, Install, InstallFails,
         Compensate, AskRevoke, Revoke, CliDies, LoseRedis, Tick, execution,
         ApiStep, Authenticate, Executes, LockCredential, LockScope, RollBack

\* A request of a revoked credential has no effect, wherever the revocation
\* falls between its authentication and its execution.
THEOREM NoEffectOnceRevokedHolds == Spec => NoEffectOnceRevoked
<1>1. IndInv /\ [Next]_vars => [RevokedStep]_vars
  <2> SUFFICES ASSUME IndInv, Next, effect' # effect
               PROVE  \E h \in Handlers : /\ handler[h] # Idle /\ handler'[h] = Idle
                                          /\ ~revoked[handler[h].request.version]
    BY DEF RevokedStep
  <2>1. PICK h \in Handlers : Perform(h)
    BY OnlyPerformActs
  <2>2. handler[h].phase = "scope" /\ End(h)
    BY <2>1 DEF Perform
  <2>3. handler[h] # Idle
    BY <2>2 DEF Idle
  <2>4. handler'[h] = Idle
    BY <2>2 DEF IndInv, Types, HandlersOK, End
  <2>5. ~revoked[handler[h].request.version]
    BY <2>2 DEF IndInv, CredentialHeld
  <2>6. QED
    BY <2>3, <2>4, <2>5
<1>2. Spec => [][RevokedStep]_vars
  BY <1>1, Invariance, PTL DEF Spec
<1>3. QED
  BY <1>2 DEF NoEffectOnceRevoked, RevokedStep

\* The commit of an operation is the contract's effect, and a stored result
\* answered again is the contract's reply; any other step is a stutter of it.
LEMMA ContractStep == IndInv /\ [Next]_vars => [Once!Next]_<<effect, told>>
<1> SUFFICES ASSUME IndInv, Next, ~UNCHANGED <<effect, told>>
             PROVE  Once!Next
  BY DEF vars
<1>0. RequestsOK /\ HandlersOK /\ ResultsOK /\ ScopeHeld
  BY DEF IndInv, Types
<1>1. PICK h \in Handlers : Perform(h) \/ LockScope(h)
  BY DEF Next, BotStep, RestartBot, Sign, CliStep, Rotate, Provision, Install, InstallFails,
         Compensate, AskRevoke, Revoke, CliDies, LoseRedis, Tick, execution,
         ApiStep, Authenticate, Executes, LockCredential, RollBack
<1> DEFINE r == handler[h].request
           u == r.update
<1>2. r \in requests /\ u \in Updates /\ 1 \in 1..MaxSigned
  <2>1. handler[h].phase \in {"credential", "scope"}
    BY <1>1 DEF Perform, LockScope
  <2>2. r \in requests
    BY <1>0, <2>1 DEF HandlersOK, Idle
  <2>3. QED
    BY <1>0, <2>2, BoundsAssumption DEF RequestsOK
<1>3. CASE Perform(h)
  <2>1. handler[h].phase = "scope"
    BY <1>3 DEF Perform
  <2>2. idem[u] = NoRow /\ effect[u] = {} /\ Cardinality(effect[u]) = 0
    BY <1>0, <1>2, <2>1, FS_EmptySet DEF ScopeHeld, ResultsOK
  <2>3. told[u] = {}
    BY <1>0, <1>2, <2>2 DEF ResultsOK
  <2>4. /\ effect' = [effect EXCEPT ![u] = effect[u] \cup {Cardinality(effect[u]) + 1}]
        /\ told' \in {told, [told EXCEPT ![u] = told[u] \cup {Cardinality(effect[u]) + 1}]}
    BY <1>3 DEF Perform, Answer
  <2>5. Cardinality(effect[u]) + 1 = 1 /\ effect[u] \cup {1} = {1} /\ told[u] \cup {1} = {1}
    BY <2>2, <2>3
  <2>6. effect' = [effect EXCEPT ![u] = {1}] /\ told' \in {told, [told EXCEPT ![u] = {1}]}
    BY <2>4, <2>5
  <2>7. Once!Perform(u, 1)
    BY <2>2, <2>6 DEF Once!Perform
  <2>8. QED
    BY <1>2, <2>7 DEF Once!Next
<1>4. CASE LockScope(h)
  <2>1. UNCHANGED <<idem, effect>>
    BY <1>4 DEF LockScope
  <2>2. idem[u] # NoRow /\ Answer(u, idem[u])
    BY <1>4, <2>1 DEF LockScope
  <2>3. told' \in {told, [told EXCEPT ![u] = effect[u]]}
    BY <1>0, <1>2, <2>1, <2>2, AnswerKeeps
  <2>4. Once!Reply(u)
    BY <2>1, <2>3 DEF Once!Reply
  <2>5. QED
    BY <1>2, <2>4 DEF Once!Next
<1>5. QED
  BY <1>1, <1>3, <1>4

\* BotRequest implements OnceContract: a request takes effect once and every
\* answer is that result, across redeliveries, lost answers, a Redis that
\* forgot the nonces, and the two active credentials of a rotation.
THEOREM TakesEffectOnceHolds == Spec => TakesEffectOnce
<1>1. Init => Once!Init
  BY DEF Init, Once!Init
<1>2. QED
  BY <1>1, ContractStep, Invariance, PTL DEF Spec, TakesEffectOnce, Once!Spec
=============================================================================
