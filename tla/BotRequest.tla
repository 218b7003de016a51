----------------------------- MODULE BotRequest -----------------------------
(***************************************************************************)
(* A signed bot request: the bot, the service credentials and the API's    *)
(* authentication and execution of it.                                     *)
(*                                                                         *)
(* The bot turns a Telegram update into a request with the update's        *)
(* idempotency key and a fresh timestamp and nonce.  The API authenticates *)
(* it (credential, timestamp, nonce in Redis) and later executes it in one *)
(* transaction that locks the credential row and then the idempotency      *)
(* scope.  The operator's command provisions, rotates and revokes          *)
(* credentials: a row in the database first, then the credential file,     *)
(* which the bot reads when it starts.                                     *)
(*                                                                         *)
(* Answers can be lost, requests delayed and delivered again; Redis can    *)
(* lose its nonces; the API and the command die between any two steps.     *)
(***************************************************************************)
EXTENDS Naturals, Sequences, FiniteSets

CONSTANTS
    Updates,        \* Telegram updates the bot turns into requests
    Handlers,       \* requests the API runs at once
    Skew,           \* tolerated clock difference (30 s)
    NonceTtl,       \* life of a reserved nonce (120 s)
    ClockDrifts,    \* how far the bot's clock may run ahead
    MaxNow,         \* bound on the clock
    MaxSigned,      \* bound on the requests the bot signs
    MaxVersion,     \* bound on the credentials
    MaxFaults       \* bound on losses of Redis and failed installations

ASSUME BoundsAssumption ==
    /\ Skew \in Nat /\ NonceTtl \in Nat /\ NonceTtl > 2 * Skew
    /\ ClockDrifts \subseteq Nat
    /\ {MaxNow, MaxSigned, MaxVersion, MaxFaults} \subseteq Nat

NoRow == 0
NoFile == 0
Idle == [phase |-> "idle"]

VARIABLES
    now,
    signer,         \* key version the bot process has loaded (0: not started)
    requests,       \* requests the bot has signed; the network keeps them
    revoked,        \* key version -> revokedAt is set
    file,           \* key version in the credential file
    cli,            \* what the operator's command is at
    botched,        \* an installation failed and so did undoing it
    nonces,         \* nonce -> when Redis forgets it
    accepted,       \* nonces accepted since Redis last lost its data
    handler,        \* handler -> its request and how far it is
    idem,           \* update -> result stored in BotRequestIdempotency
    effect,         \* update -> results its requests have left behind
    told,           \* update -> results the bot was answered with
    faults

bot == <<signer, requests>>
credentials == <<revoked, file, cli, botched>>
redis == <<nonces, accepted>>
execution == <<handler, idem, effect, told>>
vars == <<now, signer, requests, revoked, file, cli, botched, nonces, accepted,
          handler, idem, effect, told, faults>>

Versions == DOMAIN revoked
Active == {v \in Versions : ~revoked[v]}

\* assertCredentialPath(): the file is there, with the owner and mode it needs.
Installed == file # NoFile

-----------------------------------------------------------------------------
(* The bot *)

\* The bot handles an update, or handles it again when Telegram delivers it
\* again: the idempotency key and the body are the update's, timestamp and
\* nonce are fresh.
Sign(u) ==
    /\ signer # NoFile
    /\ Cardinality(requests) < MaxSigned
    /\ \E drift \in ClockDrifts :
          requests' = requests \cup
              {[update |-> u, version |-> signer, at |-> now + drift,
                nonce |-> Cardinality(requests) + 1]}
    /\ UNCHANGED <<now, signer, credentials, redis, execution, faults>>

\* The bot process starts again and reads the credential file.
RestartBot ==
    /\ file \notin {NoFile, signer}
    /\ signer' = file
    /\ UNCHANGED <<now, requests, credentials, redis, execution, faults>>

-----------------------------------------------------------------------------
(* The operator's credential command: one at a time *)

\* Mutant: the credential is read without locking its row.
RowFreeUnlocked(v) == TRUE

\* What the row lock of an executing request lets a credential update do.
RowFree(v) ==
    \A h \in Handlers : handler[h].phase \in {"credential", "scope"}
                            => handler[h].request.version # v

\* rotate: the file must exist and hold an active credential, and there must
\* be exactly one; the new row gets the next key version.
Rotate ==
    /\ cli = Idle /\ Len(revoked) < MaxVersion
    /\ Installed /\ file \in Active
    /\ Cardinality(Active) = 1
    /\ revoked' = Append(revoked, FALSE)
    /\ cli' = [phase |-> "install", version |-> Len(revoked) + 1, old |-> file]
    /\ UNCHANGED <<now, bot, file, botched, redis, execution, faults>>

\* provision: no file and no active credential.
Provision ==
    /\ cli = Idle /\ Len(revoked) < MaxVersion
    /\ ~Installed
    /\ Active = {}
    /\ revoked' = Append(revoked, FALSE)
    /\ cli' = [phase |-> "install", version |-> Len(revoked) + 1, old |-> NoFile]
    /\ UNCHANGED <<now, bot, file, botched, redis, execution, faults>>

\* The new file replaces the old one by an atomic rename.
Install ==
    /\ cli.phase = "install"
    /\ file' = cli.version
    /\ cli' = Idle
    /\ UNCHANGED <<now, bot, revoked, botched, redis, execution, faults>>

\* The installation fails: the old file is still or again there, or putting it
\* back failed as well.
InstallFails ==
    /\ cli.phase = "install" /\ faults < MaxFaults
    /\ faults' = faults + 1
    /\ cli' = [cli EXCEPT !.phase = "compensate"]
    /\ \/ file' = cli.old /\ UNCHANGED botched
       \/ file' = cli.version /\ botched' = TRUE
    /\ UNCHANGED <<now, bot, revoked, redis, execution>>

\* The compensation revokes the credential just made.
Compensate ==
    /\ cli.phase = "compensate"
    /\ RowFree(cli.version)
    /\ revoked' = [revoked EXCEPT ![cli.version] = TRUE]
    /\ cli' = Idle
    /\ UNCHANGED <<now, bot, file, botched, redis, execution, faults>>

\* Mutant: the installed credential is not protected.
RevocableAny(v, protected) == TRUE

\* revoke: the credential in the file is read before the operator confirms.
AskRevoke(v) ==
    /\ cli = Idle
    /\ Installed
    /\ cli' = [phase |-> "revoke", version |-> v, protected |-> file]
    /\ UNCHANGED <<now, bot, revoked, file, botched, redis, execution, faults>>

Revocable(v, protected) == v # protected

Revoke ==
    /\ cli.phase = "revoke"
    /\ cli' = Idle
    /\ IF Revocable(cli.version, cli.protected)
          THEN /\ RowFree(cli.version)
               /\ revoked' = [revoked EXCEPT ![cli.version] = TRUE]
          ELSE UNCHANGED revoked
    /\ UNCHANGED <<now, bot, file, botched, redis, execution, faults>>

\* The command dies between two of its steps.
CliDies ==
    /\ cli # Idle
    /\ cli' = Idle
    /\ UNCHANGED <<now, bot, revoked, file, botched, redis, execution, faults>>

-----------------------------------------------------------------------------
(* Authentication *)

InWindow(at) == at <= now + Skew /\ now <= at + Skew

\* Mutant: the nonce lives only as long as the tolerated clock difference.
ReserveShort(n) == nonces' = [nonces EXCEPT ![n] = now + Skew]

Reserved(n) == nonces[n] > now

Reserve(n) == nonces' = [nonces EXCEPT ![n] = now + NonceTtl]

\* Any other outcome (unknown or revoked credential, stale timestamp, used
\* nonce, Redis not answering) is an error answer and changes nothing.
Authenticate(h, r) ==
    /\ handler[h] = Idle
    /\ ~revoked[r.version]
    /\ InWindow(r.at)
    /\ ~Reserved(r.nonce)
    /\ Reserve(r.nonce)
    /\ accepted' = accepted \cup {r.nonce}
    /\ handler' = [handler EXCEPT ![h] = [phase |-> "authenticated", request |-> r]]
    /\ UNCHANGED <<now, bot, credentials, idem, effect, told, faults>>

LoseRedis ==
    /\ faults < MaxFaults
    /\ faults' = faults + 1
    /\ nonces' = [n \in DOMAIN nonces |-> 0]
    /\ accepted' = {}
    /\ UNCHANGED <<now, bot, credentials, execution>>

-----------------------------------------------------------------------------
(* Execution: one transaction per authenticated request *)

End(h) == handler' = [handler EXCEPT ![h] = Idle]

\* Mutant: an answer is remembered for the wrong result.
AnswerNext(u, x) == told' \in {told, [told EXCEPT ![u] = @ \cup {x + 1}]}

\* The answer reaches the bot or is lost.
Answer(u, x) == told' \in {told, [told EXCEPT ![u] = @ \cup {x}]}

\* SELECT ... FOR UPDATE of the credential, which must still be active.
Revalidated(r) == ~revoked[r.version]

LockCredential(h) ==
    /\ handler[h].phase = "authenticated"
    /\ RowFree(handler[h].request.version)
    /\ IF Revalidated(handler[h].request)
          THEN handler' = [handler EXCEPT ![h].phase = "credential"]
          ELSE End(h)
    /\ UNCHANGED <<now, bot, credentials, redis, idem, effect, told, faults>>

\* Mutant: the lock is keyed by the credential instead of its principal.
ScopeFreePerCredential(r) ==
    \A h \in Handlers : handler[h].phase = "scope"
        => <<handler[h].request.update, handler[h].request.version>> # <<r.update, r.version>>

\* pg_advisory_xact_lock on the scope: principal, path, user and key, that is
\* the update; the credential is not part of it.
ScopeFree(r) ==
    \A h \in Handlers : handler[h].phase = "scope" => handler[h].request.update # r.update

\* A stored result is answered again; otherwise the operation will run.
LockScope(h) ==
    /\ handler[h].phase = "credential"
    /\ ScopeFree(handler[h].request)
    /\ LET u == handler[h].request.update
       IN IF idem[u] # NoRow
             THEN Answer(u, idem[u]) /\ End(h)
             ELSE /\ handler' = [handler EXCEPT ![h].phase = "scope"]
                  /\ UNCHANGED told
    /\ UNCHANGED <<now, bot, credentials, redis, idem, effect, faults>>

\* The operation runs and commits with the stored result.
Perform(h) ==
    LET u == handler[h].request.update
        x == Cardinality(effect[u]) + 1
    IN /\ handler[h].phase = "scope"
       /\ effect' = [effect EXCEPT ![u] = @ \cup {x}]
       /\ idem' = [idem EXCEPT ![u] = x]
       /\ Answer(u, x)
       /\ End(h)
       /\ UNCHANGED <<now, bot, credentials, redis, faults>>

\* The operation throws, the transaction times out or the API dies: all of it
\* rolls back, the row of the request too.
RollBack(h) ==
    /\ handler[h] # Idle
    /\ End(h)
    /\ UNCHANGED <<now, bot, credentials, redis, idem, effect, told, faults>>

-----------------------------------------------------------------------------
Tick ==
    /\ now < MaxNow
    /\ now' = now + 1
    /\ UNCHANGED <<bot, credentials, redis, execution, faults>>

\* Nothing is provisioned yet.
Init ==
    /\ now = 0 /\ faults = 0
    /\ signer = NoFile /\ requests = {}
    /\ revoked = <<>> /\ file = NoFile /\ cli = Idle /\ botched = FALSE
    /\ nonces = [n \in 1..MaxSigned |-> 0] /\ accepted = {}
    /\ handler = [h \in Handlers |-> Idle]
    /\ idem = [u \in Updates |-> NoRow]
    /\ effect = [u \in Updates |-> {}]
    /\ told = [u \in Updates |-> {}]

CliStep ==
    \/ Rotate \/ Provision \/ Install \/ InstallFails \/ Compensate
    \/ \E v \in Versions : AskRevoke(v)
    \/ Revoke \/ CliDies

Executes(h) == LockCredential(h) \/ LockScope(h) \/ Perform(h)

BotStep == RestartBot \/ \E u \in Updates : Sign(u)

ApiStep(h) == (\E r \in requests : Authenticate(h, r)) \/ Executes(h) \/ RollBack(h)

Next ==
    \/ BotStep
    \/ CliStep
    \/ \E h \in Handlers : ApiStep(h)
    \/ LoseRedis
    \/ Tick

Spec == Init /\ [][Next]_vars

-----------------------------------------------------------------------------
(* Properties *)

\* Every variable holds what its column, key or file can hold.
TypeOK ==
    /\ now \in 0..MaxNow /\ faults \in 0..MaxFaults
    /\ revoked \in Seq(BOOLEAN) /\ Len(revoked) \in 0..MaxVersion
    /\ {signer, file} \subseteq Versions \cup {NoFile} /\ botched \in BOOLEAN
    /\ cli.phase \in {"idle", "install", "compensate", "revoke"}
    /\ cli # Idle => cli.version \in Versions
    /\ requests \subseteq [update : Updates, version : Versions, at : Nat, nonce : 1..MaxSigned]
    /\ nonces \in [1..MaxSigned -> 0..(MaxNow + NonceTtl)]
    /\ accepted \subseteq 1..MaxSigned
    /\ \A h \in Handlers :
          \/ handler[h] = Idle
          \/ /\ handler[h].phase \in {"authenticated", "credential", "scope"}
             /\ handler[h].request \in requests
    /\ \A u \in Updates : {idem[u]} \cup told[u] \subseteq effect[u] \cup {NoRow}

\* Neither a rotation that dies or fails half way nor a revocation takes away
\* the credential a restarted bot would sign with, unless the failed
\* installation could not be undone either.
InstalledIsActive == Installed /\ ~botched => file \in Active

Once == INSTANCE OnceContract WITH Results <- 1..MaxSigned

\* A bot request takes effect once and every answer is that one result: across
\* redeliveries, lost answers, a Redis that forgot the nonce, and the two
\* active credentials of a rotation.
TakesEffectOnce == Once!Spec

\* A signed request is never accepted twice while Redis keeps its data: the
\* reservation outlives the timestamp window on both sides.
NonceAcceptedOnce ==
    [][\A h \in Handlers :
          handler[h] = Idle /\ handler'[h] # Idle
              => handler'[h].request.nonce \notin accepted]_vars

\* A request signed with a revoked credential has no effect, even when it was
\* authenticated before the revocation: execute() checks again under the row
\* lock the revocation waits for.
NoEffectOnceRevoked ==
    [][effect' # effect =>
          \E h \in Handlers : /\ handler[h] # Idle /\ handler'[h] = Idle
                              /\ ~revoked[handler[h].request.version]]_vars
=============================================================================
