------------------------------ MODULE BotLogin ------------------------------
(***************************************************************************)
(* Signing in to the cabinet through the Telegram bot.                     *)
(*                                                                         *)
(* A /start update makes the bot ask the API for an AuthChallenge; its     *)
(* link opens the mini app in a browser, which begins a PendingLogin and   *)
(* shows its code; the user sends the code to the bot, which confirms the  *)
(* pending login; the browser, polling with its pending cookie, completes  *)
(* it and receives a session.                                              *)
(*                                                                         *)
(* The two requests of the bot follow OnceContract, which BotRequest       *)
(* implements: an update takes effect at most once, all or nothing, and is *)
(* answered with that result again.  Completion is a transaction that      *)
(* locks the pending login and its challenge: one step takes the locks and *)
(* reads, another commits, and what runs in between is what the locks      *)
(* allow.  Any answer can be lost, any request repeated.                   *)
(***************************************************************************)
EXTENDS Naturals, Sequences, FiniteSets

CONSTANTS
    Users,          \* Telegram users
    Launches,       \* updates that carry /start or /cabinet
    Confirms,       \* updates that carry a confirmation code
    OwnerOf,        \* update -> the user who sent it
    Codes,          \* confirmation codes
    Browsers,       \* WebViews
    ChallengeTtl,   \* life of a challenge (120 s)
    PendingTtl,     \* life of a pending login (120 s)
    InitDataAge,    \* TELEGRAM_INIT_DATA_MAX_AGE_SECONDS
    MaxNow,         \* bound on the clock
    MaxPending      \* bound on the pending logins

Updates == Launches \cup Confirms

ASSUME UpdatesAssumption ==
    /\ Launches \cap Confirms = {}
    /\ OwnerOf \in [Updates -> Users]

ASSUME TimesAssumption ==
    /\ {ChallengeTtl, PendingTtl} \subseteq Nat \ {0}
    /\ {InitDataAge, MaxNow, MaxPending} \subseteq Nat

NoText == "none"

ASSUME CodesAssumption == NoText \notin Codes

VARIABLES
    now,
    text,           \* update -> the code it carries (confirmations)
    done,           \* update -> result of its one effect (0: none yet)
    told,           \* updates whose result the bot was answered with
    challenges,     \* AuthChallenge rows
    pendings,       \* PendingLogin rows
    sessions,       \* UserSession rows
    browser,        \* browser -> its init data and cookies
    completing      \* browser -> pending login its transaction has locked

vars == <<now, text, done, told, challenges, pendings, sessions, browser, completing>>

-----------------------------------------------------------------------------
(* Locks and checks of the transactions *)

\* Mutant: complete() reads the pending login without locking the challenge.
ChallengeFreeAlways(c) == TRUE

\* No completion in progress has locked the challenge.
ChallengeFree(c) ==
    \A b \in Browsers : completing[b] # 0 => pendings[completing[b]].challenge # c

\* Neither the pending login nor its challenge is expired or used up.
Alive(p) ==
    /\ pendings[p].expires > now
    /\ challenges[pendings[p].challenge].expires > now
    /\ ~challenges[pendings[p].challenge].consumed

\* Mutant: a code selects a pending login whoever typed it.
CandidatesOfAnyone(user, code) ==
    {p \in DOMAIN pendings : pendings[p].code = code
                             /\ pendings[p].status = "AWAITING_BOT_CONFIRM"}

\* The pending logins that a confirmation by this user with this code selects.
Candidates(user, code) ==
    {p \in DOMAIN pendings : /\ pendings[p].user = user /\ pendings[p].code = code
                             /\ pendings[p].status = "AWAITING_BOT_CONFIRM"}

-----------------------------------------------------------------------------
(* The bot's requests *)

\* The answer to an update reaches the bot or is lost.
Answer(u) == told' \in {told, told \cup {u}}

\* issue(): a challenge for the user who sent the update.
Issue(u) ==
    /\ done[u] = 0
    /\ now + ChallengeTtl <= MaxNow
    /\ challenges' = Append(challenges,
           [user |-> OwnerOf[u], expires |-> now + ChallengeTtl, consumed |-> FALSE])
    /\ done' = [done EXCEPT ![u] = Len(challenges) + 1]
    /\ Answer(u)
    /\ UNCHANGED <<now, text, pendings, sessions, browser, completing>>

\* The user sends a code to the bot: the one shown, another one, a wrong one.
Write(u, code) ==
    /\ text[u] = NoText
    /\ text' = [text EXCEPT ![u] = code]
    /\ UNCHANGED <<now, done, told, challenges, pendings, sessions, browser, completing>>

\* confirm(): the one candidate, if it is alive, once its locks are granted; a
\* request that is refused leaves nothing behind and may be sent again.
Confirm(u) ==
    /\ done[u] = 0
    /\ \E p \in Candidates(OwnerOf[u], text[u]) :
          /\ Candidates(OwnerOf[u], text[u]) = {p}
          /\ ChallengeFree(pendings[p].challenge)
          /\ Alive(p)
          /\ pendings' = [pendings EXCEPT ![p].status = "BOT_CONFIRMED", ![p].by = @ \cup {u}]
          /\ done' = [done EXCEPT ![u] = p]
    /\ Answer(u)
    /\ UNCHANGED <<now, text, challenges, sessions, browser, completing>>

\* The request is sent again and its stored result answered again.
Replay(u) ==
    /\ done[u] # 0 /\ u \notin told
    /\ told' = told \cup {u}
    /\ UNCHANGED <<now, text, done, challenges, pendings, sessions, browser, completing>>

-----------------------------------------------------------------------------
(* The browser *)

\* currentSession: the session cookie names a session that is not revoked.
SignedIn(b) == browser[b].session # 0 /\ ~sessions[browser[b].session].revoked

\* A user opens the link of a challenge; Telegram signs the init data with the
\* launch parameter, the user and the time.
Open(b, user, u) ==
    /\ browser[b].launch = 0
    /\ u \in told
    /\ browser' = [browser EXCEPT ![b].launch = done[u], ![b].user = user, ![b].authDate = now]
    /\ UNCHANGED <<now, text, done, told, challenges, pendings, sessions, completing>>

\* The init data is fresh and of the user the challenge was issued to, and the
\* challenge is unused and alive.
Beginnable(b) ==
    LET c == browser[b].launch
    IN /\ c # 0
       /\ now - browser[b].authDate <= InitDataAge
       /\ browser[b].user = challenges[c].user
       /\ ~challenges[c].consumed /\ challenges[c].expires > now

\* A code no pending login of the user ever had: a collision is retried.
FreshCode(user, code) ==
    \A p \in DOMAIN pendings : ~(pendings[p].user = user /\ pendings[p].code = code)

\* Mutant: a pending login gets its own time and may outlive its challenge.
PendingExpiresOwn(c) == now + PendingTtl

\* LEAST(challenge, now + 120 s)
PendingExpires(c) ==
    IF challenges[c].expires < now + PendingTtl THEN challenges[c].expires
                                                ELSE now + PendingTtl

\* The answer of POST /auth/telegram replaces the browser's pending cookie and
\* starts its polling, unless it is lost.
ReceivesPending(b, p) ==
    browser' \in {browser, [browser EXCEPT ![b].pending = p, ![b].waiting = TRUE]}

\* POST /auth/telegram: a fresh pending login.
Begin(b, code) ==
    LET c == browser[b].launch
    IN /\ ~SignedIn(b) /\ completing[b] = 0 /\ Len(pendings) < MaxPending
       /\ Beginnable(b)
       /\ ChallengeFree(c)
       /\ FreshCode(browser[b].user, code)
       /\ pendings' = Append(pendings,
              [challenge |-> c, user |-> browser[b].user, browser |-> b, code |-> code,
               expires |-> PendingExpires(c), status |-> "AWAITING_BOT_CONFIRM", by |-> {}])
       /\ ReceivesPending(b, Len(pendings) + 1)
       /\ UNCHANGED <<now, text, done, told, challenges, sessions, completing>>

Completable(p) == pendings[p].status = "BOT_CONFIRMED" /\ Alive(p)

\* POST /auth/telegram/complete: lock the pending login of the cookie with its
\* challenge, read both and check.
StartComplete(b) ==
    LET p == browser[b].pending
    IN /\ completing[b] = 0 /\ browser[b].waiting
       /\ ChallengeFree(pendings[p].challenge)
       /\ Completable(p)
       /\ completing' = [completing EXCEPT ![b] = p]
       /\ UNCHANGED <<now, text, done, told, challenges, pendings, sessions, browser>>

\* The answer of POST /auth/telegram/complete swaps the pending cookie for the
\* session cookie and ends the polling, unless it is lost.  An answer whose body
\* is lost after its headers counts as one or the other.
ReceivesSession(b, s) ==
    browser' \in {browser, [browser EXCEPT ![b].pending = 0, ![b].waiting = FALSE,
                                           ![b].session = s]}

\* Commit: session, pending login and challenge together.
FinishComplete(b) ==
    LET p == completing[b]
    IN /\ p # 0
       /\ sessions' = Append(sessions, [pending |-> p, revoked |-> FALSE])
       /\ pendings' = [pendings EXCEPT ![p].status = "CONSUMED"]
       /\ challenges' = [challenges EXCEPT ![pendings[p].challenge].consumed = TRUE]
       /\ ReceivesSession(b, Len(sessions) + 1)
       /\ completing' = [completing EXCEPT ![b] = 0]
       /\ UNCHANGED <<now, text, done, told>>

\* The transaction fails and rolls back; the browser polls again.
AbortComplete(b) ==
    /\ completing[b] # 0
    /\ completing' = [completing EXCEPT ![b] = 0]
    /\ UNCHANGED <<now, text, done, told, challenges, pendings, sessions, browser>>

\* Mutant: the poll loop ends only on an answer.
GivesUpNever(b) == FALSE

GivesUp(b) == pendings[browser[b].pending].expires <= now

\* The poll loop finds the pending login expired and stops.
StopWaiting(b) ==
    /\ browser[b].waiting /\ completing[b] = 0
    /\ GivesUp(b)
    /\ browser' = [browser EXCEPT ![b].waiting = FALSE]
    /\ UNCHANGED <<now, text, done, told, challenges, pendings, sessions, completing>>

\* POST /auth/logout revokes the session and clears the cookie.
Logout(b) ==
    /\ browser[b].session # 0
    /\ sessions' = [sessions EXCEPT ![browser[b].session].revoked = TRUE]
    /\ browser' = [browser EXCEPT ![b].session = 0]
    /\ UNCHANGED <<now, text, done, told, challenges, pendings, completing>>

-----------------------------------------------------------------------------
Tick ==
    /\ now < MaxNow
    /\ now' = now + 1
    /\ UNCHANGED <<text, done, told, challenges, pendings, sessions, browser, completing>>

NewBrowser ==
    [user |-> CHOOSE user \in Users : TRUE, launch |-> 0, authDate |-> 0,
     pending |-> 0, waiting |-> FALSE, session |-> 0]

Init ==
    /\ now = 0
    /\ text = [u \in Confirms |-> NoText]
    /\ done = [u \in Updates |-> 0]
    /\ told = {}
    /\ challenges = <<>> /\ pendings = <<>> /\ sessions = <<>>
    /\ browser = [b \in Browsers |-> NewBrowser]
    /\ completing = [b \in Browsers |-> 0]

BrowserStep(b) ==
    \/ \E user \in Users, u \in Launches : Open(b, user, u)
    \/ \E code \in Codes : Begin(b, code)
    \/ StartComplete(b)
    \/ FinishComplete(b)
    \/ AbortComplete(b)
    \/ StopWaiting(b)
    \/ Logout(b)

Next ==
    \/ \E u \in Launches : Issue(u)
    \/ \E u \in Confirms : Confirm(u) \/ \E code \in Codes : Write(u, code)
    \/ \E u \in Updates : Replay(u)
    \/ \E b \in Browsers : BrowserStep(b)
    \/ Tick

Spec == Init /\ [][Next]_vars

\* Time passes, a transaction ends, and the poll loop of an open page runs on,
\* which supposes that the browser ends each fetch with an answer or an error:
\* the code sets no timeout.  Nothing is promised of the users or of what is
\* answered.
FairSpec ==
    /\ Spec
    /\ WF_vars(Tick)
    /\ \A b \in Browsers : /\ WF_vars(FinishComplete(b) \/ AbortComplete(b))
                           /\ SF_vars(StopWaiting(b))

-----------------------------------------------------------------------------
(* Properties *)

\* Every variable holds what its column or cookie can hold.
TypeOK ==
    /\ now \in 0..MaxNow
    /\ text \in [Confirms -> Codes \cup {NoText}]
    /\ told \subseteq {u \in Updates : done[u] # 0}
    /\ \A u \in Launches : done[u] \in 0..Len(challenges)
    /\ \A u \in Confirms : done[u] \in 0..Len(pendings)
    /\ \A c \in DOMAIN challenges :
          challenges[c] \in [user : Users, expires : 1..MaxNow, consumed : BOOLEAN]
    /\ \A p \in DOMAIN pendings :
          pendings[p] \in [challenge : DOMAIN challenges, user : Users, browser : Browsers,
                           code : Codes, expires : 1..MaxNow, by : SUBSET Confirms,
                           status : {"AWAITING_BOT_CONFIRM", "BOT_CONFIRMED", "CONSUMED"}]
    /\ \A s \in DOMAIN sessions :
          sessions[s] \in [pending : DOMAIN pendings, revoked : BOOLEAN]
    /\ \A b \in Browsers :
          /\ browser[b].launch \in 0..Len(challenges)
          /\ browser[b].session \in 0..Len(sessions)
          /\ {browser[b].pending, completing[b]} \subseteq 0..Len(pendings)
          /\ browser[b].waiting => browser[b].pending # 0

ChallengeOf(s) == pendings[sessions[s].pending].challenge

\* A challenge yields one session, whatever browsers complete its pending
\* logins at once and whatever answers are lost: the locks of complete()
\* decide, before the unique index on telegramReplayHash would.
OneSessionPerChallenge ==
    \A s, t \in DOMAIN sessions : ChallengeOf(s) = ChallengeOf(t) => s = t

\* A session exists only for the user the challenge was issued to, after that
\* user sent the bot the code of that very pending login, and its cookie is
\* only in the browser that began it.
SessionIsOwners ==
    /\ \A s \in DOMAIN sessions :
          LET p == pendings[sessions[s].pending]
          IN /\ p.user = challenges[p.challenge].user
             /\ \E u \in p.by : OwnerOf[u] = p.user /\ text[u] = p.code
    /\ \A b \in Browsers :
          browser[b].session # 0 => pendings[sessions[browser[b].session].pending].browser = b

\* Every page that waits for its login stops waiting: it is signed in, or the
\* pending login expires, also when the answer to its completion was lost.
WaitEnds == \A b \in Browsers : browser[b].waiting ~> ~browser[b].waiting
=============================================================================
