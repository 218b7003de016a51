--------------------------- MODULE BotLoginProofs ---------------------------
(***************************************************************************)
(* Proofs about BotLogin, for any users, updates, codes and browsers, any  *)
(* life of challenges and pending logins, and any number of them.          *)
(***************************************************************************)
EXTENDS BotLogin, SequenceTheorems, TLAPS

-----------------------------------------------------------------------------
(* The inductive invariant, in named parts.                                *)

PendingStatus == {"AWAITING_BOT_CONFIRM", "BOT_CONFIRMED", "CONSUMED"}

ChallengeRow == [user : Users, expires : 1..MaxNow, consumed : BOOLEAN]

PendingRow == [challenge : Nat, user : Users, browser : Browsers, code : Codes,
               expires : 1..MaxNow, by : SUBSET Confirms, status : PendingStatus]

SessionRow == [pending : Nat, revoked : BOOLEAN]

BrowserState == [user : Users \cup {NewBrowser.user}, launch : Nat, authDate : Nat,
                 pending : Nat, waiting : BOOLEAN, session : Nat]

\* The updates and what the bot knows of them.
UpdatesOK ==
    /\ now \in 0..MaxNow
    /\ text \in [Confirms -> Codes \cup {NoText}]
    /\ done \in [Updates -> Nat]
    /\ told \subseteq {u \in Updates : done[u] # 0}
    /\ \A u \in Launches : done[u] \in 0..Len(challenges)
    /\ \A u \in Confirms : done[u] \in 0..Len(pendings)

\* The tables, whose rows refer to rows that exist.
TablesOK ==
    /\ challenges \in Seq(ChallengeRow)
    /\ pendings \in Seq(PendingRow)
    /\ sessions \in Seq(SessionRow)
    /\ \A p \in DOMAIN pendings : pendings[p].challenge \in DOMAIN challenges
    /\ \A s \in DOMAIN sessions : sessions[s].pending \in DOMAIN pendings

\* The browsers, whose cookies and transactions refer to rows that exist.
BrowsersOK ==
    /\ browser \in [Browsers -> BrowserState]
    /\ completing \in [Browsers -> Nat]
    /\ \A b \in Browsers :
          /\ browser[b].launch \in 0..Len(challenges)
          /\ browser[b].session \in 0..Len(sessions)
          /\ browser[b].pending \in 0..Len(pendings)
          /\ completing[b] \in 0..Len(pendings)
          /\ browser[b].waiting => browser[b].pending # 0

\* The user p belongs to has sent the bot the code of p.
SentItsCode(p) == \E u \in pendings[p].by : OwnerOf[u] = pendings[p].user /\ text[u] = pendings[p].code

\* A pending login is its challenge's user's, and is past the confirmation
\* only after that user sent its code.
PendingsHeld ==
    \A p \in DOMAIN pendings :
        /\ pendings[p].user = challenges[pendings[p].challenge].user
        /\ pendings[p].status # "AWAITING_BOT_CONFIRM" => SentItsCode(p)

\* A session's pending login is used up, and so is its challenge.
SessionsHeld ==
    \A s \in DOMAIN sessions :
        /\ pendings[sessions[s].pending].status = "CONSUMED"
        /\ challenges[ChallengeOf(s)].consumed

\* The cookies of a browser are those of pending logins it began.
CookiesHeld ==
    \A b \in Browsers :
        /\ browser[b].pending # 0 => pendings[browser[b].pending].browser = b
        /\ browser[b].session # 0 => pendings[sessions[browser[b].session].pending].browser = b

\* A completion in progress works on a confirmed pending login of its browser,
\* its challenge is unused, and no other completion has that challenge.
LocksHeld ==
    \A b \in Browsers : completing[b] # 0 =>
        /\ pendings[completing[b]].status = "BOT_CONFIRMED"
        /\ pendings[completing[b]].browser = b
        /\ ~challenges[pendings[completing[b]].challenge].consumed
        /\ \A k \in Browsers :
              /\ completing[k] # 0
              /\ pendings[completing[k]].challenge = pendings[completing[b]].challenge
              => k = b

Types == UpdatesOK /\ TablesOK /\ BrowsersOK

Held == PendingsHeld /\ SessionsHeld /\ CookiesHeld /\ LocksHeld

IndInv == Types /\ Held /\ OneSessionPerChallenge

-----------------------------------------------------------------------------
(* The rows of a table after an insertion and after an update.             *)

\* An insertion keeps the rows there were and adds one at the end.
LEMMA Inserted ==
  ASSUME NEW S, NEW q \in Seq(S), NEW x \in S
  PROVE  /\ Append(q, x) \in Seq(S)
         /\ Len(q) \in Nat /\ Len(Append(q, x)) = Len(q) + 1
         /\ DOMAIN q = 1..Len(q) /\ DOMAIN Append(q, x) = 1..(Len(q) + 1)
         /\ Append(q, x)[Len(q) + 1] = x
         /\ \A i \in DOMAIN q : Append(q, x)[i] = q[i]
<1>1. Append(q, x) \in Seq(S) /\ Len(q) \in Nat /\ Len(Append(q, x)) = Len(q) + 1
  OBVIOUS
<1>2. DOMAIN q = 1..Len(q) /\ DOMAIN Append(q, x) = 1..(Len(q) + 1)
  BY <1>1
<1>3. Append(q, x)[Len(q) + 1] = x /\ \A i \in 1..Len(q) : Append(q, x)[i] = q[i]
  BY <1>1
<1>4. QED
  BY <1>1, <1>2, <1>3

\* An update keeps the other rows.
LEMMA Updated ==
  ASSUME NEW S, NEW q \in Seq(S), NEW i \in DOMAIN q, NEW x \in S
  PROVE  /\ [q EXCEPT ![i] = x] \in Seq(S)
         /\ Len([q EXCEPT ![i] = x]) = Len(q) /\ Len(q) \in Nat
         /\ DOMAIN q = 1..Len(q) /\ DOMAIN [q EXCEPT ![i] = x] = DOMAIN q
         /\ [q EXCEPT ![i] = x][i] = x
         /\ \A j \in DOMAIN q : j # i => [q EXCEPT ![i] = x][j] = q[j]
  OBVIOUS

\* Rows have domains that start at 1.
LEMMA Domains ==
  ASSUME TablesOK
  PROVE  /\ Len(challenges) \in Nat /\ DOMAIN challenges = 1..Len(challenges)
         /\ Len(pendings) \in Nat /\ DOMAIN pendings = 1..Len(pendings)
         /\ Len(sessions) \in Nat /\ DOMAIN sessions = 1..Len(sessions)
  BY DEF TablesOK

-----------------------------------------------------------------------------
(* The inductive invariant holds initially and is preserved.               *)

\* Empty tables, no cookies.
LEMMA InvInit == Init => IndInv
<1> SUFFICES ASSUME Init PROVE IndInv
  OBVIOUS
<1> USE TimesAssumption, UpdatesAssumption DEF Init
<1>1. DOMAIN challenges = {} /\ DOMAIN pendings = {} /\ DOMAIN sessions = {}
  OBVIOUS
<1>2. TablesOK
  BY <1>1 DEF TablesOK
<1>3. UpdatesOK
  BY DEF UpdatesOK, Updates
<1>4. BrowsersOK
  <2>1. NewBrowser \in BrowserState
    BY DEF NewBrowser, BrowserState
  <2>2. /\ NewBrowser.launch = 0 /\ NewBrowser.session = 0 /\ NewBrowser.pending = 0
        /\ ~NewBrowser.waiting
    BY DEF NewBrowser
  <2>3. Len(challenges) = 0 /\ Len(pendings) = 0 /\ Len(sessions) = 0
    OBVIOUS
  <2>4. QED
    BY <2>1, <2>2, <2>3 DEF BrowsersOK
<1>5. PendingsHeld /\ SessionsHeld /\ OneSessionPerChallenge
  BY <1>1 DEF PendingsHeld, SessionsHeld, OneSessionPerChallenge
<1>6. CookiesHeld /\ LocksHeld
  BY DEF CookiesHeld, LocksHeld, NewBrowser
<1>7. QED
  BY <1>2, <1>3, <1>4, <1>5, <1>6 DEF IndInv, Types, Held

\* A new challenge refers to nothing and nothing refers to it.
LEMMA IssueKeeps == ASSUME IndInv, NEW u \in Launches, Issue(u) PROVE IndInv'
<1> USE DEF IndInv, Types, Held
<1> DEFINE row == [user |-> OwnerOf[u], expires |-> now + ChallengeTtl, consumed |-> FALSE]
<1>1. /\ challenges' = Append(challenges, row)
      /\ done' = [done EXCEPT ![u] = Len(challenges) + 1]
      /\ told' \in {told, told \cup {u}}
      /\ UNCHANGED <<now, text, pendings, sessions, browser, completing>>
  BY DEF Issue, Answer
<1>2. row \in ChallengeRow
  BY UpdatesAssumption, TimesAssumption DEF Issue, ChallengeRow, UpdatesOK, Updates
<1> HIDE DEF row
<1>3. /\ challenges' \in Seq(ChallengeRow)
      /\ Len(challenges) \in Nat /\ Len(challenges') = Len(challenges) + 1
      /\ DOMAIN challenges = 1..Len(challenges) /\ DOMAIN challenges' = 1..(Len(challenges) + 1)
      /\ \A c \in DOMAIN challenges : challenges'[c] = challenges[c]
  BY <1>1, <1>2, Inserted DEF TablesOK
<1>4. UpdatesOK'
  <2>1. u \in Updates /\ u \notin Confirms
    BY UpdatesAssumption DEF Updates
  <2>2. done' \in [Updates -> Nat] /\ done'[u] # 0 /\ \A v \in Updates : v # u => done'[v] = done[v]
    BY <1>1, <1>3, <2>1 DEF UpdatesOK
  <2>3. told' \subseteq {v \in Updates : done'[v] # 0}
    BY <1>1, <2>1, <2>2 DEF UpdatesOK
  <2>4. \A v \in Launches : done'[v] \in 0..Len(challenges')
    BY <1>1, <1>3, <2>1, <2>2 DEF UpdatesOK, Updates
  <2>5. \A v \in Confirms : done'[v] \in 0..Len(pendings')
    BY <1>1, <2>1, <2>2 DEF UpdatesOK, Updates
  <2>6. QED
    BY <1>1, <2>2, <2>3, <2>4, <2>5 DEF UpdatesOK
<1>5. TablesOK'
  BY <1>1, <1>3 DEF TablesOK
<1>6. BrowsersOK'
  BY <1>1, <1>3 DEF BrowsersOK
<1>7. PendingsHeld'
  BY <1>1, <1>3 DEF PendingsHeld, TablesOK, SentItsCode
<1>8. SessionsHeld' /\ OneSessionPerChallenge'
  BY <1>1, <1>3 DEF SessionsHeld, OneSessionPerChallenge, TablesOK, ChallengeOf
<1>9. CookiesHeld'
  BY <1>1 DEF CookiesHeld
<1>10. LocksHeld'
  BY <1>1, <1>3, Domains DEF LocksHeld, TablesOK, BrowsersOK
<1>11. QED
  BY <1>4, <1>5, <1>6, <1>7, <1>8, <1>9, <1>10

\* The parts that depend only on the tables, the browsers and the locks.
LEMMA TablesFrame ==
  ASSUME IndInv, UNCHANGED <<challenges, pendings, sessions, browser, completing>>
  PROVE  /\ TablesOK' /\ BrowsersOK' /\ SessionsHeld' /\ CookiesHeld' /\ LocksHeld'
         /\ OneSessionPerChallenge'
  BY DEF IndInv, Types, Held, TablesOK, BrowsersOK, SessionsHeld, CookiesHeld, LocksHeld,
         OneSessionPerChallenge, ChallengeOf

\* A user writes once: no code that confirmed a pending login changes.
LEMMA WriteKeeps ==
  ASSUME IndInv, NEW u \in Confirms, NEW code \in Codes, Write(u, code)
  PROVE  IndInv'
<1>1. /\ text[u] = NoText /\ text' = [text EXCEPT ![u] = code]
      /\ UNCHANGED <<now, done, told, challenges, pendings, sessions, browser, completing>>
  BY DEF Write
<1>2. UpdatesOK'
  BY <1>1 DEF IndInv, Types, UpdatesOK
<1>3. PendingsHeld'
  <2> SUFFICES ASSUME NEW p \in DOMAIN pendings, pendings[p].status # "AWAITING_BOT_CONFIRM"
               PROVE  SentItsCode(p)'
    BY <1>1 DEF PendingsHeld, IndInv, Held
  <2>1. PICK v \in pendings[p].by : OwnerOf[v] = pendings[p].user /\ text[v] = pendings[p].code
    BY DEF IndInv, Held, PendingsHeld, SentItsCode
  <2>2. pendings[p] \in PendingRow
    BY DEF IndInv, Types, TablesOK
  <2>3. v \in Confirms /\ text[v] # NoText
    BY <2>1, <2>2, CodesAssumption DEF PendingRow
  <2>4. text'[v] = text[v]
    BY <1>1, <2>3 DEF IndInv, Types, UpdatesOK
  <2>5. QED
    BY <1>1, <2>1, <2>4 DEF SentItsCode
<1>4. QED
  BY <1>1, <1>2, <1>3, TablesFrame DEF IndInv, Types, Held

\* Answering again and the passing of time.
LEMMA ReplayTickKeeps ==
  ASSUME IndInv, (\E u \in Updates : Replay(u)) \/ Tick \/ UNCHANGED vars
  PROVE  IndInv'
<1>1. UNCHANGED <<text, done, challenges, pendings, sessions, browser, completing>>
  BY DEF Replay, Tick, vars
<1>2. UpdatesOK'
  BY <1>1, TimesAssumption DEF IndInv, Types, UpdatesOK, Replay, Tick, vars
<1>3. PendingsHeld'
  BY <1>1 DEF IndInv, Held, PendingsHeld, SentItsCode
<1>4. QED
  BY <1>1, <1>2, <1>3, TablesFrame DEF IndInv, Types, Held

\* A confirmation changes one awaiting pending login of the sender, whose code
\* the sender wrote.
LEMMA ConfirmKeeps == ASSUME IndInv, NEW u \in Confirms, Confirm(u) PROVE IndInv'
<1> USE DEF IndInv, Types, Held
<1>1. PICK p \in Candidates(OwnerOf[u], text[u]) :
          /\ pendings' = [pendings EXCEPT ![p].status = "BOT_CONFIRMED", ![p].by = @ \cup {u}]
          /\ done' = [done EXCEPT ![u] = p]
  BY DEF Confirm
<1>2. told' \in {told, told \cup {u}} /\ UNCHANGED <<now, text, challenges, sessions, browser, completing>>
  BY DEF Confirm, Answer
<1>3. /\ p \in DOMAIN pendings /\ pendings[p].user = OwnerOf[u] /\ pendings[p].code = text[u]
      /\ pendings[p].status = "AWAITING_BOT_CONFIRM" /\ pendings[p] \in PendingRow
  BY DEF Candidates, TablesOK
<1> DEFINE row == [pendings[p] EXCEPT !.status = "BOT_CONFIRMED", !.by = pendings[p].by \cup {u}]
<1>4. pendings' = [pendings EXCEPT ![p] = row]
  BY <1>1, <1>3 DEF TablesOK, PendingRow
<1>5. /\ row \in PendingRow /\ row.status = "BOT_CONFIRMED" /\ row.by = pendings[p].by \cup {u}
      /\ row.challenge = pendings[p].challenge /\ row.user = pendings[p].user
      /\ row.browser = pendings[p].browser /\ row.code = pendings[p].code
  BY <1>3 DEF PendingRow, PendingStatus
<1> HIDE DEF row
<1>6. /\ pendings' \in Seq(PendingRow) /\ Len(pendings') = Len(pendings) /\ Len(pendings) \in Nat
      /\ DOMAIN pendings = 1..Len(pendings) /\ DOMAIN pendings' = DOMAIN pendings
      /\ pendings'[p] = row /\ \A q \in DOMAIN pendings : q # p => pendings'[q] = pendings[q]
  BY <1>3, <1>4, <1>5, Updated DEF TablesOK
<1>7. \A q \in DOMAIN pendings : /\ pendings'[q].challenge = pendings[q].challenge
                                 /\ pendings'[q].user = pendings[q].user
                                 /\ pendings'[q].browser = pendings[q].browser
                                 /\ pendings'[q].code = pendings[q].code
                                 /\ pendings[q].status # "AWAITING_BOT_CONFIRM"
                                        => pendings'[q] = pendings[q]
  BY <1>3, <1>5, <1>6
<1>8. UpdatesOK'
  <2>1. u \in Updates /\ u \notin Launches
    BY UpdatesAssumption DEF Updates
  <2>2. done' \in [Updates -> Nat] /\ done'[u] = p /\ p # 0
        /\ \A v \in Updates : v # u => done'[v] = done[v]
    BY <1>1, <1>3, <1>6, <2>1 DEF UpdatesOK
  <2>3. told' \subseteq {v \in Updates : done'[v] # 0}
    BY <1>2, <2>1, <2>2 DEF UpdatesOK
  <2>4. \A v \in Launches : done'[v] \in 0..Len(challenges')
    BY <1>2, <2>1, <2>2 DEF UpdatesOK, Updates
  <2>5. \A v \in Confirms : done'[v] \in 0..Len(pendings')
    BY <1>3, <1>6, <2>1, <2>2 DEF UpdatesOK, Updates
  <2>6. QED
    BY <1>2, <2>2, <2>3, <2>4, <2>5 DEF UpdatesOK
<1>9. TablesOK' /\ BrowsersOK'
  BY <1>2, <1>6, <1>7 DEF TablesOK, BrowsersOK
<1>10. PendingsHeld'
  <2> SUFFICES ASSUME NEW q \in DOMAIN pendings
               PROVE  /\ pendings'[q].user = challenges'[pendings'[q].challenge].user
                      /\ pendings'[q].status # "AWAITING_BOT_CONFIRM" => SentItsCode(q)'
    BY <1>6 DEF PendingsHeld
  <2>1. CASE q = p
    BY <1>2, <1>3, <1>5, <1>6, <2>1 DEF PendingsHeld, SentItsCode
  <2>2. CASE q # p
    BY <1>2, <1>6, <2>2 DEF PendingsHeld, SentItsCode
  <2>3. QED
    BY <2>1, <2>2
<1>11. SessionsHeld' /\ OneSessionPerChallenge'
  <2>1. \A t \in DOMAIN sessions : sessions[t].pending \in DOMAIN pendings
    BY DEF TablesOK
  <2>2. \A t \in DOMAIN sessions : ChallengeOf(t)' = ChallengeOf(t)
    BY <1>2, <1>7, <2>1 DEF ChallengeOf
  <2>3. SessionsHeld'
    BY <1>2, <1>7, <2>1, <2>2 DEF SessionsHeld
  <2>4. OneSessionPerChallenge'
    BY <1>2, <2>2 DEF OneSessionPerChallenge
  <2>5. QED
    BY <2>3, <2>4
<1>12. CookiesHeld'
  <2>1. ASSUME NEW b \in Browsers, browser[b].pending # 0 PROVE browser[b].pending \in DOMAIN pendings
    BY <1>6, <2>1 DEF BrowsersOK
  <2>2. ASSUME NEW b \in Browsers, browser[b].session # 0
        PROVE  sessions[browser[b].session].pending \in DOMAIN pendings
    BY <2>2, Domains DEF BrowsersOK, TablesOK
  <2>3. QED
    BY <1>2, <1>7, <2>1, <2>2 DEF CookiesHeld
<1>13. LocksHeld'
  <2>1. ASSUME NEW b \in Browsers, completing[b] # 0
        PROVE  completing[b] \in DOMAIN pendings /\ pendings'[completing[b]] = pendings[completing[b]]
    <3>1. completing[b] \in DOMAIN pendings
      BY <1>6, <2>1 DEF BrowsersOK
    <3>2. pendings[completing[b]].status = "BOT_CONFIRMED"
      BY <2>1 DEF LocksHeld
    <3>3. QED
      BY <1>7, <3>1, <3>2
  <2>2. QED
    BY <1>2, <2>1 DEF LocksHeld
<1>14. QED
  BY <1>8, <1>9, <1>10, <1>11, <1>12, <1>13

\* The parts that do not depend on the browsers and the locks.
LEMMA BrowserFrame ==
  ASSUME IndInv, UNCHANGED <<now, text, done, told, challenges, pendings, sessions>>
  PROVE  UpdatesOK' /\ TablesOK' /\ PendingsHeld' /\ SessionsHeld' /\ OneSessionPerChallenge'
  BY DEF IndInv, Types, Held, UpdatesOK, TablesOK, PendingsHeld, SessionsHeld,
         OneSessionPerChallenge, ChallengeOf, SentItsCode

\* Opening a link sets the init data, never a cookie.
LEMMA OpenKeeps ==
  ASSUME IndInv, NEW b \in Browsers, NEW user \in Users, NEW u \in Launches, Open(b, user, u)
  PROVE  IndInv'
<1>1. /\ browser' = [browser EXCEPT ![b].launch = done[u], ![b].user = user, ![b].authDate = now]
      /\ UNCHANGED <<now, text, done, told, challenges, pendings, sessions, completing>>
  BY DEF Open
<1>2. UpdatesOK' /\ TablesOK' /\ PendingsHeld' /\ SessionsHeld' /\ OneSessionPerChallenge'
  BY <1>1, BrowserFrame
<1>3. UpdatesOK /\ BrowsersOK /\ CookiesHeld /\ LocksHeld
  BY DEF IndInv, Types, Held
<1>4. browser[b] \in BrowserState
  BY <1>3 DEF BrowsersOK
<1> DEFINE row == [browser[b] EXCEPT !.launch = done[u], !.user = user, !.authDate = now]
<1>5. browser' = [browser EXCEPT ![b] = row]
  BY <1>1, <1>3, <1>4 DEF BrowsersOK, BrowserState
<1>6. /\ row \in BrowserState /\ row.launch \in 0..Len(challenges)
      /\ row.pending = browser[b].pending /\ row.session = browser[b].session
      /\ row.waiting = browser[b].waiting
  <2>1. now \in Nat /\ done[u] \in 0..Len(challenges) /\ done[u] \in Nat
    BY <1>3, TimesAssumption DEF UpdatesOK, Updates
  <2>2. row \in BrowserState
    BY <1>4, <2>1 DEF BrowserState
  <2>3. /\ row.launch = done[u]
        /\ row.pending = browser[b].pending /\ row.session = browser[b].session
        /\ row.waiting = browser[b].waiting
    BY <1>4 DEF BrowserState
  <2>4. QED
    BY <2>1, <2>2, <2>3
<1> HIDE DEF row
<1>7. BrowsersOK' /\ CookiesHeld' /\ LocksHeld'
  <2>1. browser'[b] = row /\ \A k \in Browsers : k # b => browser'[k] = browser[k]
    BY <1>3, <1>5 DEF BrowsersOK
  <2>2. BrowsersOK'
    <3>1. browser' \in [Browsers -> BrowserState]
      BY <1>3, <1>5, <1>6 DEF BrowsersOK
    <3>2. QED
      BY <1>1, <1>3, <1>6, <2>1, <3>1 DEF BrowsersOK
  <2>3. CookiesHeld'
    BY <1>1, <1>3, <1>6, <2>1 DEF CookiesHeld
  <2>4. LocksHeld'
    BY <1>1, <1>3 DEF LocksHeld
  <2>5. QED
    BY <2>2, <2>3, <2>4
<1>8. QED
  BY <1>2, <1>7 DEF IndInv, Types, Held

\* The poll loop stops, whatever its cookies are.
LEMMA StopWaitingKeeps == ASSUME IndInv, NEW b \in Browsers, StopWaiting(b) PROVE IndInv'
<1>1. /\ browser' = [browser EXCEPT ![b].waiting = FALSE]
      /\ UNCHANGED <<now, text, done, told, challenges, pendings, sessions, completing>>
  BY DEF StopWaiting
<1>2. UpdatesOK' /\ TablesOK' /\ PendingsHeld' /\ SessionsHeld' /\ OneSessionPerChallenge'
  BY <1>1, BrowserFrame
<1>3. BrowsersOK /\ CookiesHeld /\ LocksHeld
  BY DEF IndInv, Types, Held
<1>4. /\ browser'[b] = [browser[b] EXCEPT !.waiting = FALSE]
      /\ \A k \in Browsers : k # b => browser'[k] = browser[k]
      /\ browser[b] \in BrowserState
  BY <1>1, <1>3 DEF BrowsersOK
<1>5. /\ browser'[b].launch = browser[b].launch /\ browser'[b].pending = browser[b].pending
      /\ browser'[b].session = browser[b].session /\ ~browser'[b].waiting
      /\ browser'[b] \in BrowserState
  BY <1>4 DEF BrowserState
<1>6. browser' \in [Browsers -> BrowserState]
  BY <1>1, <1>3, <1>4, <1>5 DEF BrowsersOK
<1>7. BrowsersOK'
  BY <1>1, <1>3, <1>4, <1>5, <1>6 DEF BrowsersOK
<1>8. CookiesHeld' /\ LocksHeld'
  BY <1>1, <1>3, <1>4, <1>5 DEF CookiesHeld, LocksHeld
<1>9. QED
  BY <1>2, <1>7, <1>8 DEF IndInv, Types, Held

\* The locks of a completion: its challenge was free, alive and confirmed.
LEMMA StartCompleteKeeps == ASSUME IndInv, NEW b \in Browsers, StartComplete(b) PROVE IndInv'
<1> DEFINE p == browser[b].pending
<1>1. /\ completing' = [completing EXCEPT ![b] = p] /\ browser[b].waiting
      /\ ChallengeFree(pendings[p].challenge)
      /\ pendings[p].status = "BOT_CONFIRMED"
      /\ ~challenges[pendings[p].challenge].consumed
      /\ UNCHANGED <<now, text, done, told, challenges, pendings, sessions, browser>>
  BY DEF StartComplete, Completable, Alive
<1>2. UpdatesOK' /\ TablesOK' /\ PendingsHeld' /\ SessionsHeld' /\ OneSessionPerChallenge'
  BY <1>1, BrowserFrame
<1>3. BrowsersOK /\ CookiesHeld /\ LocksHeld
  BY DEF IndInv, Types, Held
<1>4. p # 0 /\ p \in 0..Len(pendings) /\ p \in Nat /\ pendings[p].browser = b
  BY <1>1, <1>3 DEF BrowsersOK, CookiesHeld, BrowserState
<1>5. completing'[b] = p /\ \A k \in Browsers : k # b => completing'[k] = completing[k]
  BY <1>1, <1>3 DEF BrowsersOK
<1>6. BrowsersOK'
  BY <1>1, <1>3, <1>4, <1>5 DEF BrowsersOK
<1>7. CookiesHeld'
  BY <1>1, <1>3 DEF CookiesHeld
<1>8. \A k \in Browsers : k # b /\ completing'[k] # 0
        => pendings[completing'[k]].challenge # pendings[p].challenge
  BY <1>1, <1>5 DEF ChallengeFree
<1>9. LocksHeld'
  <2> SUFFICES ASSUME NEW k \in Browsers, completing'[k] # 0
               PROVE  /\ pendings[completing'[k]].status = "BOT_CONFIRMED"
                      /\ pendings[completing'[k]].browser = k
                      /\ ~challenges[pendings[completing'[k]].challenge].consumed
                      /\ \A g \in Browsers :
                            /\ completing'[g] # 0
                            /\ pendings[completing'[g]].challenge = pendings[completing'[k]].challenge
                            => g = k
    BY <1>1 DEF LocksHeld
  <2>1. CASE k = b
    BY <1>1, <1>4, <1>5, <1>8, <2>1
  <2>2. CASE k # b
    BY <1>3, <1>5, <1>8, <2>2 DEF LocksHeld
  <2>3. QED
    BY <2>1, <2>2
<1>10. QED
  BY <1>2, <1>6, <1>7, <1>9 DEF IndInv, Types, Held

\* A roll back gives up its locks.
LEMMA AbortCompleteKeeps == ASSUME IndInv, NEW b \in Browsers, AbortComplete(b) PROVE IndInv'
<1>1. /\ completing' = [completing EXCEPT ![b] = 0]
      /\ UNCHANGED <<now, text, done, told, challenges, pendings, sessions, browser>>
  BY DEF AbortComplete
<1>2. UpdatesOK' /\ TablesOK' /\ PendingsHeld' /\ SessionsHeld' /\ OneSessionPerChallenge'
  BY <1>1, BrowserFrame
<1>3. BrowsersOK /\ CookiesHeld /\ LocksHeld
  BY DEF IndInv, Types, Held
<1>4. completing'[b] = 0 /\ \A k \in Browsers : k # b => completing'[k] = completing[k]
  BY <1>1, <1>3 DEF BrowsersOK
<1>5. BrowsersOK' /\ CookiesHeld'
  BY <1>1, <1>3, <1>4, Domains DEF BrowsersOK, CookiesHeld, IndInv, Types
<1>6. LocksHeld'
  BY <1>1, <1>3, <1>4 DEF LocksHeld
<1>7. QED
  BY <1>2, <1>5, <1>6 DEF IndInv, Types, Held

\* A logout revokes the session and clears its cookie: no other row moves.
LEMMA LogoutKeeps == ASSUME IndInv, NEW b \in Browsers, Logout(b) PROVE IndInv'
<1>1. /\ browser[b].session # 0
      /\ sessions' = [sessions EXCEPT ![browser[b].session].revoked = TRUE]
      /\ browser' = [browser EXCEPT ![b].session = 0]
      /\ UNCHANGED <<now, text, done, told, challenges, pendings, completing>>
  BY DEF Logout
<1>2. UpdatesOK /\ TablesOK /\ BrowsersOK /\ PendingsHeld /\ SessionsHeld /\ CookiesHeld
      /\ LocksHeld /\ OneSessionPerChallenge
  BY DEF IndInv, Types, Held
<1> DEFINE s == browser[b].session
           row == [sessions[s] EXCEPT !.revoked = TRUE]
<1>3. s \in DOMAIN sessions /\ sessions[s] \in SessionRow
  BY <1>1, <1>2, Domains DEF BrowsersOK, TablesOK
<1>4. row \in SessionRow /\ row.pending = sessions[s].pending
  BY <1>3 DEF SessionRow
<1>5. /\ sessions' \in Seq(SessionRow) /\ Len(sessions') = Len(sessions)
      /\ DOMAIN sessions' = DOMAIN sessions
      /\ \A t \in DOMAIN sessions : sessions'[t].pending = sessions[t].pending
  <2>1. sessions' = [sessions EXCEPT ![s] = row]
    BY <1>1
  <2> HIDE DEF row, s
  <2>2. QED
    BY <1>2, <1>3, <1>4, <2>1, Updated DEF TablesOK
<1>6. /\ browser'[b] = [browser[b] EXCEPT !.session = 0]
      /\ \A k \in Browsers : k # b => browser'[k] = browser[k]
      /\ browser[b] \in BrowserState
  BY <1>1, <1>2 DEF BrowsersOK
<1>7. /\ browser'[b].launch = browser[b].launch /\ browser'[b].pending = browser[b].pending
      /\ browser'[b].session = 0 /\ browser'[b].waiting = browser[b].waiting
      /\ browser'[b] \in BrowserState
  BY <1>6 DEF BrowserState
<1>8. UpdatesOK' /\ TablesOK' /\ PendingsHeld' /\ LocksHeld'
  BY <1>1, <1>2, <1>5 DEF UpdatesOK, TablesOK, PendingsHeld, LocksHeld, SentItsCode
<1>9. browser' \in [Browsers -> BrowserState]
  BY <1>1, <1>2, <1>6, <1>7 DEF BrowsersOK
<1>10. BrowsersOK'
  BY <1>1, <1>2, <1>5, <1>6, <1>7, <1>9, Domains DEF BrowsersOK
<1>11. SessionsHeld' /\ OneSessionPerChallenge'
  <2>1. \A t \in DOMAIN sessions : ChallengeOf(t)' = ChallengeOf(t)
    BY <1>1, <1>5 DEF ChallengeOf
  <2>2. SessionsHeld'
    BY <1>1, <1>2, <1>5, <2>1 DEF SessionsHeld
  <2>3. OneSessionPerChallenge'
    BY <1>2, <1>5, <2>1 DEF OneSessionPerChallenge
  <2>4. QED
    BY <2>2, <2>3
<1>12. CookiesHeld'
  BY <1>1, <1>2, <1>5, <1>6, <1>7, Domains DEF CookiesHeld, BrowsersOK
<1>13. QED
  BY <1>8, <1>10, <1>11, <1>12 DEF IndInv, Types, Held

\* A fresh pending login belongs to the user of its challenge and awaits the
\* confirmation; only its browser may get its cookie.
LEMMA BeginKeeps == ASSUME IndInv, NEW b \in Browsers, NEW code \in Codes, Begin(b, code) PROVE IndInv'
<1> DEFINE c == browser[b].launch
           row == [challenge |-> c, user |-> browser[b].user, browser |-> b, code |-> code,
                   expires |-> PendingExpires(c), status |-> "AWAITING_BOT_CONFIRM", by |-> {}]
           n == Len(pendings) + 1
<1>1. /\ pendings' = Append(pendings, row)
      /\ browser' \in {browser, [browser EXCEPT ![b].pending = n, ![b].waiting = TRUE]}
      /\ c # 0 /\ browser[b].user = challenges[c].user
      /\ UNCHANGED <<now, text, done, told, challenges, sessions, completing>>
  BY DEF Begin, Beginnable, ReceivesPending
<1>2. UpdatesOK /\ TablesOK /\ BrowsersOK /\ PendingsHeld /\ SessionsHeld /\ CookiesHeld
      /\ LocksHeld /\ OneSessionPerChallenge
  BY DEF IndInv, Types, Held
<1>3. c \in DOMAIN challenges /\ challenges[c] \in ChallengeRow
  BY <1>1, <1>2, Domains DEF BrowsersOK, TablesOK
<1>4. row \in PendingRow
  <2>1. PendingExpires(c) \in 1..MaxNow
    BY <1>2, <1>3, TimesAssumption DEF PendingExpires, ChallengeRow, UpdatesOK
  <2>2. browser[b].user \in Users /\ c \in Nat
    BY <1>1, <1>2, <1>3, Domains DEF ChallengeRow
  <2>3. QED
    BY <2>1, <2>2 DEF PendingRow, PendingStatus
<1>5. /\ row.challenge = c /\ row.user = browser[b].user /\ row.browser = b
      /\ row.status = "AWAITING_BOT_CONFIRM"
  OBVIOUS
<1> HIDE DEF row
<1>6. /\ pendings' \in Seq(PendingRow)
      /\ Len(pendings) \in Nat /\ Len(pendings') = Len(pendings) + 1
      /\ DOMAIN pendings = 1..Len(pendings) /\ DOMAIN pendings' = 1..(Len(pendings) + 1)
      /\ pendings'[Len(pendings) + 1] = row
      /\ \A p \in DOMAIN pendings : pendings'[p] = pendings[p]
  BY <1>1, <1>2, <1>4, Inserted DEF TablesOK
<1>7. UpdatesOK'
  BY <1>1, <1>2, <1>6 DEF UpdatesOK
<1>8. TablesOK'
  BY <1>1, <1>2, <1>3, <1>5, <1>6 DEF TablesOK
<1>9. PendingsHeld'
  <2> SUFFICES ASSUME NEW p \in DOMAIN pendings'
               PROVE  /\ pendings'[p].user = challenges'[pendings'[p].challenge].user
                      /\ pendings'[p].status # "AWAITING_BOT_CONFIRM" => SentItsCode(p)'
    BY DEF PendingsHeld
  <2>1. CASE p = n
    BY <1>1, <1>5, <1>6, <2>1
  <2>2. CASE p # n
    <3>1. p \in DOMAIN pendings /\ pendings'[p] = pendings[p]
      BY <1>6, <2>2
    <3>2. QED
      BY <1>1, <1>2, <3>1 DEF PendingsHeld, SentItsCode
  <2>3. QED
    BY <2>1, <2>2
<1>10. SessionsHeld' /\ OneSessionPerChallenge'
  BY <1>1, <1>2, <1>6 DEF SessionsHeld, OneSessionPerChallenge, ChallengeOf, TablesOK
<1>11. /\ \A k \in Browsers : k # b => browser'[k] = browser[k]
       /\ browser[b] \in BrowserState
       /\ \/ browser'[b] = browser[b]
          \/ browser'[b] = [browser[b] EXCEPT !.pending = n, !.waiting = TRUE]
  BY <1>1, <1>2 DEF BrowsersOK
<1>12. /\ browser'[b].launch = browser[b].launch /\ browser'[b].session = browser[b].session
       /\ browser'[b] \in BrowserState
       /\ \/ browser'[b].pending = browser[b].pending /\ browser'[b].waiting = browser[b].waiting
          \/ browser'[b].pending = n
  <2>1. CASE browser'[b] = browser[b]
    BY <1>11, <2>1
  <2>2. CASE browser'[b] = [browser[b] EXCEPT !.pending = n, !.waiting = TRUE]
    <3>1. n \in Nat
      BY <1>6
    <3> HIDE DEF n
    <3>2. QED
      BY <1>11, <2>2, <3>1 DEF BrowserState
  <2>3. QED
    BY <1>11, <2>1, <2>2
<1>13. browser' \in [Browsers -> BrowserState]
  BY <1>1, <1>2, <1>11, <1>12 DEF BrowsersOK
<1>14. BrowsersOK'
  <2>1. completing' \in [Browsers -> Nat]
    BY <1>1, <1>2 DEF BrowsersOK
  <2>2. ASSUME NEW k \in Browsers
        PROVE  /\ browser'[k].launch \in 0..Len(challenges')
               /\ browser'[k].session \in 0..Len(sessions')
               /\ browser'[k].pending \in 0..Len(pendings')
               /\ completing'[k] \in 0..Len(pendings')
               /\ browser'[k].waiting => browser'[k].pending # 0
    <3>1. browser'[k].launch = browser[k].launch /\ browser'[k].session = browser[k].session
      BY <1>11, <1>12
    <3>2. completing'[k] \in 0..Len(pendings')
      BY <1>1, <1>2, <1>6 DEF BrowsersOK
    <3>3. CASE browser'[k].pending = browser[k].pending /\ browser'[k].waiting = browser[k].waiting
      BY <1>1, <1>2, <1>6, <3>1, <3>2, <3>3 DEF BrowsersOK
    <3>4. CASE browser'[k].pending = n
      BY <1>1, <1>2, <1>6, <3>1, <3>2, <3>4 DEF BrowsersOK
    <3>5. QED
      BY <1>11, <1>12, <3>3, <3>4
  <2>3. QED
    BY <1>13, <2>1, <2>2 DEF BrowsersOK
<1>15. CookiesHeld'
  <2> SUFFICES ASSUME NEW k \in Browsers
               PROVE  /\ browser'[k].pending # 0 => pendings'[browser'[k].pending].browser = k
                      /\ browser'[k].session # 0
                            => pendings'[sessions'[browser'[k].session].pending].browser = k
    BY DEF CookiesHeld
  <2>1. browser'[k].session = browser[k].session
    BY <1>11, <1>12
  <2>2. browser[k].session # 0 => sessions[browser[k].session].pending \in DOMAIN pendings
    BY <1>2, Domains DEF BrowsersOK, TablesOK
  <2>3. browser[k].pending # 0 => browser[k].pending \in DOMAIN pendings
    BY <1>2, <1>6 DEF BrowsersOK
  <2>4. browser'[k].session # 0 => pendings'[sessions'[browser'[k].session].pending].browser = k
    BY <1>1, <1>2, <1>6, <2>1, <2>2 DEF CookiesHeld
  <2>5. browser'[k].pending # 0 => pendings'[browser'[k].pending].browser = k
    BY <1>2, <1>5, <1>6, <1>11, <1>12, <2>3 DEF CookiesHeld
  <2>6. QED
    BY <2>4, <2>5
<1>16. LocksHeld'
  <2>1. ASSUME NEW k \in Browsers, completing[k] # 0
        PROVE  completing[k] \in DOMAIN pendings /\ pendings'[completing[k]] = pendings[completing[k]]
    BY <1>2, <1>6, <2>1 DEF BrowsersOK
  <2>2. QED
    BY <1>1, <1>2, <2>1 DEF LocksHeld
<1>17. QED
  BY <1>7, <1>8, <1>9, <1>10, <1>14, <1>15, <1>16 DEF IndInv, Types, Held

\* The commit of a completion: its challenge had no session, and no other
\* completion holds that challenge.
LEMMA FinishCompleteKeeps == ASSUME IndInv, NEW b \in Browsers, FinishComplete(b) PROVE IndInv'
<1> DEFINE p == completing[b]
           c == pendings[p].challenge
           n == Len(sessions) + 1
<1>1. /\ p # 0
      /\ sessions' = Append(sessions, [pending |-> p, revoked |-> FALSE])
      /\ pendings' = [pendings EXCEPT ![p].status = "CONSUMED"]
      /\ challenges' = [challenges EXCEPT ![c].consumed = TRUE]
      /\ browser' \in {browser, [browser EXCEPT ![b].pending = 0, ![b].waiting = FALSE,
                                               ![b].session = n]}
      /\ completing' = [completing EXCEPT ![b] = 0]
      /\ UNCHANGED <<now, text, done, told>>
  BY DEF FinishComplete, ReceivesSession
<1>2. UpdatesOK /\ TablesOK /\ BrowsersOK /\ PendingsHeld /\ SessionsHeld /\ CookiesHeld
      /\ LocksHeld /\ OneSessionPerChallenge
  BY DEF IndInv, Types, Held
<1>3. p \in DOMAIN pendings /\ pendings[p] \in PendingRow /\ p \in Nat
  BY <1>1, <1>2, Domains DEF BrowsersOK, TablesOK
<1>4. c \in DOMAIN challenges /\ challenges[c] \in ChallengeRow
  BY <1>2, <1>3 DEF TablesOK
<1>5. pendings[p].status = "BOT_CONFIRMED" /\ pendings[p].browser = b /\ ~challenges[c].consumed
  BY <1>1, <1>2 DEF LocksHeld
\* the tables after the step
<1>6. /\ sessions' \in Seq(SessionRow) /\ Len(sessions) \in Nat /\ Len(sessions') = n
      /\ DOMAIN sessions = 1..Len(sessions) /\ DOMAIN sessions' = 1..n
      /\ sessions'[n].pending = p
      /\ \A t \in DOMAIN sessions : sessions'[t] = sessions[t]
  <2> DEFINE row == [pending |-> p, revoked |-> FALSE]
  <2>1. row \in SessionRow /\ row.pending = p
    BY <1>3 DEF SessionRow
  <2> HIDE DEF row
  <2>2. sessions' = Append(sessions, row)
    BY <1>1 DEF row
  <2>3. QED
    BY <1>2, <2>1, <2>2, Inserted DEF TablesOK
<1>7. /\ pendings' \in Seq(PendingRow) /\ Len(pendings') = Len(pendings) /\ Len(pendings) \in Nat
      /\ DOMAIN pendings = 1..Len(pendings) /\ DOMAIN pendings' = DOMAIN pendings
      /\ pendings'[p].status = "CONSUMED"
      /\ \A q \in DOMAIN pendings : q # p => pendings'[q] = pendings[q]
      /\ \A q \in DOMAIN pendings : /\ pendings'[q].challenge = pendings[q].challenge
                                    /\ pendings'[q].user = pendings[q].user
                                    /\ pendings'[q].browser = pendings[q].browser
                                    /\ pendings'[q].code = pendings[q].code
                                    /\ pendings'[q].by = pendings[q].by
  <2> DEFINE row == [pendings[p] EXCEPT !.status = "CONSUMED"]
  <2>1. /\ row \in PendingRow /\ row.status = "CONSUMED" /\ row.by = pendings[p].by
        /\ row.challenge = pendings[p].challenge /\ row.user = pendings[p].user
        /\ row.browser = pendings[p].browser /\ row.code = pendings[p].code
    BY <1>3 DEF PendingRow, PendingStatus
  <2>2. pendings' = [pendings EXCEPT ![p] = row]
    BY <1>1
  <2> HIDE DEF row, p
  <2>3. /\ pendings' \in Seq(PendingRow) /\ Len(pendings') = Len(pendings) /\ Len(pendings) \in Nat
        /\ DOMAIN pendings = 1..Len(pendings) /\ DOMAIN pendings' = DOMAIN pendings
        /\ pendings'[p] = row
        /\ \A q \in DOMAIN pendings : q # p => pendings'[q] = pendings[q]
    BY <1>2, <1>3, <2>1, <2>2, Updated DEF TablesOK
  <2>4. QED
    BY <2>1, <2>3
<1>8. /\ challenges' \in Seq(ChallengeRow) /\ Len(challenges') = Len(challenges)
      /\ DOMAIN challenges' = DOMAIN challenges
      /\ challenges'[c].consumed
      /\ \A d \in DOMAIN challenges : d # c => challenges'[d] = challenges[d]
      /\ \A d \in DOMAIN challenges : /\ challenges'[d].user = challenges[d].user
                                      /\ challenges[d].consumed => challenges'[d].consumed
  <2> DEFINE row == [challenges[c] EXCEPT !.consumed = TRUE]
  <2>1. row \in ChallengeRow /\ row.consumed /\ row.user = challenges[c].user
    BY <1>4 DEF ChallengeRow
  <2>2. challenges' = [challenges EXCEPT ![c] = row]
    BY <1>1
  <2> HIDE DEF row, c
  <2>3. /\ challenges' \in Seq(ChallengeRow) /\ Len(challenges') = Len(challenges)
        /\ DOMAIN challenges' = DOMAIN challenges
        /\ challenges'[c] = row
        /\ \A d \in DOMAIN challenges : d # c => challenges'[d] = challenges[d]
    BY <1>2, <1>4, <2>1, <2>2, Updated DEF TablesOK
  <2>4. QED
    BY <2>1, <2>3
\* the browser and the locks after the step
<1>9. /\ \A k \in Browsers : k # b => browser'[k] = browser[k] /\ completing'[k] = completing[k]
      /\ completing'[b] = 0 /\ completing' \in [Browsers -> Nat]
      /\ browser[b] \in BrowserState
      /\ \/ browser'[b] = browser[b]
         \/ browser'[b] = [browser[b] EXCEPT !.pending = 0, !.waiting = FALSE, !.session = n]
  BY <1>1, <1>2 DEF BrowsersOK
<1>10. /\ browser'[b] \in BrowserState /\ browser'[b].launch = browser[b].launch
       /\ \/ browser'[b] = browser[b]
          \/ browser'[b].pending = 0 /\ ~browser'[b].waiting /\ browser'[b].session = n
  <2>1. CASE browser'[b] = browser[b]
    BY <1>9, <2>1
  <2>2. CASE browser'[b] = [browser[b] EXCEPT !.pending = 0, !.waiting = FALSE, !.session = n]
    <3>1. n \in Nat
      BY <1>6
    <3> HIDE DEF n
    <3>2. QED
      BY <1>9, <2>2, <3>1 DEF BrowserState
  <2>3. QED
    BY <1>9, <2>1, <2>2
<1> HIDE DEF n, p, c
<1>11. UpdatesOK'
  BY <1>1, <1>2, <1>7, <1>8 DEF UpdatesOK
<1>12. \A t \in DOMAIN sessions' : \/ t = n /\ sessions'[t].pending = p
                                   \/ t \in DOMAIN sessions /\ sessions'[t] = sessions[t]
  BY <1>6 DEF n
<1>13. TablesOK'
  <2>1. \A t \in DOMAIN sessions' : sessions'[t].pending \in DOMAIN pendings'
    BY <1>2, <1>3, <1>7, <1>12 DEF TablesOK
  <2>2. \A q \in DOMAIN pendings' : pendings'[q].challenge \in DOMAIN challenges'
    BY <1>2, <1>7, <1>8 DEF TablesOK
  <2>3. QED
    BY <1>6, <1>7, <1>8, <2>1, <2>2 DEF TablesOK
<1>14. BrowsersOK'
  <2>1. browser' \in [Browsers -> BrowserState]
    BY <1>1, <1>2, <1>9, <1>10 DEF BrowsersOK
  <2>2. ASSUME NEW k \in Browsers
        PROVE  /\ browser'[k].launch \in 0..Len(challenges')
               /\ browser'[k].session \in 0..Len(sessions')
               /\ browser'[k].pending \in 0..Len(pendings')
               /\ completing'[k] \in 0..Len(pendings')
               /\ browser'[k].waiting => browser'[k].pending # 0
    <3>0. completing'[k] \in 0..Len(pendings')
      BY <1>2, <1>7, <1>9 DEF BrowsersOK
    <3>1. CASE browser'[k] = browser[k]
      <4>1. Len(sessions') = Len(sessions) + 1
        BY <1>6 DEF n
      <4>2. QED
        BY <1>2, <1>6, <1>7, <1>8, <3>0, <3>1, <4>1 DEF BrowsersOK
    <3>2. CASE browser'[k] # browser[k]
      BY <1>2, <1>6, <1>7, <1>8, <1>9, <1>10, <3>2 DEF BrowsersOK, n
    <3>3. QED
      BY <3>1, <3>2
  <2>3. QED
    BY <1>9, <2>1, <2>2 DEF BrowsersOK
<1>15. PendingsHeld'
  <2> SUFFICES ASSUME NEW q \in DOMAIN pendings
               PROVE  /\ pendings'[q].user = challenges'[pendings'[q].challenge].user
                      /\ pendings'[q].status # "AWAITING_BOT_CONFIRM" => SentItsCode(q)'
    BY <1>7 DEF PendingsHeld
  <2>1. pendings[q].challenge \in DOMAIN challenges
    BY <1>2 DEF TablesOK
  <2>2. pendings'[q].user = challenges'[pendings'[q].challenge].user
    BY <1>2, <1>7, <1>8, <2>1 DEF PendingsHeld
  <2>3. pendings'[q].status # "AWAITING_BOT_CONFIRM" => pendings[q].status # "AWAITING_BOT_CONFIRM"
    BY <1>5, <1>7
  <2>4. SentItsCode(q)' <=> SentItsCode(q)
    BY <1>1, <1>7 DEF SentItsCode
  <2>5. QED
    BY <1>2, <2>2, <2>3, <2>4 DEF PendingsHeld
<1>16. \A t \in DOMAIN sessions : ChallengeOf(t)' = ChallengeOf(t) /\ ChallengeOf(t) \in DOMAIN challenges
  BY <1>2, <1>6, <1>7 DEF ChallengeOf, TablesOK
<1>17. \A t \in DOMAIN sessions' : t = n => ChallengeOf(t)' = c
  BY <1>3, <1>6, <1>7 DEF ChallengeOf, c
<1>18. SessionsHeld'
  <2> SUFFICES ASSUME NEW t \in DOMAIN sessions'
               PROVE  /\ pendings'[sessions'[t].pending].status = "CONSUMED"
                      /\ challenges'[ChallengeOf(t)'].consumed
    BY DEF SessionsHeld
  <2>1. CASE t = n
    BY <1>6, <1>7, <1>8, <1>17, <2>1
  <2>2. CASE t # n
    <3>1. t \in DOMAIN sessions /\ sessions'[t] = sessions[t] /\ sessions[t].pending \in DOMAIN pendings
      BY <1>2, <1>12, <2>2 DEF TablesOK
    <3>2. pendings'[sessions[t].pending].status = "CONSUMED"
      BY <1>2, <1>7, <3>1 DEF SessionsHeld
    <3>3. QED
      BY <1>2, <1>8, <1>16, <3>1, <3>2 DEF SessionsHeld
  <2>3. QED
    BY <2>1, <2>2
<1>19. OneSessionPerChallenge'
  <2>1. \A t \in DOMAIN sessions : ChallengeOf(t) # c
    BY <1>2, <1>5 DEF SessionsHeld, c
  <2> SUFFICES ASSUME NEW t \in DOMAIN sessions', NEW r \in DOMAIN sessions',
                      ChallengeOf(t)' = ChallengeOf(r)'
               PROVE  t = r
    BY DEF OneSessionPerChallenge
  <2>2. t # n /\ r # n => t = r
    BY <1>2, <1>12, <1>16 DEF OneSessionPerChallenge
  <2>3. t = n \/ r = n => t = n /\ r = n
    BY <1>12, <1>16, <1>17, <2>1
  <2>4. QED
    BY <2>2, <2>3
<1>20. CookiesHeld'
  <2> SUFFICES ASSUME NEW k \in Browsers
               PROVE  /\ browser'[k].pending # 0 => pendings'[browser'[k].pending].browser = k
                      /\ browser'[k].session # 0
                            => pendings'[sessions'[browser'[k].session].pending].browser = k
    BY DEF CookiesHeld
  <2>1. CASE browser'[k] = browser[k]
    <3>1. browser[k].pending # 0 => browser[k].pending \in DOMAIN pendings
      BY <1>2, <1>7 DEF BrowsersOK
    <3>2. browser[k].session # 0 => browser[k].session \in DOMAIN sessions
      BY <1>2, <1>6 DEF BrowsersOK
    <3>3. browser[k].session # 0 => sessions[browser[k].session].pending \in DOMAIN pendings
      BY <1>2, <3>2 DEF TablesOK
    <3>4. QED
      BY <1>2, <1>6, <1>7, <2>1, <3>1, <3>2, <3>3 DEF CookiesHeld
  <2>2. CASE browser'[k] # browser[k]
    <3>1. k = b /\ browser'[k].pending = 0 /\ browser'[k].session = n
      BY <1>9, <1>10, <2>2
    <3>2. QED
      BY <1>3, <1>5, <1>6, <1>7, <3>1
  <2>3. QED
    BY <2>1, <2>2
<1>21. LocksHeld'
  <2>1. ASSUME NEW k \in Browsers, completing'[k] # 0
        PROVE  /\ k # b /\ completing[k] # 0 /\ completing'[k] = completing[k]
               /\ completing[k] \in DOMAIN pendings
               /\ pendings'[completing[k]] = pendings[completing[k]]
               /\ pendings[completing[k]].challenge \in DOMAIN challenges
               /\ challenges'[pendings[completing[k]].challenge] = challenges[pendings[completing[k]].challenge]
    <3>1. k # b /\ completing[k] # 0 /\ completing'[k] = completing[k]
      BY <1>9, <2>1
    <3>2. completing[k] \in DOMAIN pendings /\ pendings[completing[k]].challenge \in DOMAIN challenges
      BY <1>2, <1>7, <3>1 DEF BrowsersOK, TablesOK
    <3>3. pendings[completing[k]].challenge # c
      BY <1>1, <1>2, <3>1 DEF LocksHeld, c, p
    <3>4. completing[k] # p
      BY <3>3 DEF c
    <3>5. QED
      BY <1>7, <1>8, <3>1, <3>2, <3>3, <3>4
  <2>2. QED
    BY <1>2, <2>1 DEF LocksHeld
<1>22. QED
  BY <1>11, <1>13, <1>14, <1>15, <1>18, <1>19, <1>20, <1>21 DEF IndInv, Types, Held

\* Every step preserves the invariant.
LEMMA InvNext == IndInv /\ [Next]_vars => IndInv'
<1> SUFFICES ASSUME IndInv, [Next]_vars PROVE IndInv'
  OBVIOUS
<1>1. ASSUME NEW b \in Browsers, BrowserStep(b) PROVE IndInv'
  BY <1>1, OpenKeeps, BeginKeeps, StartCompleteKeeps, FinishCompleteKeeps, AbortCompleteKeeps,
     StopWaitingKeeps, LogoutKeeps DEF BrowserStep
<1>2. QED
  BY <1>1, IssueKeeps, ConfirmKeeps, WriteKeeps, ReplayTickKeeps DEF Next

\* IndInv holds in every reachable state.
THEOREM Invariance == Spec => []IndInv
<1>1. QED
  BY InvInit, InvNext, PTL DEF Spec

\* Type correctness: every reference in a row or a cookie is to a row.
THEOREM TypeCorrect == Spec => []TypeOK
<1>1. IndInv => TypeOK
  <2> SUFFICES ASSUME UpdatesOK, TablesOK, BrowsersOK PROVE TypeOK
    BY DEF IndInv, Types
  <2>1. \A c \in DOMAIN challenges :
            challenges[c] \in [user : Users, expires : 1..MaxNow, consumed : BOOLEAN]
    <3>1. \A c \in DOMAIN challenges : challenges[c] \in ChallengeRow
      BY DEF TablesOK
    <3>2. QED
      BY <3>1 DEF ChallengeRow
  <2>2. \A p \in DOMAIN pendings :
            pendings[p] \in [challenge : DOMAIN challenges, user : Users, browser : Browsers,
                             code : Codes, expires : 1..MaxNow, by : SUBSET Confirms,
                             status : {"AWAITING_BOT_CONFIRM", "BOT_CONFIRMED", "CONSUMED"}]
    <3> TAKE p \in DOMAIN pendings
    <3>1. pendings[p] \in PendingRow /\ pendings[p].challenge \in DOMAIN challenges
      BY DEF TablesOK
    <3>2. QED
      BY <3>1 DEF PendingRow, PendingStatus
  <2>3. \A s \in DOMAIN sessions : sessions[s] \in [pending : DOMAIN pendings, revoked : BOOLEAN]
    <3> TAKE s \in DOMAIN sessions
    <3>1. sessions[s] \in SessionRow /\ sessions[s].pending \in DOMAIN pendings
      BY DEF TablesOK
    <3>2. QED
      BY <3>1 DEF SessionRow
  <2>4. \A b \in Browsers :
            /\ browser[b].launch \in 0..Len(challenges)
            /\ browser[b].session \in 0..Len(sessions)
            /\ {browser[b].pending, completing[b]} \subseteq 0..Len(pendings)
            /\ browser[b].waiting => browser[b].pending # 0
    BY DEF BrowsersOK
  <2>5. /\ now \in 0..MaxNow /\ text \in [Confirms -> Codes \cup {NoText}]
        /\ told \subseteq {u \in Updates : done[u] # 0}
        /\ \A u \in Launches : done[u] \in 0..Len(challenges)
        /\ \A u \in Confirms : done[u] \in 0..Len(pendings)
    BY DEF UpdatesOK
  <2>6. QED
    BY <2>1, <2>2, <2>3, <2>4, <2>5, Zenon DEF TypeOK
<1>2. QED
  BY <1>1, Invariance, PTL

\* A challenge yields one session, whatever browsers complete its pending
\* logins at once.
THEOREM OneSessionPerChallengeHolds == Spec => []OneSessionPerChallenge
<1>1. IndInv => OneSessionPerChallenge
  BY DEF IndInv
<1>2. QED
  BY <1>1, Invariance, PTL

\* A session is of the user its challenge was issued to, who sent the bot the
\* code of its pending login, and its cookie is in the browser that began it.
THEOREM SessionIsOwnersHolds == Spec => []SessionIsOwners
<1>1. IndInv => SessionIsOwners
  <2> SUFFICES ASSUME TablesOK, PendingsHeld, SessionsHeld, CookiesHeld PROVE SessionIsOwners
    BY DEF IndInv, Types, Held
  <2>1. ASSUME NEW s \in DOMAIN sessions
        PROVE  LET p == pendings[sessions[s].pending]
               IN /\ p.user = challenges[p.challenge].user
                  /\ \E u \in p.by : OwnerOf[u] = p.user /\ text[u] = p.code
    <3>1. sessions[s].pending \in DOMAIN pendings
      BY DEF TablesOK
    <3>2. pendings[sessions[s].pending].status # "AWAITING_BOT_CONFIRM"
      BY DEF SessionsHeld
    <3>3. QED
      BY <3>1, <3>2 DEF PendingsHeld, SentItsCode
  <2>2. QED
    BY <2>1 DEF SessionIsOwners, CookiesHeld
<1>2. QED
  BY <1>1, Invariance, PTL
=============================================================================
