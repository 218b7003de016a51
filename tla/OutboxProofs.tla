---------------------------- MODULE OutboxProofs ----------------------------
(***************************************************************************)
(* Proofs about Outbox, for any number of events, publisher processes and  *)
(* crashes, any attempt budget and any lease and retry durations.          *)
(***************************************************************************)
EXTENDS Outbox, TLAPS

-----------------------------------------------------------------------------
(* Type correctness.                                                       *)

\* A publisher between claimNext() and the end of processOne holds the event
\* and the token of its claim, and the row counts that attempt.
HeldClaim ==
  \A p \in Publishers : pc[p] \in {"add", "mark", "retry"} =>
    /\ heldEvent[p] \in Events
    /\ heldToken[p] \in 1..issued
    /\ attempts[heldEvent[p]] > 0

\* Every variable keeps its type: rows, held claims, queue and counters.
LEMMA TypeInit == Init => TypeOK /\ HeldClaim
  BY OutboxAssumption DEF Init, TypeOK, HeldClaim, Statuses, Steps, NoToken, NoEvent

\* Every step of a publisher, of an inserting transaction, of the clock or of
\* a crash preserves the types and the shape of held claims.
LEMMA TypeNext == TypeOK /\ HeldClaim /\ [Next]_vars => TypeOK' /\ HeldClaim'
<1> SUFFICES ASSUME TypeOK, HeldClaim, [Next]_vars
             PROVE  TypeOK' /\ HeldClaim'
  OBVIOUS
<1> USE OutboxAssumption DEF TypeOK, HeldClaim, Statuses, Steps, NoToken, NoEvent
<1>1. ASSUME NEW e \in Events, Insert(e) PROVE TypeOK' /\ HeldClaim'
  BY <1>1 DEF Insert, procVars
<1>2. ASSUME NEW p \in Publishers, ReclaimExpiredLeases(p) PROVE TypeOK' /\ HeldClaim'
  BY <1>2 DEF ReclaimExpiredLeases
<1>3. ASSUME NEW p \in Publishers, ClaimNext(p) PROVE TypeOK' /\ HeldClaim'
  <2>1. PICK e \in Events :
          /\ status'     = [status EXCEPT ![e] = "PROCESSING"]
          /\ attempts'   = [attempts EXCEPT ![e] = @ + 1]
          /\ waitLeft'   = [waitLeft EXCEPT ![e] = 0]
          /\ leaseOwner' = [leaseOwner EXCEPT ![e] = WorkerId[p]]
          /\ leaseToken' = [leaseToken EXCEPT ![e] = issued + 1]
          /\ leaseLeft'  = [leaseLeft EXCEPT ![e] = LeaseDuration]
          /\ heldEvent'  = [heldEvent EXCEPT ![p] = e]
          /\ heldToken'  = [heldToken EXCEPT ![p] = issued + 1]
          /\ claimant'   = [claimant EXCEPT ![e] = p]
          /\ pc' = [pc EXCEPT ![p] = IF e \in Malformed THEN "retry" ELSE "add"]
    BY <1>3 DEF ClaimNext
  <2>2. issued' = issued + 1 /\ queue' = queue /\ crashes' = crashes
    BY <1>3 DEF ClaimNext
  <2>3. TypeOK'
    BY <2>1, <2>2
  <2>4. HeldClaim'
    BY <2>1, <2>2
  <2>5. QED
    BY <2>3, <2>4
<1>4. ASSUME NEW p \in Publishers, ClaimNothing(p) PROVE TypeOK' /\ HeldClaim'
  BY <1>4 DEF ClaimNothing, rowVars
<1>5. ASSUME NEW p \in Publishers, QueueAdd(p) PROVE TypeOK' /\ HeldClaim'
  BY <1>5 DEF QueueAdd, rowVars
<1>6. ASSUME NEW p \in Publishers, QueueAddThrows(p) PROVE TypeOK' /\ HeldClaim'
  BY <1>6 DEF QueueAddThrows, rowVars
<1>7. ASSUME NEW p \in Publishers, MarkPublished(p) PROVE TypeOK' /\ HeldClaim'
  BY <1>7 DEF MarkPublished, Publish, ClearLease, Release, rowVars
<1>8. ASSUME NEW p \in Publishers, MarkPublishedThrows(p) PROVE TypeOK' /\ HeldClaim'
  BY <1>8 DEF MarkPublishedThrows, Publish, ClearLease, rowVars
<1>9. ASSUME NEW p \in Publishers, Retry(p) PROVE TypeOK' /\ HeldClaim'
  BY <1>9 DEF Retry, ClearLease, Release, rowVars
<1>10. ASSUME NEW p \in Publishers, Crash(p) PROVE TypeOK' /\ HeldClaim'
  BY <1>10 DEF Crash, Release, rowVars
<1>11. ASSUME Tick PROVE TypeOK' /\ HeldClaim'
  BY <1>11 DEF Tick, Elapse, procVars
<1>12. CASE UNCHANGED vars
  BY <1>12 DEF vars, rowVars, procVars
<1>13. QED
  BY <1>1, <1>2, <1>3, <1>4, <1>5, <1>6, <1>7, <1>8, <1>9, <1>10, <1>11, <1>12
     DEF Next, ProcessOne

\* Type correctness of the outbox for every value of the constants.
THEOREM TypeCorrect == Spec => []TypeOK
<1>1. Spec => [](TypeOK /\ HeldClaim)
  BY TypeInit, TypeNext, PTL DEF Spec
<1>2. QED
  BY <1>1, PTL

-----------------------------------------------------------------------------
(* The inductive invariant.  TokensNameClaims is what the fence rests on:  *)
(* a token that a row and a process share belongs to that process's claim  *)
(* of that row, because tokens are never issued twice.                     *)

TokensNameClaims ==
  /\ \A e \in Events : leaseToken[e] <= issued
  /\ \A p \in Publishers, e \in Events :
       /\ pc[p] \in {"add", "mark", "retry"}
       /\ leaseToken[e] = heldToken[p]
       => heldEvent[p] = e /\ claimant[e] = p

\* A publisher about to mark its event has put it into the queue, and only
\* claimed events ever get there.
AddedBeforeMark ==
  /\ \A p \in Publishers : pc[p] = "mark" => heldEvent[p] \in queue
  /\ \A e \in queue : attempts[e] > 0

IndInv == /\ TypeOK
          /\ HeldClaim
          /\ TokensNameClaims
          /\ AddedBeforeMark
          /\ AttemptBudget
          /\ PublishedWasQueued

\* The empty outbox satisfies the inductive invariant.
LEMMA IndInit == Init => IndInv
<1> SUFFICES ASSUME Init PROVE IndInv
  OBVIOUS
<1>1. TypeOK /\ HeldClaim
  BY TypeInit
<1>2. TokensNameClaims /\ AddedBeforeMark /\ AttemptBudget /\ PublishedWasQueued
  BY OutboxAssumption
     DEF Init, TokensNameClaims, AddedBeforeMark, AttemptBudget, PublishedWasQueued, NoToken
<1>3. QED
  BY <1>1, <1>2 DEF IndInv

\* An exhausted row has spent its budget exactly.
LEMMA ExhaustedExact ==
  ASSUME TypeOK, AttemptBudget, NEW e \in Events, Exhausted(e)
  PROVE  attempts[e] = MaxAttempts
  BY OutboxAssumption DEF TypeOK, AttemptBudget, Exhausted

\* No step of any process disturbs the fence, the budget or the queue order.
LEMMA IndNext == IndInv /\ [Next]_vars => IndInv'
<1> SUFFICES ASSUME IndInv, [Next]_vars PROVE IndInv'
  OBVIOUS
<1> USE OutboxAssumption DEF Statuses, Steps, NoToken, NoEvent
<1> DEFINE Rest == TokensNameClaims /\ AddedBeforeMark /\ AttemptBudget /\ PublishedWasQueued
<1>0. TypeOK' /\ HeldClaim'
  BY TypeNext DEF IndInv
<1>a. TypeOK /\ HeldClaim /\ TokensNameClaims /\ AddedBeforeMark
      /\ AttemptBudget /\ PublishedWasQueued
  BY DEF IndInv
<1>b. \A p \in Publishers, e \in Events : OwnsLease(p, e) =>
        status[e] = "PROCESSING" /\ leaseToken[e] = heldToken[p]
  BY DEF OwnsLease
<1> USE <1>a DEF TypeOK, HeldClaim, TokensNameClaims, AddedBeforeMark,
                 AttemptBudget, PublishedWasQueued
<1>1. ASSUME NEW e \in Events, Insert(e) PROVE Rest'
  BY <1>1 DEF Insert, procVars
<1>2. ASSUME NEW p \in Publishers, ReclaimExpiredLeases(p) PROVE Rest'
  <2> DEFINE R == {e \in Events : Reclaimable(e)}
  <2>1. /\ pc' = [pc EXCEPT ![p] = "claim"]
        /\ status' = [e \in Events |-> IF e \notin R THEN status[e]
                                  ELSE IF Exhausted(e) THEN "FAILED" ELSE "PENDING"]
        /\ leaseToken' = [e \in Events |-> IF e \in R THEN NoToken ELSE leaseToken[e]]
        /\ UNCHANGED <<attempts, heldEvent, heldToken, queue, issued, claimant>>
    BY <1>2 DEF ReclaimExpiredLeases
  <2> HIDE DEF R
  <2>2. TokensNameClaims'
    BY <2>1
  <2>3. AddedBeforeMark'
    BY <2>1
  <2>4. AttemptBudget'
    <3> SUFFICES ASSUME NEW e \in Events
                 PROVE  /\ attempts'[e] <= MaxAttempts
                        /\ status'[e] = "FAILED" => attempts'[e] = MaxAttempts
      BY DEF AttemptBudget
    <3>1. attempts' = attempts /\ (Exhausted(e) => attempts[e] = MaxAttempts)
      BY <2>1, ExhaustedExact
    <3>2. status'[e] = "FAILED" => status[e] = "FAILED" \/ Exhausted(e)
      BY <2>1
    <3>3. QED
      BY <3>1, <3>2
  <2>5. PublishedWasQueued'
    BY <2>1
  <2>6. QED
    BY <2>2, <2>3, <2>4, <2>5
<1>3. ASSUME NEW p \in Publishers, ClaimNext(p) PROVE Rest'
  <2>1. PICK e \in Events :
          /\ Claimable(e)
          /\ status'     = [status EXCEPT ![e] = "PROCESSING"]
          /\ attempts'   = [attempts EXCEPT ![e] = @ + 1]
          /\ leaseToken' = [leaseToken EXCEPT ![e] = issued + 1]
          /\ heldEvent'  = [heldEvent EXCEPT ![p] = e]
          /\ heldToken'  = [heldToken EXCEPT ![p] = issued + 1]
          /\ claimant'   = [claimant EXCEPT ![e] = p]
          /\ pc' = [pc EXCEPT ![p] = IF e \in Malformed THEN "retry" ELSE "add"]
    BY <1>3 DEF ClaimNext
  <2>2. issued' = issued + 1 /\ queue' = queue
    BY <1>3 DEF ClaimNext
  <2>3. TokensNameClaims'
    <3>1. \A f \in Events : leaseToken'[f] <= issued'
      BY <2>1, <2>2
    <3>2. ASSUME NEW q \in Publishers, NEW f \in Events,
                 pc'[q] \in {"add", "mark", "retry"}, leaseToken'[f] = heldToken'[q]
          PROVE  heldEvent'[q] = f /\ claimant'[f] = q
      <4>1. CASE q = p
        BY <4>1, <3>2, <2>1, <2>2
      <4>2. CASE q # p
        <5>1. pc[q] \in {"add", "mark", "retry"} /\ heldToken'[q] = heldToken[q]
              /\ heldEvent'[q] = heldEvent[q] /\ heldToken[q] <= issued
          BY <4>2, <3>2, <2>1
        <5>2. f # e
          BY <5>1, <3>2, <2>1
        <5>3. QED
          BY <5>1, <5>2, <3>2, <2>1
      <4>3. QED
        BY <4>1, <4>2
    <3>3. QED
      BY <3>1, <3>2
  <2>4. (AddedBeforeMark /\ AttemptBudget /\ PublishedWasQueued)'
    BY <2>1, <2>2 DEF Claimable, Exhausted
  <2>5. QED
    BY <2>3, <2>4
<1>4. ASSUME NEW p \in Publishers, ClaimNothing(p) PROVE Rest'
  <2>1. /\ pc' = [pc EXCEPT ![p] = "reclaim"]
        /\ UNCHANGED <<status, attempts, leaseToken, heldEvent, heldToken, queue, issued, claimant>>
    BY <1>4 DEF ClaimNothing, rowVars
  <2>2. QED
    BY <2>1
<1>5. ASSUME NEW p \in Publishers, QueueAdd(p) PROVE Rest'
  BY <1>5 DEF QueueAdd, rowVars
<1>6. ASSUME NEW p \in Publishers, QueueAddThrows(p) PROVE Rest'
  BY <1>6 DEF QueueAddThrows, rowVars
<1>7. ASSUME NEW p \in Publishers, MarkPublished(p) PROVE Rest'
  BY <1>7, <1>b DEF MarkPublished, Publish, ClearLease, Release, rowVars
<1>8. ASSUME NEW p \in Publishers, MarkPublishedThrows(p) PROVE Rest'
  BY <1>8, <1>b DEF MarkPublishedThrows, Publish, ClearLease, rowVars
<1>9. ASSUME NEW p \in Publishers, Retry(p) PROVE Rest'
  <2>1. heldEvent[p] \in Events
    BY <1>9 DEF Retry
  <2>2. CASE OwnsLease(p, heldEvent[p])
    <3> DEFINE e == heldEvent[p]
    <3>1. /\ status' = [status EXCEPT ![e] = IF Exhausted(e) THEN "FAILED" ELSE "PENDING"]
          /\ leaseToken' = [leaseToken EXCEPT ![e] = NoToken]
          /\ pc' = [pc EXCEPT ![p] = "reclaim"]
          /\ heldEvent' = [heldEvent EXCEPT ![p] = NoEvent]
          /\ heldToken' = [heldToken EXCEPT ![p] = NoToken]
          /\ UNCHANGED <<attempts, queue, issued, claimant>>
      BY <1>9, <2>2 DEF Retry, ClearLease, Release
    <3>2. Exhausted(e) => attempts[e] = MaxAttempts
      BY ONLY <1>a, <2>1, ExhaustedExact
    <3>3. status[e] = "PROCESSING"
      BY <2>1, <2>2 DEF OwnsLease
    <3> HIDE DEF e
    <3>4. TokensNameClaims'
      BY <3>1
    <3>5. AddedBeforeMark' /\ AttemptBudget' /\ PublishedWasQueued'
      BY <3>1, <3>2, <3>3, <2>1
    <3>6. QED
      BY <3>4, <3>5
  <2>3. CASE ~OwnsLease(p, heldEvent[p])
    BY <1>9, <2>3 DEF Retry, Release, rowVars
  <2>4. QED
    BY <2>2, <2>3
<1>10. ASSUME NEW p \in Publishers, Crash(p) PROVE Rest'
  BY <1>10 DEF Crash, Release, rowVars
<1>11. ASSUME Tick PROVE Rest'
  BY <1>11 DEF Tick, procVars
<1>12. ASSUME UNCHANGED vars PROVE Rest'
  BY <1>12 DEF vars, rowVars, procVars
<1> HIDE <1>a DEF TypeOK, HeldClaim, TokensNameClaims, AddedBeforeMark,
                 AttemptBudget, PublishedWasQueued
<1>13. Rest'
  BY <1>1, <1>2, <1>3, <1>4, <1>5, <1>6, <1>7, <1>8, <1>9, <1>10, <1>11, <1>12
     DEF Next, ProcessOne
<1>14. QED
  BY <1>0, <1>13 DEF IndInv

\* IndInv holds in every reachable state.
LEMMA Invariance == Spec => []IndInv
  BY IndInit, IndNext, PTL DEF Spec

\* No crash, lost answer or stale publisher makes an event PUBLISHED that the
\* queue never accepted.
THEOREM PublishedWasQueuedHolds == Spec => []PublishedWasQueued
<1>1. IndInv => PublishedWasQueued
  BY DEF IndInv
<1>2. QED
  BY <1>1, Invariance, PTL

\* The attempt budget is never exceeded and never cut short.
THEOREM AttemptBudgetHolds == Spec => []AttemptBudget
<1>1. IndInv => AttemptBudget
  BY DEF IndInv
<1>2. QED
  BY <1>1, Invariance, PTL

-----------------------------------------------------------------------------
(* The fence.                                                              *)

\* The write an update may make to a row whose lease is still running.
FencedWrite ==
  \A e \in Events :
    status[e] = "PROCESSING" /\ leaseLeft[e] > 0 /\ status'[e] # "PROCESSING"
      => \E p \in Publishers : /\ claimant[e] = p
                               /\ heldEvent[p] = e
                               /\ pc[p] \in {"mark", "retry"}
                               /\ pc'[p] # pc[p]

\* A step that moves a row out of PROCESSING under a running lease is taken
\* by the row's claimant: the token comparison in the WHERE clause suffices.
LEMMA FencedStep == IndInv /\ Next => FencedWrite
<1> SUFFICES ASSUME IndInv, Next, NEW e \in Events, status[e] = "PROCESSING",
                    leaseLeft[e] > 0, status'[e] # "PROCESSING"
             PROVE  \E p \in Publishers : /\ claimant[e] = p
                                          /\ heldEvent[p] = e
                                          /\ pc[p] \in {"mark", "retry"}
                                          /\ pc'[p] # pc[p]
  BY DEF FencedWrite
<1>a. TypeOK /\ HeldClaim /\ TokensNameClaims
  BY DEF IndInv
<1> USE <1>a DEF TypeOK, HeldClaim, TokensNameClaims
<1>1. ASSUME NEW f \in Events, Insert(f) PROVE FALSE
  BY <1>1 DEF Insert
<1>2. ASSUME NEW p \in Publishers, ReclaimExpiredLeases(p) PROVE FALSE
  BY <1>2 DEF ReclaimExpiredLeases, Reclaimable
<1>3. ASSUME NEW p \in Publishers, ClaimNext(p) PROVE FALSE
  BY <1>3 DEF ClaimNext
<1>4. ASSUME NEW p \in Publishers,
             ClaimNothing(p) \/ QueueAdd(p) \/ QueueAddThrows(p) \/ Crash(p)
      PROVE  FALSE
  BY <1>4 DEF ClaimNothing, QueueAdd, QueueAddThrows, Crash, rowVars
<1>5. ASSUME Tick PROVE FALSE
  BY <1>5 DEF Tick
<1>6. ASSUME NEW p \in Publishers, MarkPublished(p) \/ MarkPublishedThrows(p) \/ Retry(p)
      PROVE  /\ claimant[e] = p
             /\ heldEvent[p] = e
             /\ pc[p] \in {"mark", "retry"}
             /\ pc'[p] # pc[p]
  <2>1. pc[p] \in {"mark", "retry"} /\ heldEvent[p] \in Events
    BY <1>6 DEF MarkPublished, MarkPublishedThrows, Retry
  <2>2. pc'[p] # pc[p]
    BY <1>6 DEF MarkPublished, MarkPublishedThrows, Retry, Release
  <2>3. heldEvent[p] = e /\ OwnsLease(p, e)
    BY <1>6, <2>1 DEF MarkPublished, MarkPublishedThrows, Retry, Publish, rowVars
  <2>4. QED
    BY <2>1, <2>2, <2>3 DEF OwnsLease
<1>7. QED
  BY <1>1, <1>2, <1>3, <1>4, <1>5, <1>6 DEF Next, ProcessOne

\* A publisher that outlived its lease never writes the row of a later claim,
\* whatever names the processes write into leaseOwner.
THEOREM FencedWritesHold == Spec => FencedWrites
<1>1. IndInv /\ [Next]_vars => [FencedWrite]_vars
  BY FencedStep
<1>2. Spec => [][FencedWrite]_vars
  BY <1>1, Invariance, PTL DEF Spec
<1>3. QED
  BY <1>2 DEF FencedWrites, FencedWrite

-----------------------------------------------------------------------------
(* Refinement of the contract.                                             *)

\* The empty outbox is the contract's empty outbox.
LEMMA ContractInit == Init => Contract!Init
  BY DEF Init, Contract!Init, Outcome

\* Every step of the lease protocol is a step of the contract or changes
\* nothing the contract speaks of.
LEMMA ContractNext == IndInv /\ [Next]_vars => [Contract!Next]_(Contract!vars)
<1> SUFFICES ASSUME IndInv, [Next]_vars PROVE [Contract!Next]_(Contract!vars)
  OBVIOUS
<1>a. TypeOK /\ HeldClaim /\ AddedBeforeMark /\ AttemptBudget
  BY DEF IndInv
<1> USE <1>a, OutboxAssumption DEF TypeOK, HeldClaim, AddedBeforeMark, AttemptBudget, Statuses
<1> DEFINE Stutter == UNCHANGED <<attempts, queue>> /\ (\A e \in Events : Outcome(status'[e]) = Outcome(status[e]))
<1>b. Stutter => UNCHANGED Contract!vars
  BY DEF Contract!vars
<1>c. ASSUME NEW e \in Events, e \in queue, status[e] = "PROCESSING",
             status' = [status EXCEPT ![e] = "PUBLISHED"], UNCHANGED <<attempts, queue>>
      PROVE  Contract!Confirm(e)
  BY <1>c DEF Contract!Confirm, Outcome
<1>1. ASSUME NEW e \in Events, Insert(e) PROVE Contract!Open(e)
  BY <1>1 DEF Insert, Contract!Open, Outcome
<1>2. ASSUME NEW p \in Publishers, ReclaimExpiredLeases(p)
      PROVE  \E S \in SUBSET Events : Contract!GiveUp(S)
  <2> DEFINE S == {e \in Events : Reclaimable(e) /\ Exhausted(e)}
  <2>1. \A e \in S : Outcome(status[e]) = "open" /\ attempts[e] = MaxAttempts
    BY DEF Reclaimable, Exhausted, Outcome
  <2>2. \A e \in Events :
          Outcome(status'[e]) = IF e \in S THEN "failed" ELSE Outcome(status[e])
    BY <1>2 DEF ReclaimExpiredLeases, Reclaimable, Outcome
  <2>3. UNCHANGED <<attempts, queue>>
    BY <1>2 DEF ReclaimExpiredLeases
  <2>4. Contract!GiveUp(S)
    BY <2>1, <2>2, <2>3 DEF Contract!GiveUp
  <2>5. QED
    BY <2>4
<1>3. ASSUME NEW p \in Publishers, ClaimNext(p) PROVE \E e \in Events : Contract!Try(e)
  <2>1. PICK e \in Events : /\ Claimable(e)
                            /\ status' = [status EXCEPT ![e] = "PROCESSING"]
                            /\ attempts' = [attempts EXCEPT ![e] = @ + 1]
    BY <1>3 DEF ClaimNext
  <2>2. status[e] = "PENDING" /\ attempts[e] < MaxAttempts /\ queue' = queue
    BY <1>3, <2>1 DEF ClaimNext, Claimable, Exhausted
  <2>3. \A f \in Events : Outcome(status'[f]) = Outcome(status[f])
    BY <2>1, <2>2 DEF Outcome
  <2>4. Outcome(status[e]) = "open"
    BY <2>2 DEF Outcome
  <2>5. Contract!Try(e)
    BY <2>1, <2>2, <2>3, <2>4 DEF Contract!Try
  <2>6. QED
    BY <2>5
<1>4. ASSUME NEW p \in Publishers, QueueAdd(p) PROVE Contract!Send(heldEvent[p])
  BY <1>4 DEF QueueAdd, rowVars, Contract!Send
<1>5. ASSUME NEW p \in Publishers, QueueAddThrows(p)
      PROVE  Contract!Send(heldEvent[p]) \/ Stutter
  BY <1>5 DEF QueueAddThrows, rowVars, Contract!Send
<1>6. ASSUME NEW p \in Publishers, MarkPublished(p) \/ MarkPublishedThrows(p)
      PROVE  Contract!Confirm(heldEvent[p]) \/ Stutter
  <2>1. heldEvent[p] \in Events /\ heldEvent[p] \in queue
    BY <1>6 DEF MarkPublished, MarkPublishedThrows
  <2>2. CASE UNCHANGED rowVars
    BY <2>2, <1>6 DEF rowVars, MarkPublished, MarkPublishedThrows
  <2>3. CASE ~ UNCHANGED rowVars
    BY <2>1, <2>3, <1>6, <1>c DEF MarkPublished, MarkPublishedThrows, Publish, OwnsLease
  <2>4. QED
    BY <2>2, <2>3
<1>7. ASSUME NEW p \in Publishers, Retry(p)
      PROVE  Contract!GiveUp({heldEvent[p]}) \/ Stutter
  <2> DEFINE e == heldEvent[p]
  <2>1. e \in Events /\ UNCHANGED <<attempts, queue>>
    BY <1>7 DEF Retry, rowVars
  <2>2. CASE ~OwnsLease(p, e)
    BY <1>7, <2>1, <2>2 DEF Retry, rowVars
  <2>3. CASE OwnsLease(p, e) /\ ~Exhausted(e)
    BY <1>7, <2>1, <2>3 DEF Retry, OwnsLease, Outcome
  <2>4. CASE OwnsLease(p, e) /\ Exhausted(e)
    <3>1. attempts[e] = MaxAttempts
      BY ONLY <1>a, <2>1, <2>4, ExhaustedExact
    <3>2. status[e] = "PROCESSING"
      BY <2>4 DEF OwnsLease
    <3>3. status' = [status EXCEPT ![e] = "FAILED"]
      BY <1>7, <2>4 DEF Retry
    <3>4. QED
      BY <3>1, <3>2, <3>3, <2>1 DEF Contract!GiveUp, Outcome
  <2>5. QED
    BY <2>2, <2>3, <2>4
<1>8. ASSUME NEW p \in Publishers, ClaimNothing(p) \/ Crash(p) PROVE Stutter
  BY <1>8 DEF ClaimNothing, Crash, rowVars
<1>9. ASSUME Tick \/ UNCHANGED vars PROVE Stutter
  BY <1>9 DEF Tick, vars, rowVars
<1>10. ASSUME NEW p \in Publishers, QueueAdd(p) \/ QueueAddThrows(p) \/ MarkPublished(p)
                                    \/ MarkPublishedThrows(p) \/ Retry(p)
       PROVE  heldEvent[p] \in Events
  BY <1>10 DEF QueueAdd, QueueAddThrows, MarkPublished, MarkPublishedThrows, Retry
<1> HIDE <1>a DEF TypeOK, HeldClaim, AddedBeforeMark, AttemptBudget, Stutter
<1>11. QED
  BY <1>1, <1>2, <1>3, <1>4, <1>5, <1>6, <1>7, <1>8, <1>9, <1>10, <1>b
     DEF Next, ProcessOne, Contract!Next

\* The outbox implements its contract for every number of processes, events
\* and crashes.
THEOREM OutboxImplementsContract == Spec => ImplementsContract
<1>1. Spec => Contract!Init /\ [][Contract!Next]_(Contract!vars)
  BY ContractInit, ContractNext, Invariance, PTL DEF Spec
<1>2. QED
  BY <1>1 DEF ImplementsContract, Contract!Spec
=============================================================================
