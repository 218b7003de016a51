------------------------------- MODULE Outbox -------------------------------
(***************************************************************************)
(* The transactional outbox of the worker: PrismaOutboxStore               *)
(* (packages/orchestration-store/src/outbox-store.ts) driven by            *)
(* OutboxPublisher.processOne (apps/worker/src/outbox-publisher.ts).       *)
(*                                                                         *)
(* Every SQL statement of the store is one atomic action; between two      *)
(* statements of one processOne call any other publisher process may run,  *)
(* the lease may run out, and the process may die.                         *)
(*                                                                         *)
(* Time is kept as the time LEFT: leaseLeft[e] is leaseExpiresAt minus the *)
(* database clock and waitLeft[e] is nextAttemptAt minus the clock, both   *)
(* floored at 0, and Tick lets one unit pass.  "leaseExpiresAt <= now" is  *)
(* leaseLeft[e] = 0; "nextAttemptAt IS NULL OR <= now" is waitLeft[e] = 0. *)
(***************************************************************************)
EXTENDS Integers, FiniteSets

CONSTANTS
  Events,        \* outbox rows, numbered in createdAt, id order
  Malformed,     \* events with an unsupported topic or an invalid payload
  Publishers,    \* worker processes, each running one publisher loop
  WorkerId,      \* WorkerId[p]: the lease owner name p writes (WORKER_ID)
  MaxAttempts,   \* ORCHESTRATION_MAX_ATTEMPTS
  LeaseDuration, \* ORCHESTRATION_LEASE_DURATION_MS, in ticks
  RetryDelay,    \* WORKER_RETRY_DELAY_MS, in ticks
  MaxCrashes,    \* bound: process deaths in one behaviour
  None           \* SQL NULL in an owner column

ASSUME OutboxAssumption ==
  /\ Events \subseteq Nat
  /\ Malformed \subseteq Events
  /\ DOMAIN WorkerId = Publishers
  /\ None \notin Publishers
  /\ \A p \in Publishers : WorkerId[p] # None
  /\ MaxAttempts \in Nat \ {0}
  /\ LeaseDuration \in Nat \ {0}
  /\ RetryDelay \in Nat
  /\ MaxCrashes \in Nat

VARIABLES
  \* the OutboxEvent table
  status, attempts, waitLeft, leaseOwner, leaseToken, leaseLeft,
  \* each publisher: where it is in processOne and what claimNext gave it
  pc, heldEvent, heldToken,
  \* job ids BullMQ has accepted
  queue,
  \* lease tokens issued so far (randomUUID: a token never issued before)
  issued,
  \* history: the process whose claim a row carries or carried last
  claimant,
  crashes

rowVars  == <<status, attempts, waitLeft, leaseOwner, leaseToken, leaseLeft>>
procVars == <<pc, heldEvent, heldToken>>
vars     == <<rowVars, procVars, queue, issued, claimant, crashes>>

\* "ABSENT" is a row no business transaction has inserted yet.
Statuses == {"ABSENT", "PENDING", "PROCESSING", "PUBLISHED", "FAILED"}
Terminal == {"PUBLISHED", "FAILED"}
Steps    == {"reclaim", "claim", "add", "mark", "retry"}

NoToken == 0
NoEvent == -1

\* Mutant: an attempt too many.
ExhaustedLate(e) == attempts[e] > MaxAttempts

\* The comparison every UPDATE makes before it gives a row up.
Exhausted(e) == attempts[e] >= MaxAttempts

-----------------------------------------------------------------------------
(* The store: one action per SQL statement.                                *)

\* A business transaction commits its outbox row (defaults of OutboxEvent).
Insert(e) ==
  /\ status[e] = "ABSENT"
  /\ status' = [status EXCEPT ![e] = "PENDING"]
  /\ UNCHANGED <<attempts, waitLeft, leaseOwner, leaseToken, leaseLeft,
                 procVars, queue, issued, claimant, crashes>>

\* Mutant: a row whose final lease ran out is left in PROCESSING.
ReclaimableNotFinal(e) ==
  status[e] = "PROCESSING" /\ leaseLeft[e] = 0 /\ ~Exhausted(e)

\* Rows the UPDATE of reclaimExpiredLeases selects.
Reclaimable(e) ==
  \/ status[e] = "PROCESSING" /\ leaseLeft[e] = 0
  \/ status[e] = "PENDING" /\ Exhausted(e)

\* reclaimExpiredLeases(), the first statement of processOne.
ReclaimExpiredLeases(p) ==
  LET R == {e \in Events : Reclaimable(e)} IN
  /\ pc[p] = "reclaim"
  /\ pc' = [pc EXCEPT ![p] = "claim"]
  /\ status' = [e \in Events |-> IF e \notin R THEN status[e]
                                 ELSE IF Exhausted(e) THEN "FAILED" ELSE "PENDING"]
  /\ waitLeft'   = [e \in Events |-> IF e \in R THEN 0 ELSE waitLeft[e]]
  /\ leaseOwner' = [e \in Events |-> IF e \in R THEN None ELSE leaseOwner[e]]
  /\ leaseToken' = [e \in Events |-> IF e \in R THEN NoToken ELSE leaseToken[e]]
  /\ leaseLeft'  = [e \in Events |-> IF e \in R THEN 0 ELSE leaseLeft[e]]
  /\ UNCHANGED <<attempts, heldEvent, heldToken, queue, issued, claimant, crashes>>

Claimable(e) ==
  /\ status[e] = "PENDING"
  /\ ~Exhausted(e)
  /\ waitLeft[e] = 0

\* claimNext() finds a candidate: the oldest one.  SKIP LOCKED makes two
\* concurrent claims take different rows, as the serial order of the two does.
ClaimNext(p) ==
  /\ pc[p] = "claim"
  /\ \E e \in Events :
       /\ Claimable(e)
       /\ \A f \in Events : Claimable(f) => e <= f
       /\ status'     = [status EXCEPT ![e] = "PROCESSING"]
       /\ attempts'   = [attempts EXCEPT ![e] = @ + 1]
       /\ waitLeft'   = [waitLeft EXCEPT ![e] = 0]
       /\ leaseOwner' = [leaseOwner EXCEPT ![e] = WorkerId[p]]
       /\ leaseToken' = [leaseToken EXCEPT ![e] = issued + 1]
       /\ leaseLeft'  = [leaseLeft EXCEPT ![e] = LeaseDuration]
       /\ heldEvent'  = [heldEvent EXCEPT ![p] = e]
       /\ heldToken'  = [heldToken EXCEPT ![p] = issued + 1]
       /\ claimant'   = [claimant EXCEPT ![e] = p]
       /\ pc' = [pc EXCEPT ![p] = IF e \in Malformed THEN "retry" ELSE "add"]
  /\ issued' = issued + 1
  /\ UNCHANGED <<queue, crashes>>

\* claimNext() returns null: processOne answers 'idle' and the loop polls on.
ClaimNothing(p) ==
  /\ pc[p] = "claim"
  /\ \A e \in Events : ~Claimable(e)
  /\ pc' = [pc EXCEPT ![p] = "reclaim"]
  /\ UNCHANGED <<rowVars, heldEvent, heldToken, queue, issued, claimant, crashes>>

\* Mutant: the owner's name is taken for the claim.
OwnsLeaseByName(p, e) ==
  /\ status[e] = "PROCESSING"
  /\ leaseOwner[e] = WorkerId[p]
  /\ leaseLeft[e] > 0

\* Mutant: the update is addressed by id alone.
OwnsLeaseById(p, e) == e \in Events

\* The WHERE clause that fences markPublished() and retry().
OwnsLease(p, e) ==
  /\ status[e] = "PROCESSING"
  /\ leaseOwner[e] = WorkerId[p]
  /\ leaseToken[e] = heldToken[p]
  /\ leaseLeft[e] > 0

\* Mutant: the owner is cleared with an empty name, not with NULL.
ClearLeaseEmptyName(e) ==
  /\ leaseOwner' = [leaseOwner EXCEPT ![e] = ""]
  /\ leaseToken' = [leaseToken EXCEPT ![e] = NoToken]
  /\ leaseLeft'  = [leaseLeft EXCEPT ![e] = 0]

ClearLease(e) ==
  /\ leaseOwner' = [leaseOwner EXCEPT ![e] = None]
  /\ leaseToken' = [leaseToken EXCEPT ![e] = NoToken]
  /\ leaseLeft'  = [leaseLeft EXCEPT ![e] = 0]

\* processOne returns; the loop calls it again.
Release(p) ==
  /\ pc' = [pc EXCEPT ![p] = "reclaim"]
  /\ heldEvent' = [heldEvent EXCEPT ![p] = NoEvent]
  /\ heldToken' = [heldToken EXCEPT ![p] = NoToken]

\* The effect of markPublished() on the row it is fenced to.
Publish(p, e) ==
  IF OwnsLease(p, e)
  THEN /\ status' = [status EXCEPT ![e] = "PUBLISHED"]
       /\ ClearLease(e)
       /\ UNCHANGED <<attempts, waitLeft>>
  ELSE UNCHANGED rowVars

\* markPublished() answers: 'published', or 'fenced' when no row matched.
MarkPublished(p) ==
  /\ pc[p] = "mark"
  /\ Publish(p, heldEvent[p])
  /\ Release(p)
  /\ UNCHANGED <<queue, issued, claimant, crashes>>

\* markPublished() throws: the connection broke before or after its commit.
MarkPublishedThrows(p) ==
  /\ pc[p] = "mark"
  /\ Publish(p, heldEvent[p]) \/ UNCHANGED rowVars
  /\ pc' = [pc EXCEPT ![p] = "retry"]
  /\ UNCHANGED <<heldEvent, heldToken, queue, issued, claimant, crashes>>

\* The catch block: retry() releases the lease unless it is fenced.
Retry(p) ==
  LET e == heldEvent[p] IN
  /\ pc[p] = "retry"
  /\ IF OwnsLease(p, e)
     THEN /\ status' = [status EXCEPT ![e] = IF Exhausted(e) THEN "FAILED" ELSE "PENDING"]
          /\ waitLeft' = [waitLeft EXCEPT ![e] = IF Exhausted(e) THEN 0 ELSE RetryDelay]
          /\ ClearLease(e)
          /\ UNCHANGED attempts
     ELSE UNCHANGED rowVars
  /\ Release(p)
  /\ UNCHANGED <<queue, issued, claimant, crashes>>

-----------------------------------------------------------------------------
(* The queue, the process and the clock.                                   *)

\* Mutant: the row is marked before the queue has the job.
QueueAddLater(p) ==
  /\ pc[p] = "add"
  /\ queue' = queue
  /\ pc' = [pc EXCEPT ![p] = "mark"]
  /\ UNCHANGED <<rowVars, heldEvent, heldToken, issued, claimant, crashes>>

\* queue.add() resolves.  The job id is the event id, so a second add of a
\* retained job changes nothing.
QueueAdd(p) ==
  /\ pc[p] = "add"
  /\ queue' = queue \cup {heldEvent[p]}
  /\ pc' = [pc EXCEPT ![p] = "mark"]
  /\ UNCHANGED <<rowVars, heldEvent, heldToken, issued, claimant, crashes>>

\* queue.add() rejects: Redis may or may not have stored the job.
QueueAddThrows(p) ==
  /\ pc[p] = "add"
  /\ queue' \in {queue, queue \cup {heldEvent[p]}}
  /\ pc' = [pc EXCEPT ![p] = "retry"]
  /\ UNCHANGED <<rowVars, heldEvent, heldToken, issued, claimant, crashes>>

\* The process dies, or a store call outside the try block rejects and ends
\* runWorker; a supervisor starts it again.  What processOne held is gone.
Crash(p) ==
  /\ crashes < MaxCrashes
  /\ crashes' = crashes + 1
  /\ Release(p)
  /\ UNCHANGED <<rowVars, queue, issued, claimant>>

Elapse(left) == [e \in Events |-> IF left[e] > 0 THEN left[e] - 1 ELSE 0]

\* One unit of database time passes.
Tick ==
  /\ \E e \in Events : leaseLeft[e] > 0 \/ waitLeft[e] > 0
  /\ leaseLeft' = Elapse(leaseLeft)
  /\ waitLeft'  = Elapse(waitLeft)
  /\ UNCHANGED <<status, attempts, leaseOwner, leaseToken, procVars,
                 queue, issued, claimant, crashes>>

-----------------------------------------------------------------------------
Init ==
  /\ status     = [e \in Events |-> "ABSENT"]
  /\ attempts   = [e \in Events |-> 0]
  /\ waitLeft   = [e \in Events |-> 0]
  /\ leaseOwner = [e \in Events |-> None]
  /\ leaseToken = [e \in Events |-> NoToken]
  /\ leaseLeft  = [e \in Events |-> 0]
  /\ pc         = [p \in Publishers |-> "reclaim"]
  /\ heldEvent  = [p \in Publishers |-> NoEvent]
  /\ heldToken  = [p \in Publishers |-> NoToken]
  /\ queue      = {}
  /\ issued     = 0
  /\ claimant   = [e \in Events |-> None]
  /\ crashes    = 0

ProcessOne(p) ==
  \/ ReclaimExpiredLeases(p)
  \/ ClaimNext(p)
  \/ ClaimNothing(p)
  \/ QueueAdd(p)
  \/ QueueAddThrows(p)
  \/ MarkPublished(p)
  \/ MarkPublishedThrows(p)
  \/ Retry(p)

Next ==
  \/ \E e \in Events : Insert(e)
  \/ \E p \in Publishers : ProcessOne(p) \/ Crash(p)
  \/ Tick

Spec == Init /\ [][Next]_vars

\* A running publisher loop keeps taking its next step and time passes;
\* nothing obliges a business transaction to insert or a process to die.
FairSpec ==
  /\ Spec
  /\ WF_vars(Tick)
  /\ \A p \in Publishers : WF_vars(ProcessOne(p))

-----------------------------------------------------------------------------
(* Properties.                                                             *)

TypeOK ==
  /\ status     \in [Events -> Statuses]
  /\ attempts   \in [Events -> Nat]
  /\ waitLeft   \in [Events -> Nat]
  /\ leaseOwner \in [Events -> {WorkerId[p] : p \in Publishers} \cup {None}]
  /\ leaseToken \in [Events -> Nat]
  /\ leaseLeft  \in [Events -> Nat]
  /\ pc         \in [Publishers -> Steps]
  /\ heldEvent  \in [Publishers -> Events \cup {NoEvent}]
  /\ heldToken  \in [Publishers -> Nat]
  /\ queue      \subseteq Events
  /\ issued     \in Nat
  /\ claimant   \in [Events -> Publishers \cup {None}]
  /\ crashes    \in 0..MaxCrashes

\* An event is PUBLISHED only if the queue has its job, whatever crashes,
\* lost answers and stale publishers came in between: queue.add() precedes
\* markPublished() and a fenced publisher cannot write the verdict.
PublishedWasQueued == \A e \in Events : status[e] = "PUBLISHED" => e \in queue

\* maxAttempts is exact: no row is claimed once more, and none is given up
\* while an attempt is left.
AttemptBudget ==
  \A e \in Events : /\ attempts[e] <= MaxAttempts
                    /\ status[e] = "FAILED" => attempts[e] = MaxAttempts

\* While a lease runs, only the process that claimed the row may move it out
\* of PROCESSING, and only for the claim it still holds: a publisher that
\* outlived its lease never touches the row of a later claim, even when both
\* processes run under one WORKER_ID.
FencedWrites ==
  [][\A e \in Events :
       status[e] = "PROCESSING" /\ leaseLeft[e] > 0 /\ status'[e] # "PROCESSING"
         => \E p \in Publishers : /\ claimant[e] = p
                                  /\ heldEvent[p] = e
                                  /\ pc[p] \in {"mark", "retry"}
                                  /\ pc'[p] # pc[p]]_vars

\* The abstract contract, with the row status read as its outcome.
Outcome(s) == CASE s = "ABSENT"    -> "absent"
                [] s = "PUBLISHED" -> "published"
                [] s = "FAILED"    -> "failed"
                [] OTHER           -> "open"

Contract == INSTANCE OutboxContract
              WITH outcome <- [e \in Events |-> Outcome(status[e])],
                   tries   <- attempts,
                   sent    <- queue

\* The lease protocol implements the contract: final verdicts, a bounded
\* number of tries, publication recorded only after the queue has the event.
ImplementsContract == Contract!Spec

\* Every inserted event gets a verdict: no lost lease, no crash and no broken
\* connection leaves a row in PENDING or PROCESSING for ever.
EventSettles == \A e \in Events : status[e] = "PENDING" ~> status[e] \in Terminal
=============================================================================
