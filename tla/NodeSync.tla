------------------------------ MODULE NodeSync ------------------------------
(***************************************************************************)
(* Delivery of node-sync commands: PrismaNodeSyncStore                     *)
(* (packages/orchestration-store/src/node-sync-store.ts) driven by         *)
(* NodeSyncProcessor.process (apps/worker/src/node-sync-processor.ts)      *)
(* inside a BullMQ consumer configured by apps/worker/src/main.ts.         *)
(*                                                                         *)
(* Two budgets meet here: a NodeSyncJob row may be claimed MaxAttempts     *)
(* times, and BullMQ runs the command at most MaxAttempts + 1 times plus   *)
(* MaxAttempts recovered stalls.  store.claim() is several statements,     *)
(* not one transaction; each is an action of its own.                      *)
(*                                                                         *)
(* Timers hold the time left, as in Outbox.                                *)
(***************************************************************************)
EXTENDS Integers

CONSTANTS
  Jobs,          \* NodeSyncJob rows; the command and the BullMQ job carry its id
  RouteJobs,     \* the jobs of route commands; the others are grant commands
  Slots,         \* concurrent executions of the consumer, over all processes
  WorkerId,      \* WorkerId[c]: workerId of the process slot c belongs to
  MaxAttempts,   \* ORCHESTRATION_MAX_ATTEMPTS
  LeaseDuration, \* ORCHESTRATION_LEASE_DURATION_MS: row lease and BullMQ lock
  RetryDelay,    \* NODE_SYNC_RETRY_DELAY_MS: row retry and BullMQ backoff
  MaxFreezes,    \* bound: executions that freeze or die
  MaxErrors,     \* bound: statements of claim(), complete() and retry() that reject
  None           \* SQL NULL in an owner column, no lock holder

ASSUME NodeSyncAssumption ==
  /\ RouteJobs \subseteq Jobs
  /\ DOMAIN WorkerId = Slots
  /\ None \notin Slots /\ None \notin Jobs
  /\ \A c \in Slots : WorkerId[c] # None
  /\ MaxAttempts \in Nat \ {0}
  /\ LeaseDuration \in Nat \ {0}
  \* superRefine of the worker environment schema
  /\ RetryDelay \in Nat /\ RetryDelay >= LeaseDuration
  /\ MaxFreezes \in Nat /\ MaxErrors \in Nat

VARIABLES
  \* the NodeSyncJob table, and whether the route activation the job stands
  \* for has been closed (activationVersion moved off its target version)
  status, attempts, waitLeft, leaseOwner, leaseToken, leaseLeft, closed,
  \* BullMQ's job: state, attemptsMade, stalledCounter, the slot holding its
  \* lock, and the time left of the lock and of the backoff
  bull, made, stalls, locker, lockLeft, delayLeft,
  \* the executions
  pc, task, heldToken, frozen,
  issued,        \* lease tokens issued so far
  claimant,      \* history: the slot whose claim the row carries or carried last
  freezes, errors

rowVars  == <<status, attempts, waitLeft, leaseOwner, leaseToken, leaseLeft>>
bullVars == <<bull, made, stalls, locker, lockLeft, delayLeft>>
slotVars == <<pc, task, heldToken, frozen>>
ghosts   == <<issued, claimant, freezes, errors>>
vars     == <<rowVars, closed, bullVars, slotVars, ghosts>>

Statuses  == {"PENDING", "PROCESSING", "SUCCEEDED", "FAILED"}
Terminal  == {"SUCCEEDED", "FAILED"}
BullState == {"absent", "waiting", "active", "delayed", "completed", "failed"}
Steps     == {"idle", "reap", "claim", "close", "read", "complete", "retry"}
NoToken   == 0

Deliveries == MaxAttempts + 1
Exhausted(j) == attempts[j] >= MaxAttempts
Expired(j) == status[j] = "PROCESSING" /\ leaseLeft[j] = 0

-----------------------------------------------------------------------------
(* BullMQ, as main.ts and the publisher configure it.                      *)

\* The publisher's queue.add().
Enqueue(j) ==
  /\ bull[j] = "absent"
  /\ bull' = [bull EXCEPT ![j] = "waiting"]
  /\ UNCHANGED <<rowVars, closed, made, stalls, locker, lockLeft, delayLeft, slotVars, ghosts>>

\* The consumer picks the job up and starts process().
Deliver(c, j) ==
  /\ pc[c] = "idle" /\ ~frozen[c]
  /\ bull[j] = "waiting"
  /\ bull'   = [bull EXCEPT ![j] = "active"]
  /\ locker' = [locker EXCEPT ![j] = c]
  /\ pc'     = [pc EXCEPT ![c] = "reap"]
  /\ task'   = [task EXCEPT ![c] = j]
  /\ UNCHANGED <<rowVars, closed, made, stalls, lockLeft, delayLeft, heldToken, frozen, ghosts>>

Promote(j) ==
  /\ bull[j] = "delayed" /\ delayLeft[j] = 0
  /\ bull' = [bull EXCEPT ![j] = "waiting"]
  /\ UNCHANGED <<rowVars, closed, made, stalls, locker, lockLeft, delayLeft, slotVars, ghosts>>

\* The lock of an active job is no longer renewed.
Lapsing(j) == bull[j] = "active" /\ (locker[j] # None => frozen[locker[j]])

\* The stalled-job check: back to waiting, or failed beyond maxStalledCount.
RecoverStalled(j) ==
  /\ Lapsing(j) /\ lockLeft[j] = 0
  /\ stalls' = [stalls EXCEPT ![j] = @ + 1]
  /\ bull' = [bull EXCEPT ![j] = IF stalls[j] + 1 > MaxAttempts THEN "failed" ELSE "waiting"]
  /\ locker' = [locker EXCEPT ![j] = None]
  /\ UNCHANGED <<rowVars, closed, made, lockLeft, delayLeft, slotVars, ghosts>>

\* process() resolved: an execution that lost its lock reports to nobody.
Resolve(c, j) ==
  /\ bull' = IF locker[j] = c THEN [bull EXCEPT ![j] = "completed"] ELSE bull
  /\ locker' = IF locker[j] = c THEN [locker EXCEPT ![j] = None] ELSE locker
  /\ UNCHANGED <<made, stalls, lockLeft, delayLeft>>

\* Mutant: BullMQ retries at once instead of waiting the fixed backoff.
RejectNoBackoff(c, j) ==
  IF locker[j] # c THEN UNCHANGED bullVars
  ELSE /\ made' = [made EXCEPT ![j] = @ + 1]
       /\ bull' = [bull EXCEPT ![j] = IF made[j] + 1 < Deliveries THEN "delayed" ELSE "failed"]
       /\ delayLeft' = [delayLeft EXCEPT ![j] = 0]
       /\ locker' = [locker EXCEPT ![j] = None]
       /\ UNCHANGED <<stalls, lockLeft>>

\* process() rejected: one of the MaxAttempts + 1 attempts is used up.
Reject(c, j) ==
  IF locker[j] # c THEN UNCHANGED bullVars
  ELSE /\ made' = [made EXCEPT ![j] = @ + 1]
       /\ bull' = [bull EXCEPT ![j] = IF made[j] + 1 < Deliveries THEN "delayed" ELSE "failed"]
       /\ delayLeft' = [delayLeft EXCEPT ![j] = RetryDelay]
       /\ locker' = [locker EXCEPT ![j] = None]
       /\ UNCHANGED <<stalls, lockLeft>>

-----------------------------------------------------------------------------
(* The store.                                                              *)

\* Mutant: an expired final lease is returned to PENDING.
ReleasedFinalLease(j) == "PENDING"

\* The CASE every statement that takes a lease back evaluates.
Released(j) == IF Exhausted(j) THEN "FAILED" ELSE "PENDING"

\* Mutant: the owner is cleared with an empty name, not with NULL.
ClearLeaseEmptyName(j) ==
  /\ leaseOwner' = [leaseOwner EXCEPT ![j] = ""]
  /\ leaseToken' = [leaseToken EXCEPT ![j] = NoToken]
  /\ leaseLeft'  = [leaseLeft EXCEPT ![j] = 0]

ClearLease(j) ==
  /\ leaseOwner' = [leaseOwner EXCEPT ![j] = None]
  /\ leaseToken' = [leaseToken EXCEPT ![j] = NoToken]
  /\ leaseLeft'  = [leaseLeft EXCEPT ![j] = 0]

\* reclaimExpiredLeases(), run by the reclaimer loop of each worker.
ReclaimExpiredLeases ==
  LET R == {j \in Jobs : Expired(j) \/ (status[j] = "PENDING" /\ Exhausted(j))} IN
  /\ R # {}
  /\ status'     = [j \in Jobs |-> IF j \in R THEN Released(j) ELSE status[j]]
  /\ waitLeft'   = [j \in Jobs |-> IF j \in R THEN 0 ELSE waitLeft[j]]
  /\ leaseOwner' = [j \in Jobs |-> IF j \in R THEN None ELSE leaseOwner[j]]
  /\ leaseToken' = [j \in Jobs |-> IF j \in R THEN NoToken ELSE leaseToken[j]]
  /\ leaseLeft'  = [j \in Jobs |-> IF j \in R THEN 0 ELSE leaseLeft[j]]
  /\ UNCHANGED <<attempts, closed, bullVars, slotVars, ghosts>>

Running(c, step) == pc[c] = step /\ ~frozen[c]
Goto(c, step) ==
  /\ pc' = [pc EXCEPT ![c] = step]
  /\ UNCHANGED <<task, heldToken, frozen>>

\* process() is over, one way or the other; the slot is free again.
Leave(c) ==
  /\ pc' = [pc EXCEPT ![c] = "idle"]
  /\ task' = [task EXCEPT ![c] = None]
  /\ heldToken' = [heldToken EXCEPT ![c] = NoToken]
  /\ UNCHANGED frozen

\* claim(), first statement: take back this job's own expired lease.
Reap(c) ==
  LET j == task[c] IN
  /\ Running(c, "reap")
  /\ IF Expired(j)
     THEN /\ status' = [status EXCEPT ![j] = Released(j)]
          /\ waitLeft' = [waitLeft EXCEPT ![j] = 0]
          /\ ClearLease(j)
          /\ UNCHANGED attempts
     ELSE UNCHANGED rowVars
  /\ Goto(c, "claim")
  /\ UNCHANGED <<closed, bullVars, ghosts>>

\* The candidate query of claim().  The node's desired version is at least
\* the job's target version (it only grows), so that join never fails here.
Claimable(j) ==
  /\ status[j] = "PENDING"
  /\ ~Exhausted(j)
  /\ waitLeft[j] = 0
  /\ j \in RouteJobs => ~closed[j]

TakeLease(c, j) ==
  /\ status'     = [status EXCEPT ![j] = "PROCESSING"]
  /\ attempts'   = [attempts EXCEPT ![j] = @ + 1]
  /\ waitLeft'   = [waitLeft EXCEPT ![j] = 0]
  /\ leaseOwner' = [leaseOwner EXCEPT ![j] = WorkerId[c]]
  /\ leaseToken' = [leaseToken EXCEPT ![j] = issued + 1]
  /\ leaseLeft'  = [leaseLeft EXCEPT ![j] = LeaseDuration]
  /\ claimant'   = [claimant EXCEPT ![j] = c]
  /\ issued'     = issued + 1

\* claim(), second statement, finds the candidate: the lease is taken.
Claim(c) ==
  LET j == task[c] IN
  /\ Running(c, "claim")
  /\ Claimable(j)
  /\ TakeLease(c, j)
  /\ heldToken' = [heldToken EXCEPT ![c] = issued + 1]
  /\ pc' = [pc EXCEPT ![c] = "complete"]
  /\ UNCHANGED <<task, frozen, closed, bullVars, freezes, errors>>

\* ... or it does not, and a route command checks for a closed activation.
ClaimMisses(c) ==
  /\ Running(c, "claim")
  /\ ~Claimable(task[c])
  /\ Goto(c, IF task[c] \in RouteJobs THEN "close" ELSE "read")
  /\ UNCHANGED <<rowVars, closed, bullVars, ghosts>>

\* Mutant: the update spares only a row in work.
ClosedAnyRow(j) == closed[j] /\ (status[j] # "PROCESSING" \/ Expired(j))

\* Rows the ROUTE_ACTIVATION_CLOSED update fails.
ClosedOpenRow(j) == closed[j] /\ (status[j] = "PENDING" \/ Expired(j))

\* The row that ROUTE_ACTIVATION_CLOSED leaves behind.
CloseRow(j) ==
  /\ status' = [status EXCEPT ![j] = "FAILED"]
  /\ waitLeft' = [waitLeft EXCEPT ![j] = 0]
  /\ ClearLease(j)
  /\ UNCHANGED attempts

\* claim(), third statement, for route commands.
CloseRoute(c) ==
  LET j == task[c] IN
  /\ Running(c, "close")
  /\ IF ClosedOpenRow(j)
     THEN /\ CloseRow(j)
          /\ Resolve(c, j)
          /\ Leave(c)
     ELSE /\ UNCHANGED <<rowVars, bullVars>>
          /\ Goto(c, "read")
  /\ UNCHANGED <<closed, ghosts>>

\* Mutant: a row another execution is working on counts as done.
SettledOrTaken(j) == status[j] \in Terminal \cup {"PROCESSING"}

\* claim() answers 'already-completed' or 'terminal'.
Settled(j) == status[j] \in Terminal

\* claim(), last statement: the row decides between success and "temporarily
\* unavailable", which process() turns into a rejection.
Read(c) ==
  /\ Running(c, "read")
  /\ IF Settled(task[c]) THEN Resolve(c, task[c]) ELSE Reject(c, task[c])
  /\ Leave(c)
  /\ UNCHANGED <<rowVars, closed, ghosts>>

\* Mutant: the slots of one process share its name.
OwnsLeaseByName(c, j) ==
  /\ status[j] = "PROCESSING"
  /\ leaseOwner[j] = WorkerId[c]
  /\ leaseLeft[j] > 0

\* The fence of complete() and retry().
OwnsLease(c, j) ==
  /\ status[j] = "PROCESSING"
  /\ leaseOwner[j] = WorkerId[c]
  /\ leaseToken[j] = heldToken[c]
  /\ leaseLeft[j] > 0

MarkSucceeded(c, j) ==
  /\ OwnsLease(c, j)
  /\ status' = [status EXCEPT ![j] = "SUCCEEDED"]
  /\ ClearLease(j)
  /\ UNCHANGED <<attempts, waitLeft>>

\* complete() updates the row: process() resolves.
Complete(c) ==
  /\ Running(c, "complete")
  /\ MarkSucceeded(c, task[c])
  /\ Resolve(c, task[c])
  /\ Leave(c)
  /\ UNCHANGED <<closed, ghosts>>

\* complete() matches no row: "completion was fenced", on to the catch block.
CompleteFenced(c) ==
  /\ Running(c, "complete")
  /\ ~OwnsLease(c, task[c])
  /\ Goto(c, "retry")
  /\ UNCHANGED <<rowVars, closed, bullVars, ghosts>>

\* complete() rejects, before or after its commit.
CompleteThrows(c) ==
  /\ Running(c, "complete")
  /\ errors < MaxErrors
  /\ errors' = errors + 1
  /\ MarkSucceeded(c, task[c]) \/ UNCHANGED rowVars
  /\ Goto(c, "retry")
  /\ UNCHANGED <<closed, bullVars, issued, claimant, freezes>>

ReleaseLease(c, j) ==
  IF OwnsLease(c, j)
  THEN /\ status' = [status EXCEPT ![j] = Released(j)]
       /\ waitLeft' = [waitLeft EXCEPT ![j] = IF Exhausted(j) THEN 0 ELSE RetryDelay]
       /\ ClearLease(j)
       /\ UNCHANGED attempts
  ELSE UNCHANGED rowVars

\* The catch block: retry(), then the error is thrown on to BullMQ.
RetryRow(c) ==
  /\ Running(c, "retry")
  /\ ReleaseLease(c, task[c])
  /\ Reject(c, task[c])
  /\ Leave(c)
  /\ UNCHANGED <<closed, ghosts>>

\* retry() rejects before its commit: the lease is left to run out.
RetryThrows(c) ==
  /\ Running(c, "retry")
  /\ errors < MaxErrors
  /\ errors' = errors + 1
  /\ Reject(c, task[c])
  /\ Leave(c)
  /\ UNCHANGED <<rowVars, closed, issued, claimant, freezes>>

\* A statement of claim() rejects, an update perhaps after its commit:
\* process() rejects without a token.
ClaimThrows(c) ==
  LET j == task[c] IN
  /\ pc[c] \in {"reap", "claim", "close", "read"} /\ ~frozen[c]
  /\ errors < MaxErrors
  /\ errors' = errors + 1
  /\ \/ pc[c] = "claim" /\ Claimable(j) /\ TakeLease(c, j)
     \/ pc[c] = "close" /\ ClosedOpenRow(j) /\ CloseRow(j) /\ UNCHANGED <<issued, claimant>>
     \/ UNCHANGED <<rowVars, issued, claimant>>
  /\ Reject(c, j)
  /\ Leave(c)
  /\ UNCHANGED <<closed, freezes>>

-----------------------------------------------------------------------------
(* Environment: frozen and dying processes, route changes, time.           *)

\* The event loop of an execution stops, or its process dies unnoticed; its
\* lock was renewed at some moment within the last LeaseDuration.
Freeze(c) ==
  /\ pc[c] # "idle" /\ ~frozen[c]
  /\ freezes < MaxFreezes
  /\ freezes' = freezes + 1
  /\ frozen' = [frozen EXCEPT ![c] = TRUE]
  /\ \E l \in 1..LeaseDuration :
       lockLeft' = IF locker[task[c]] = c THEN [lockLeft EXCEPT ![task[c]] = l] ELSE lockLeft
  /\ UNCHANGED <<rowVars, closed, bull, made, stalls, locker, delayLeft,
                 pc, task, heldToken, issued, claimant, errors>>

\* The execution goes on, as the holder of the lock or, if that has run out,
\* as a stale one.
Thaw(c) ==
  LET j == task[c] IN
  /\ frozen[c]
  /\ frozen' = [frozen EXCEPT ![c] = FALSE]
  /\ locker' = IF locker[j] = c /\ lockLeft[j] = 0 THEN [locker EXCEPT ![j] = None] ELSE locker
  /\ lockLeft' = IF locker[j] = c THEN [lockLeft EXCEPT ![j] = 0] ELSE lockLeft
  /\ UNCHANGED <<rowVars, closed, bull, made, stalls, delayLeft, pc, task, heldToken, ghosts>>

\* The process is gone; the supervisor's replacement offers the slot again.
Die(c) ==
  /\ frozen[c]
  /\ frozen' = [frozen EXCEPT ![c] = FALSE]
  /\ pc' = [pc EXCEPT ![c] = "idle"]
  /\ task' = [task EXCEPT ![c] = None]
  /\ heldToken' = [heldToken EXCEPT ![c] = NoToken]
  /\ locker' = [j \in Jobs |-> IF locker[j] = c THEN None ELSE locker[j]]
  /\ UNCHANGED <<rowVars, closed, bull, made, stalls, lockLeft, delayLeft, ghosts>>

\* The endpoint or profile leaves ACTIVE, or the route is published anew.
CloseActivation(j) ==
  /\ j \in RouteJobs /\ ~closed[j]
  /\ closed' = [closed EXCEPT ![j] = TRUE]
  /\ UNCHANGED <<rowVars, bullVars, slotVars, ghosts>>

Elapse(left) == [j \in Jobs |-> IF left[j] > 0 THEN left[j] - 1 ELSE 0]

\* A healthy execution renews its lock; only a lapsing one runs down.
Tick ==
  /\ \E j \in Jobs : \/ leaseLeft[j] > 0 \/ waitLeft[j] > 0 \/ delayLeft[j] > 0
                     \/ Lapsing(j) /\ lockLeft[j] > 0
  /\ leaseLeft' = Elapse(leaseLeft)
  /\ waitLeft'  = Elapse(waitLeft)
  /\ delayLeft' = Elapse(delayLeft)
  /\ lockLeft'  = [j \in Jobs |-> IF Lapsing(j) THEN Elapse(lockLeft)[j] ELSE lockLeft[j]]
  /\ UNCHANGED <<status, attempts, leaseOwner, leaseToken, closed,
                 bull, made, stalls, locker, slotVars, ghosts>>

-----------------------------------------------------------------------------
Init ==
  /\ status     = [j \in Jobs |-> "PENDING"]
  /\ attempts   = [j \in Jobs |-> 0]
  /\ waitLeft   = [j \in Jobs |-> 0]
  /\ leaseOwner = [j \in Jobs |-> None]
  /\ leaseToken = [j \in Jobs |-> NoToken]
  /\ leaseLeft  = [j \in Jobs |-> 0]
  /\ closed     = [j \in Jobs |-> FALSE]
  /\ bull       = [j \in Jobs |-> "absent"]
  /\ made       = [j \in Jobs |-> 0]
  /\ stalls     = [j \in Jobs |-> 0]
  /\ locker     = [j \in Jobs |-> None]
  /\ lockLeft   = [j \in Jobs |-> 0]
  /\ delayLeft  = [j \in Jobs |-> 0]
  /\ pc         = [c \in Slots |-> "idle"]
  /\ task       = [c \in Slots |-> None]
  /\ heldToken  = [c \in Slots |-> NoToken]
  /\ frozen     = [c \in Slots |-> FALSE]
  /\ issued = 0 /\ claimant = [j \in Jobs |-> None]
  /\ freezes = 0 /\ errors = 0

Process(c) ==
  \/ Reap(c) \/ Claim(c) \/ ClaimMisses(c) \/ ClaimThrows(c)
  \/ CloseRoute(c) \/ Read(c)
  \/ Complete(c) \/ CompleteFenced(c) \/ CompleteThrows(c)
  \/ RetryRow(c) \/ RetryThrows(c)

Next ==
  \/ \E j \in Jobs : Enqueue(j) \/ Promote(j) \/ RecoverStalled(j) \/ CloseActivation(j)
  \/ \E c \in Slots : \/ \E j \in Jobs : Deliver(c, j)
                      \/ Process(c)
                      \/ Freeze(c) \/ Thaw(c) \/ Die(c)
  \/ ReclaimExpiredLeases
  \/ Tick

Spec == Init /\ [][Next]_vars

\* Loops keep running, BullMQ keeps promoting and recovering, time passes,
\* and a frozen process resumes or is replaced.
FairSpec ==
  /\ Spec
  /\ WF_vars(Tick) /\ WF_vars(ReclaimExpiredLeases)
  /\ \A c \in Slots : WF_vars(Process(c)) /\ WF_vars(Thaw(c) \/ Die(c))
  /\ \A j \in Jobs : /\ WF_vars(Promote(j)) /\ WF_vars(RecoverStalled(j))
                     /\ WF_vars(\E c \in Slots : Deliver(c, j))

-----------------------------------------------------------------------------
(* Properties.                                                             *)

TypeOK ==
  /\ status     \in [Jobs -> Statuses]
  /\ attempts   \in [Jobs -> Nat]
  /\ waitLeft   \in [Jobs -> Nat]
  /\ leaseOwner \in [Jobs -> {WorkerId[c] : c \in Slots} \cup {None}]
  /\ leaseToken \in [Jobs -> Nat]
  /\ leaseLeft  \in [Jobs -> Nat]
  /\ closed     \in [Jobs -> BOOLEAN]
  /\ bull       \in [Jobs -> BullState]
  /\ made       \in [Jobs -> Nat]
  /\ stalls     \in [Jobs -> Nat]
  /\ locker     \in [Jobs -> Slots \cup {None}]
  /\ lockLeft   \in [Jobs -> Nat]
  /\ delayLeft  \in [Jobs -> Nat]
  /\ pc         \in [Slots -> Steps]
  /\ task       \in [Slots -> Jobs \cup {None}]
  /\ heldToken  \in [Slots -> Nat]
  /\ frozen     \in [Slots -> BOOLEAN]
  /\ issued     \in Nat
  /\ claimant   \in [Jobs -> Slots \cup {None}]
  /\ freezes \in Nat /\ errors \in Nat

\* BullMQ's completed job means a settled row: process() resolves only for
\* SUCCEEDED or FAILED, so no delivery is dropped while work is left.
CompletedIsSettled == \A j \in Jobs : bull[j] = "completed" => status[j] \in Terminal

\* BullMQ gives a command up only when the row has no attempt left either.
\* MaxAttempts + 1 deliveries, a backoff no shorter than the row lease and
\* MaxAttempts stalls are meant to guarantee it; a row that BullMQ abandons
\* with attempts left can never be claimed again.
NeverStranded ==
  \A j \in Jobs : bull[j] = "failed" => status[j] \in Terminal \/ Exhausted(j)

\* SUCCEEDED and FAILED are final, as the triggers on NodeSyncJob demand, even
\* against stale executions and the ROUTE_ACTIVATION_CLOSED update.
TerminalStays ==
  [][\A j \in Jobs : status[j] \in Terminal => status'[j] = status[j]]_vars

\* While a row lease runs, only the execution that claimed the row moves it
\* out of PROCESSING; the slots of one process share a workerId and differ
\* in the token alone.
FencedWrites ==
  [][\A j \in Jobs :
       status[j] = "PROCESSING" /\ leaseLeft[j] > 0 /\ status'[j] # "PROCESSING"
         => \E c \in Slots : /\ claimant[j] = c
                             /\ task[c] = j
                             /\ pc[c] \in {"complete", "retry"}
                             /\ pc'[c] # pc[c]]_vars

\* Every command handed to BullMQ settles its row.
JobSettles == \A j \in Jobs : bull[j] = "waiting" ~> status[j] \in Terminal
=============================================================================
