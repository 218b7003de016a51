--------------------------- MODULE NodeSyncProofs ---------------------------
(***************************************************************************)
(* Proofs about NodeSync, for any number of commands and executions, any   *)
(* attempt budget, lease and backoff, and any number of freezes, deaths    *)
(* and failing statements.                                                 *)
(***************************************************************************)
EXTENDS NodeSync, TLAPS

-----------------------------------------------------------------------------
(* Type correctness.                                                       *)

\* An execution that has started works on a command, and one past claim()
\* holds a token that was issued; only a started execution is ever frozen.
HeldTask ==
  \A c \in Slots :
    /\ pc[c] # "idle" => task[c] \in Jobs
    /\ pc[c] \in {"complete", "retry"} => heldToken[c] \in 1..issued
    /\ frozen[c] => pc[c] # "idle"

Types == TypeOK /\ HeldTask

\* The empty queue and the new rows have their types.
LEMMA TypeInit == Init => Types
  BY NodeSyncAssumption
     DEF Init, Types, TypeOK, HeldTask, Statuses, BullState, Steps, NoToken

\* The conjuncts of TypeOK about the row.
RowTypeOK ==
  /\ status \in [Jobs -> Statuses] /\ attempts \in [Jobs -> Nat]
  /\ waitLeft \in [Jobs -> Nat]
  /\ leaseOwner \in [Jobs -> {WorkerId[c] : c \in Slots} \cup {None}]
  /\ leaseToken \in [Jobs -> Nat] /\ leaseLeft \in [Jobs -> Nat]

\* The conjuncts of TypeOK about BullMQ's job.
BullTypeOK ==
  /\ bull \in [Jobs -> BullState] /\ made \in [Jobs -> Nat]
  /\ stalls \in [Jobs -> Nat] /\ locker \in [Jobs -> Slots \cup {None}]
  /\ lockLeft \in [Jobs -> Nat] /\ delayLeft \in [Jobs -> Nat]

\* What BullMQ does with a resolved execution keeps its columns' types.
LEMMA ResolveType ==
  ASSUME TypeOK, NEW c \in Slots, NEW j \in Jobs, Resolve(c, j)
  PROVE  BullTypeOK'
  BY DEF TypeOK, BullTypeOK, Resolve, BullState

\* What BullMQ does with a rejected execution keeps its columns' types.
LEMMA RejectType ==
  ASSUME TypeOK, NEW c \in Slots, NEW j \in Jobs, Reject(c, j)
  PROVE  BullTypeOK'
<1>1. CASE locker[j] # c
  BY <1>1 DEF TypeOK, BullTypeOK, Reject, bullVars
<1>2. CASE locker[j] = c
  BY <1>2, NodeSyncAssumption DEF TypeOK, BullTypeOK, Reject, BullState, Deliveries
<1>3. QED
  BY <1>1, <1>2

\* Every statement, every step of BullMQ, every freeze, death and tick
\* preserves the types and the shape of running executions.
LEMMA TypeNext == Types /\ [Next]_vars => Types'
<1> SUFFICES ASSUME TypeOK, HeldTask, [Next]_vars
             PROVE  TypeOK' /\ HeldTask'
  BY DEF Types
<1> USE NodeSyncAssumption DEF TypeOK, HeldTask, Statuses, BullState, Steps, NoToken
<1>1. ASSUME NEW j \in Jobs, Enqueue(j) PROVE TypeOK' /\ HeldTask'
  BY <1>1 DEF Enqueue, rowVars, slotVars, ghosts
<1>2. ASSUME NEW j \in Jobs, Promote(j) PROVE TypeOK' /\ HeldTask'
  BY <1>2 DEF Promote, rowVars, slotVars, ghosts
<1>3. ASSUME NEW j \in Jobs, RecoverStalled(j) PROVE TypeOK' /\ HeldTask'
  BY <1>3 DEF RecoverStalled, rowVars, slotVars, ghosts
<1>4. ASSUME NEW j \in Jobs, CloseActivation(j) PROVE TypeOK' /\ HeldTask'
  BY <1>4 DEF CloseActivation, rowVars, bullVars, slotVars, ghosts
<1>5. ASSUME NEW c \in Slots, NEW j \in Jobs, Deliver(c, j) PROVE TypeOK' /\ HeldTask'
  BY <1>5 DEF Deliver, rowVars, ghosts
<1>6. ASSUME NEW c \in Slots, Reap(c) PROVE TypeOK' /\ HeldTask'
  BY <1>6 DEF Reap, Running, Goto, ClearLease, Released, Expired, rowVars, bullVars, ghosts
<1>7. ASSUME NEW c \in Slots, Claim(c) PROVE TypeOK' /\ HeldTask'
  BY <1>7 DEF Claim, Running, TakeLease, bullVars
<1>8. ASSUME NEW c \in Slots, ClaimMisses(c) PROVE TypeOK' /\ HeldTask'
  BY <1>8 DEF ClaimMisses, Running, Goto, rowVars, bullVars, ghosts
<1>9. ASSUME NEW c \in Slots, ClaimThrows(c) PROVE TypeOK' /\ HeldTask'
  <2>1. Reject(c, task[c]) /\ task[c] \in Jobs
    BY <1>9 DEF ClaimThrows
  <2>2. BullTypeOK'
    BY <2>1, RejectType
  <2>3. RowTypeOK' /\ issued' \in Nat /\ claimant' \in [Jobs -> Slots \cup {None}]
    BY <1>9, <2>1 DEF ClaimThrows, CloseRow, ClearLease, ClosedOpenRow, TakeLease, rowVars, RowTypeOK
  <2>4. TypeOK'
    BY <1>9, <2>2, <2>3 DEF ClaimThrows, Leave, RowTypeOK, BullTypeOK
  <2>5. HeldTask'
    BY <1>9, <2>1 DEF ClaimThrows, CloseRow, ClearLease, ClosedOpenRow, TakeLease, Leave
  <2>6. QED
    BY <2>4, <2>5
<1>10. ASSUME NEW c \in Slots, CloseRoute(c) PROVE TypeOK' /\ HeldTask'
  <2>1. CASE ClosedOpenRow(task[c])
    <3>1. Resolve(c, task[c]) /\ task[c] \in Jobs
      BY <1>10, <2>1 DEF CloseRoute, CloseRow, Running
    <3>2. BullTypeOK'
      BY <3>1, ResolveType
    <3>3. RowTypeOK'
      BY <1>10, <2>1, <3>1 DEF CloseRoute, CloseRow, ClearLease, RowTypeOK
    <3>4. TypeOK'
      BY <1>10, <2>1, <3>2, <3>3 DEF CloseRoute, CloseRow, Leave, ghosts, RowTypeOK, BullTypeOK
    <3>5. HeldTask'
      BY <1>10, <2>1, <3>1 DEF CloseRoute, CloseRow, Leave, Running, ghosts
    <3>6. QED
      BY <3>4, <3>5
  <2>2. CASE ~ClosedOpenRow(task[c])
    BY <1>10, <2>2 DEF CloseRoute, CloseRow, Goto, Running, rowVars, bullVars, ghosts
  <2>3. QED
    BY <2>1, <2>2
<1>11. ASSUME NEW c \in Slots, Read(c) PROVE TypeOK' /\ HeldTask'
  <2>1. task[c] \in Jobs
    BY <1>11 DEF Read, Running
  <2>2. BullTypeOK'
    BY <1>11, <2>1, ResolveType, RejectType DEF Read
  <2>3. TypeOK'
    BY <1>11, <2>2 DEF Read, Leave, rowVars, ghosts, Running, BullTypeOK
  <2>4. HeldTask'
    BY <1>11, <2>2 DEF Read, Leave, rowVars, ghosts, Running
  <2>5. QED
    BY <2>3, <2>4
<1>12. ASSUME NEW c \in Slots, Complete(c) PROVE TypeOK' /\ HeldTask'
  <2>1. task[c] \in Jobs
    BY <1>12 DEF Complete, Running
  <2>2. BullTypeOK'
    BY <1>12, <2>1, ResolveType DEF Complete
  <2>3. TypeOK'
    BY <1>12, <2>1, <2>2 DEF Complete, MarkSucceeded, ClearLease, Leave, ghosts, Running, BullTypeOK
  <2>4. HeldTask'
    BY <1>12, <2>1, <2>2 DEF Complete, MarkSucceeded, ClearLease, Leave, ghosts, Running
  <2>5. QED
    BY <2>3, <2>4
<1>13. ASSUME NEW c \in Slots, CompleteFenced(c) PROVE TypeOK' /\ HeldTask'
  BY <1>13 DEF CompleteFenced, Running, Goto, rowVars, bullVars, ghosts
<1>14. ASSUME NEW c \in Slots, CompleteThrows(c) PROVE TypeOK' /\ HeldTask'
  BY <1>14 DEF CompleteThrows, MarkSucceeded, ClearLease, Running, Goto, rowVars, bullVars
<1>15. ASSUME NEW c \in Slots, RetryRow(c) PROVE TypeOK' /\ HeldTask'
  <2>1. task[c] \in Jobs
    BY <1>15 DEF RetryRow, Running
  <2>2. BullTypeOK'
    BY <1>15, <2>1, RejectType DEF RetryRow
  <2>3. RowTypeOK'
    BY <1>15, <2>1 DEF RetryRow, ReleaseLease, Released, ClearLease, rowVars, RowTypeOK
  <2>4. TypeOK'
    BY <1>15, <2>2, <2>3 DEF RetryRow, Leave, ghosts, RowTypeOK, BullTypeOK
  <2>5. HeldTask'
    BY <1>15, <2>1 DEF RetryRow, Leave, ghosts, Running
  <2>6. QED
    BY <2>4, <2>5
<1>16. ASSUME NEW c \in Slots, RetryThrows(c) PROVE TypeOK' /\ HeldTask'
  <2>1. task[c] \in Jobs
    BY <1>16 DEF RetryThrows, Running
  <2>2. BullTypeOK'
    BY <1>16, <2>1, RejectType DEF RetryThrows
  <2>3. TypeOK'
    BY <1>16, <2>2 DEF RetryThrows, Leave, rowVars, Running, BullTypeOK
  <2>4. HeldTask'
    BY <1>16, <2>2 DEF RetryThrows, Leave, rowVars, Running
  <2>5. QED
    BY <2>3, <2>4
<1>17. ASSUME NEW c \in Slots, Freeze(c) PROVE TypeOK' /\ HeldTask'
  BY <1>17 DEF Freeze, rowVars
<1>18. ASSUME NEW c \in Slots, Thaw(c) PROVE TypeOK' /\ HeldTask'
  BY <1>18 DEF Thaw, rowVars, ghosts
<1>19. ASSUME NEW c \in Slots, Die(c) PROVE TypeOK' /\ HeldTask'
  BY <1>19 DEF Die, rowVars, ghosts
<1>20. ASSUME ReclaimExpiredLeases PROVE TypeOK' /\ HeldTask'
  BY <1>20 DEF ReclaimExpiredLeases, Released, bullVars, slotVars, ghosts
<1>21. ASSUME Tick PROVE TypeOK' /\ HeldTask'
  BY <1>21 DEF Tick, Elapse, slotVars, ghosts
<1>22. CASE UNCHANGED vars
  BY <1>22 DEF vars, rowVars, bullVars, slotVars, ghosts
<1>23. QED
  BY <1>1, <1>2, <1>3, <1>4, <1>5, <1>6, <1>7, <1>8, <1>9, <1>10, <1>11, <1>12, <1>13,
     <1>14, <1>15, <1>16, <1>17, <1>18, <1>19, <1>20, <1>21, <1>22 DEF Next, Process

\* Type correctness of the node-sync queue for every value of the constants.
THEOREM TypeCorrect == Spec => []TypeOK
<1>1. Spec => []Types
  BY TypeInit, TypeNext, PTL DEF Spec
<1>2. Types => TypeOK
  BY DEF Types
<1>3. QED
  BY <1>1, <1>2, PTL

-----------------------------------------------------------------------------
(* Rows that are settled stay settled.                                     *)

\* A step may settle a row, and never touches the status of a settled one.
RowsStay == \A j \in Jobs : status[j] \in Terminal => status'[j] = status[j]

\* Each statement that writes a status asks for PENDING or PROCESSING first.
LEMMA RowsStayNext == Types /\ [Next]_vars => RowsStay
<1> SUFFICES ASSUME TypeOK, HeldTask, [Next]_vars
             PROVE  RowsStay
  BY DEF Types
<1> USE DEF RowsStay, Terminal
<1>0. status \in [Jobs -> Statuses]
  BY DEF TypeOK
<1>1. ASSUME UNCHANGED status PROVE RowsStay
  BY <1>1
<1>2. ASSUME NEW c \in Slots, Reap(c) PROVE RowsStay
  BY <1>0, <1>2 DEF Reap, Expired, rowVars
<1>3. ASSUME NEW c \in Slots, Claim(c) PROVE RowsStay
  BY <1>0, <1>3 DEF Claim, Claimable, TakeLease
<1>4. ASSUME NEW c \in Slots, ClaimThrows(c) PROVE RowsStay
  BY <1>0, <1>4 DEF ClaimThrows, CloseRow, ClearLease, ClosedOpenRow, Expired, Claimable, TakeLease, rowVars
<1>5. ASSUME NEW c \in Slots, CloseRoute(c) PROVE RowsStay
  BY <1>0, <1>5 DEF CloseRoute, CloseRow, ClosedOpenRow, Expired, rowVars
<1>6. ASSUME NEW c \in Slots, Complete(c) PROVE RowsStay
  BY <1>0, <1>6 DEF Complete, MarkSucceeded, OwnsLease
<1>7. ASSUME NEW c \in Slots, CompleteThrows(c) PROVE RowsStay
  BY <1>0, <1>7 DEF CompleteThrows, MarkSucceeded, OwnsLease, rowVars
<1>8. ASSUME NEW c \in Slots, RetryRow(c) PROVE RowsStay
  BY <1>0, <1>8 DEF RetryRow, ReleaseLease, OwnsLease, rowVars
<1>9. ASSUME ReclaimExpiredLeases PROVE RowsStay
  BY <1>0, <1>9 DEF ReclaimExpiredLeases, Expired
<1>10. QED
  BY <1>1, <1>2, <1>3, <1>4, <1>5, <1>6, <1>7, <1>8, <1>9
     DEF Next, Process, Enqueue, Promote, RecoverStalled, CloseActivation, Deliver, ClaimMisses,
         Read, CompleteFenced, RetryThrows, Freeze, Thaw, Die, Tick, vars, rowVars

\* SUCCEEDED and FAILED are final for every number of stale executions,
\* whichever statements of claim(), complete() and retry() they still run.
THEOREM TerminalStaysHolds == Spec => TerminalStays
<1>1. Spec => []Types
  BY TypeInit, TypeNext, PTL DEF Spec
<1>2. Types /\ [Next]_vars => [RowsStay]_vars
  BY RowsStayNext
<1>3. Spec => [][RowsStay]_vars
  BY <1>1, <1>2, PTL DEF Spec
<1>4. QED
  BY <1>3 DEF TerminalStays, RowsStay

-----------------------------------------------------------------------------
(* BullMQ completes a command only for a settled row.                      *)

\* A resolved execution completes its own command at most.
LEMMA ResolveCompletes ==
  ASSUME TypeOK, NEW c \in Slots, NEW j \in Jobs, Resolve(c, j),
         NEW k \in Jobs, bull'[k] = "completed"
  PROVE  bull[k] = "completed" \/ k = j
  BY DEF TypeOK, Resolve

\* A rejected execution completes nothing.
LEMMA RejectCompletes ==
  ASSUME TypeOK, NEW c \in Slots, NEW j \in Jobs, Reject(c, j),
         NEW k \in Jobs, bull'[k] = "completed"
  PROVE  bull[k] = "completed"
  BY DEF TypeOK, Reject, bullVars

\* Any step that completes a command leaves its row settled.
LEMMA CompletedNext ==
  Types /\ CompletedIsSettled /\ [Next]_vars => CompletedIsSettled'
<1> SUFFICES ASSUME TypeOK, HeldTask, CompletedIsSettled, [Next]_vars,
                    NEW k \in Jobs, bull'[k] = "completed"
             PROVE  status'[k] \in Terminal
  BY DEF Types, CompletedIsSettled
<1>0. RowsStay
  BY RowsStayNext DEF Types
<1>1. ASSUME bull[k] = "completed" PROVE status'[k] \in Terminal
  BY <1>0, <1>1 DEF CompletedIsSettled, RowsStay
<1>2. ASSUME NEW c \in Slots, CloseRoute(c) PROVE status'[k] \in Terminal
  <2>1. task[c] \in Jobs
    BY <1>2 DEF CloseRoute, CloseRow, Running, HeldTask
  <2>2. CASE ClosedOpenRow(task[c])
    <3>1. Resolve(c, task[c]) /\ status' = [status EXCEPT ![task[c]] = "FAILED"]
      BY <1>2, <2>2 DEF CloseRoute, CloseRow
    <3>2. status'[task[c]] \in Terminal
      BY <2>1, <3>1 DEF TypeOK, Terminal
    <3>3. bull[k] = "completed" \/ k = task[c]
      BY <2>1, <3>1, ResolveCompletes
    <3>4. QED
      BY <1>1, <3>2, <3>3
  <2>3. CASE ~ClosedOpenRow(task[c])
    BY <1>1, <1>2, <2>3 DEF CloseRoute, CloseRow, bullVars
  <2>4. QED
    BY <2>2, <2>3
<1>3. ASSUME NEW c \in Slots, Read(c) PROVE status'[k] \in Terminal
  <2>1. task[c] \in Jobs /\ UNCHANGED status
    BY <1>3 DEF Read, Running, HeldTask, rowVars
  <2>2. CASE Settled(task[c])
    <3>1. bull[k] = "completed" \/ k = task[c]
      BY <1>3, <2>1, <2>2, ResolveCompletes DEF Read
    <3>2. QED
      BY <1>1, <2>1, <2>2, <3>1 DEF Settled
  <2>3. CASE ~Settled(task[c])
    BY <1>1, <1>3, <2>1, <2>3, RejectCompletes DEF Read
  <2>4. QED
    BY <2>2, <2>3
<1>4. ASSUME NEW c \in Slots, Complete(c) PROVE status'[k] \in Terminal
  <2>1. task[c] \in Jobs /\ Resolve(c, task[c])
    BY <1>4 DEF Complete, Running, HeldTask
  <2>2. status'[task[c]] \in Terminal
    BY <1>4, <2>1 DEF Complete, MarkSucceeded, TypeOK, Terminal
  <2>3. bull[k] = "completed" \/ k = task[c]
    BY <2>1, ResolveCompletes
  <2>4. QED
    BY <1>1, <2>2, <2>3
<1>5. ASSUME NEW c \in Slots, ClaimThrows(c) PROVE status'[k] \in Terminal
  <2>1. task[c] \in Jobs /\ Reject(c, task[c])
    BY <1>5 DEF ClaimThrows, HeldTask
  <2>2. QED
    BY <1>1, <2>1, RejectCompletes
<1>6. ASSUME NEW c \in Slots, RetryRow(c) \/ RetryThrows(c) PROVE status'[k] \in Terminal
  <2>1. task[c] \in Jobs /\ Reject(c, task[c])
    BY <1>6 DEF RetryRow, RetryThrows, Running, HeldTask
  <2>2. QED
    BY <1>1, <2>1, RejectCompletes
<1>7. ASSUME NEW j \in Jobs, Enqueue(j) \/ Promote(j) \/ RecoverStalled(j) \/ \E c \in Slots : Deliver(c, j)
      PROVE  bull[k] = "completed"
  BY <1>7 DEF Enqueue, Promote, RecoverStalled, Deliver, TypeOK
<1>8. ASSUME UNCHANGED bull PROVE status'[k] \in Terminal
  BY <1>1, <1>8
<1>9. QED
  BY <1>1, <1>2, <1>3, <1>4, <1>5, <1>6, <1>7, <1>8
     DEF Next, Process, CloseActivation, Reap, Claim, ClaimMisses, CompleteFenced, CompleteThrows,
         Freeze, Thaw, Die, ReclaimExpiredLeases, Tick, vars, bullVars

\* No command is completed in BullMQ while its row is open, however many
\* executions, freezes and failing statements there are.
THEOREM CompletedIsSettledHolds == Spec => []CompletedIsSettled
<1>1. Init => CompletedIsSettled
  BY DEF Init, CompletedIsSettled
<1>2. QED
  BY <1>1, TypeInit, TypeNext, CompletedNext, PTL DEF Spec

-----------------------------------------------------------------------------
(* The fence.  A token a row and an execution share belongs to that        *)
(* execution's claim of that row: tokens are never issued twice, and one   *)
(* whose claim() rejected after its commit is held by nobody.              *)

TokensNameClaims ==
  /\ \A j \in Jobs : leaseToken[j] <= issued
  /\ \A c \in Slots, j \in Jobs :
       pc[c] \in {"complete", "retry"} /\ leaseToken[j] = heldToken[c]
         => task[c] = j /\ claimant[j] = c

\* The inductive invariant of the node-sync queue.
IndInv == Types /\ TokensNameClaims /\ CompletedIsSettled

\* Nothing is claimed at first.
LEMMA TokensInit == Init => TokensNameClaims
  BY DEF Init, TokensNameClaims, NoToken

\* Only Claim hands a token to an execution, and that token is new.
LEMMA TokensNext == Types /\ TokensNameClaims /\ [Next]_vars => TokensNameClaims'
<1> SUFFICES ASSUME TypeOK, HeldTask, TokensNameClaims, [Next]_vars
             PROVE  TokensNameClaims'
  BY DEF Types
<1> USE DEF TokensNameClaims, HeldTask, NoToken
<1>0. /\ leaseToken \in [Jobs -> Nat] /\ heldToken \in [Slots -> Nat] /\ issued \in Nat
      /\ claimant \in [Jobs -> Slots \cup {None}] /\ pc \in [Slots -> Steps]
      /\ task \in [Slots -> Jobs \cup {None}]
  BY DEF TypeOK
<1>1. ASSUME UNCHANGED <<leaseToken, issued, pc, heldToken, task, claimant>> PROVE TokensNameClaims'
  BY <1>1
<1>2. ASSUME NEW c \in Slots, NEW j \in Jobs, Deliver(c, j) PROVE TokensNameClaims'
  BY <1>0, <1>2 DEF Deliver, rowVars, ghosts
<1>3. ASSUME NEW c \in Slots, Reap(c) PROVE TokensNameClaims'
  BY <1>0, <1>3 DEF Reap, Running, Goto, ClearLease, rowVars, ghosts
<1>4. ASSUME NEW c \in Slots, Claim(c) PROVE TokensNameClaims'
  BY <1>0, <1>4 DEF Claim, Running, TakeLease
<1>5. ASSUME NEW c \in Slots, ClaimThrows(c) PROVE TokensNameClaims'
  BY <1>0, <1>5 DEF ClaimThrows, CloseRow, ClearLease, ClosedOpenRow, TakeLease, Leave, rowVars
<1>6. ASSUME NEW c \in Slots, ClaimMisses(c) PROVE TokensNameClaims'
  BY <1>0, <1>6 DEF ClaimMisses, Running, Goto, rowVars, ghosts
<1>7. ASSUME NEW c \in Slots, CloseRoute(c) PROVE TokensNameClaims'
  BY <1>0, <1>7 DEF CloseRoute, CloseRow, Running, Goto, Leave, ClearLease, rowVars, ghosts
<1>8. ASSUME NEW c \in Slots, Read(c) PROVE TokensNameClaims'
  BY <1>0, <1>8 DEF Read, Leave, rowVars, ghosts
<1>9. ASSUME NEW c \in Slots, Complete(c) PROVE TokensNameClaims'
  BY <1>0, <1>9 DEF Complete, MarkSucceeded, ClearLease, Leave, Running, ghosts
<1>10. ASSUME NEW c \in Slots, CompleteFenced(c) PROVE TokensNameClaims'
  BY <1>0, <1>10 DEF CompleteFenced, Running, Goto, rowVars, ghosts
<1>11. ASSUME NEW c \in Slots, CompleteThrows(c) PROVE TokensNameClaims'
  BY <1>0, <1>11 DEF CompleteThrows, MarkSucceeded, ClearLease, Running, Goto, rowVars
<1>12. ASSUME NEW c \in Slots, RetryRow(c) PROVE TokensNameClaims'
  BY <1>0, <1>12 DEF RetryRow, ReleaseLease, ClearLease, Leave, Running, rowVars, ghosts
<1>13. ASSUME NEW c \in Slots, RetryThrows(c) PROVE TokensNameClaims'
  BY <1>0, <1>13 DEF RetryThrows, Leave, rowVars
<1>14. ASSUME NEW c \in Slots, Die(c) PROVE TokensNameClaims'
  BY <1>0, <1>14 DEF Die, rowVars, ghosts
<1>15. ASSUME ReclaimExpiredLeases PROVE TokensNameClaims'
  BY <1>0, <1>15 DEF ReclaimExpiredLeases, slotVars, ghosts
<1>16. QED
  BY <1>1, <1>2, <1>3, <1>4, <1>5, <1>6, <1>7, <1>8, <1>9, <1>10, <1>11, <1>12, <1>13, <1>14, <1>15
     DEF Next, Process, Enqueue, Promote, RecoverStalled, CloseActivation, Freeze, Thaw, Tick,
         vars, rowVars, slotVars, ghosts

\* The inductive invariant holds: types, tokens and completed commands.
THEOREM Invariance == Spec => []IndInv
<1>1. Init => IndInv
  BY TypeInit, TokensInit DEF IndInv, Init, CompletedIsSettled
<1>2. IndInv /\ [Next]_vars => IndInv'
  BY TypeNext, TokensNext, CompletedNext DEF IndInv
<1>3. QED
  BY <1>1, <1>2, PTL DEF Spec

\* What FencedWrites says of one step.
Fenced ==
  \A j \in Jobs :
    status[j] = "PROCESSING" /\ leaseLeft[j] > 0 /\ status'[j] # "PROCESSING"
      => \E c \in Slots : /\ claimant[j] = c
                          /\ task[c] = j
                          /\ pc[c] \in {"complete", "retry"}
                          /\ pc'[c] # pc[c]

\* A write that owns the lease is made by the execution whose claim it is.
LEMMA OwnerIsClaimant ==
  ASSUME IndInv, NEW c \in Slots, NEW j \in Jobs, OwnsLease(c, j), pc[c] \in {"complete", "retry"}
  PROVE  claimant[j] = c /\ task[c] = j
  BY DEF IndInv, TokensNameClaims, OwnsLease

\* While a lease runs, no statement but complete() and retry() of its holder
\* moves the row out of PROCESSING.
LEMMA FencedNext == IndInv /\ [Next]_vars => [Fenced]_vars
<1> SUFFICES ASSUME IndInv, [Next]_vars,
                    NEW j \in Jobs, status[j] = "PROCESSING", leaseLeft[j] > 0,
                    status'[j] # "PROCESSING"
             PROVE  \E c \in Slots : /\ claimant[j] = c
                                     /\ task[c] = j
                                     /\ pc[c] \in {"complete", "retry"}
                                     /\ pc'[c] # pc[c]
  BY DEF Fenced
<1>0. /\ TypeOK /\ HeldTask /\ status \in [Jobs -> Statuses] /\ leaseLeft[j] # 0
      /\ pc \in [Slots -> Steps]
  BY DEF IndInv, Types, TypeOK
<1>1. ASSUME NEW c \in Slots, Complete(c) \/ CompleteThrows(c) \/ RetryRow(c)
      PROVE  /\ claimant[j] = c /\ task[c] = j
             /\ pc[c] \in {"complete", "retry"} /\ pc'[c] # pc[c]
  <2>1. task[c] \in Jobs /\ pc[c] \in {"complete", "retry"} /\ pc'[c] # pc[c]
    BY <1>0, <1>1 DEF Complete, CompleteThrows, RetryRow, Running, Leave, Goto, HeldTask
  <2>2. OwnsLease(c, task[c]) /\ j = task[c]
    BY <1>0, <1>1, <2>1
       DEF Complete, CompleteThrows, RetryRow, MarkSucceeded, ReleaseLease, rowVars
  <2>3. QED
    BY <2>1, <2>2, OwnerIsClaimant
<1>2. ASSUME NEW c \in Slots, Reap(c) PROVE FALSE
  BY <1>0, <1>2 DEF Reap, Expired, rowVars
<1>3. ASSUME NEW c \in Slots, Claim(c) \/ ClaimThrows(c) PROVE FALSE
  BY <1>0, <1>3 DEF Claim, ClaimThrows, CloseRow, ClearLease, ClosedOpenRow, Expired, TakeLease, rowVars
<1>4. ASSUME NEW c \in Slots, CloseRoute(c) PROVE FALSE
  BY <1>0, <1>4 DEF CloseRoute, CloseRow, ClosedOpenRow, Expired, rowVars
<1>5. ASSUME ReclaimExpiredLeases PROVE FALSE
  BY <1>0, <1>5 DEF ReclaimExpiredLeases, Expired
<1>6. status' # status
  OBVIOUS
<1>7. QED
  BY <1>1, <1>2, <1>3, <1>4, <1>5, <1>6
     DEF Next, Process, Enqueue, Promote, RecoverStalled, CloseActivation, Deliver, ClaimMisses,
         Read, CompleteFenced, RetryThrows, Freeze, Thaw, Die, Tick, vars, rowVars

\* The fence of complete() and retry() holds for every number of executions
\* that share a worker id, stale or not.
THEOREM FencedWritesHold == Spec => FencedWrites
<1>1. Spec => [][Fenced]_vars
  BY Invariance, FencedNext, PTL DEF Spec
<1>2. QED
  BY <1>1 DEF FencedWrites, Fenced

-----------------------------------------------------------------------------
(* The two budgets.  BullMQ gives a command up after MaxAttempts + 1       *)
(* rejected deliveries or more than MaxAttempts stalls.  Every rejection is *)
(* paid for by a claim of the row or by a failing statement, every stall by *)
(* a freeze.                                                                *)

\* The time before the row can be claimed again.
RowLeft(j) ==
  IF status[j] = "PROCESSING" THEN leaseLeft[j] ELSE IF status[j] = "PENDING" THEN waitLeft[j] ELSE 0

\* The execution that holds the command's lock is at this step.
LockedAt(j, step) == bull[j] = "active" /\ locker[j] # None /\ pc[locker[j]] = step

\* The delivery that is under way, or the next one, may be rejected: the row
\* will not be free in time, or the execution has made its claim already.
Owed(j) ==
  \/ bull[j] \in {"absent", "waiting"} /\ RowLeft(j) > 0
  \/ bull[j] = "delayed" /\ RowLeft(j) > delayLeft[j]
  \/ bull[j] = "active" /\ locker[j] = None /\ RowLeft(j) > 0
  \/ LockedAt(j, "reap") /\ RowLeft(j) > 0
  \/ /\ LockedAt(j, "claim")
     /\ status[j] = "PROCESSING" \/ (status[j] = "PENDING" /\ waitLeft[j] > 0)
  \/ /\ LockedAt(j, "close")
     /\ \/ status[j] = "PROCESSING"
        \/ status[j] = "PENDING" /\ (~closed[j] \/ waitLeft[j] > 0)
  \/ LockedAt(j, "read") /\ status[j] \notin Terminal
  \/ LockedAt(j, "complete") \/ LockedAt(j, "retry")

\* An execution whose complete() was rejected will put the row off once more.
PutsOff(j) == \E c \in Slots : pc[c] = "retry" /\ task[c] = j /\ OwnsLease(c, j)

\* What is owed is covered by claims and failing statements not yet used up.
Paid(j) ==
  /\ made[j] <= attempts[j] + errors
  /\ Owed(j) \/ PutsOff(j) => made[j] + 1 <= attempts[j] + errors
  /\ Owed(j) /\ PutsOff(j) => made[j] + 2 <= attempts[j] + errors

\* Each stall, and the one that is coming, has cost a freeze.
StallsPaid(j) == stalls[j] <= freezes /\ (Lapsing(j) => stalls[j] + 1 <= freezes)

\* The lock of an active command is held by the execution that runs it.
LockHeld(j) ==
  locker[j] # None => bull[j] = "active" /\ task[locker[j]] = j /\ pc[locker[j]] # "idle"

\* The terms of the row; a row open to claims has an attempt left.
RowLimits(j) ==
  /\ waitLeft[j] <= RetryDelay /\ leaseLeft[j] <= LeaseDuration
  /\ status[j] = "PENDING" => attempts[j] < MaxAttempts

\* BullMQ gives up only when one of its own limits is reached.
GivenUp(j) == bull[j] = "failed" => made[j] > MaxAttempts \/ stalls[j] > MaxAttempts

\* The inductive invariant of the budgets.
BudgetInv ==
  /\ IndInv
  /\ errors <= MaxErrors /\ freezes <= MaxFreezes
  /\ \A j \in Jobs : LockHeld(j) /\ RowLimits(j) /\ StallsPaid(j) /\ Paid(j) /\ GivenUp(j)

\* The lock is taken by Deliver, moves with its holder and is given back.
LEMMA LockNext ==
  ASSUME BudgetInv, [Next]_vars, NEW k \in Jobs
  PROVE  LockHeld(k)'
<1>0. /\ TypeOK /\ HeldTask /\ LockHeld(k) /\ \A j \in Jobs : LockHeld(j)
      /\ locker \in [Jobs -> Slots \cup {None}] /\ pc \in [Slots -> Steps] /\ bull \in [Jobs -> BullState]
      /\ task \in [Slots -> Jobs \cup {None}] /\ None \notin Slots /\ frozen \in [Slots -> BOOLEAN]
  BY NodeSyncAssumption DEF BudgetInv, IndInv, Types, TypeOK
<1> USE DEF LockHeld
<1>1. ASSUME UNCHANGED <<bull, locker, pc, task>> PROVE LockHeld(k)'
  BY <1>0, <1>1
<1>2. ASSUME NEW j \in Jobs, Enqueue(j) PROVE LockHeld(k)'
  BY <1>0, <1>2 DEF Enqueue, slotVars
<1>3. ASSUME NEW j \in Jobs, Promote(j) PROVE LockHeld(k)'
  BY <1>0, <1>3 DEF Promote, slotVars
<1>4. ASSUME NEW j \in Jobs, RecoverStalled(j) PROVE LockHeld(k)'
  BY <1>0, <1>4 DEF RecoverStalled, slotVars
<1>5. ASSUME NEW c \in Slots, NEW j \in Jobs, Deliver(c, j) PROVE LockHeld(k)'
  BY <1>0, <1>5 DEF Deliver
<1>6. ASSUME NEW c \in Slots, Reap(c) \/ ClaimMisses(c) \/ CompleteFenced(c) \/ CompleteThrows(c)
      PROVE  LockHeld(k)'
  BY <1>0, <1>6 DEF Reap, ClaimMisses, CompleteFenced, CompleteThrows, Running, Goto, bullVars
<1>7. ASSUME NEW c \in Slots, Claim(c) PROVE LockHeld(k)'
  BY <1>0, <1>7 DEF Claim, Running, bullVars
<1>8. ASSUME NEW c \in Slots, task[c] \in Jobs, Leave(c), Resolve(c, task[c]) \/ Reject(c, task[c])
      PROVE  LockHeld(k)'
  BY <1>0, <1>8 DEF Leave, Resolve, Reject, bullVars
<1>9. ASSUME NEW c \in Slots, ClaimThrows(c) \/ Read(c) \/ Complete(c) \/ RetryRow(c) \/ RetryThrows(c)
      PROVE  LockHeld(k)'
  <2>1. task[c] \in Jobs /\ Leave(c) /\ (Resolve(c, task[c]) \/ Reject(c, task[c]))
    BY <1>0, <1>9 DEF ClaimThrows, Read, Complete, RetryRow, RetryThrows, Running, HeldTask
  <2>2. QED
    BY <1>8, <2>1
<1>10. ASSUME NEW c \in Slots, CloseRoute(c) PROVE LockHeld(k)'
  <2>1. task[c] \in Jobs
    BY <1>0, <1>10 DEF CloseRoute, CloseRow, Running, HeldTask
  <2>2. CASE ClosedOpenRow(task[c])
    BY <1>8, <1>10, <2>1, <2>2 DEF CloseRoute, CloseRow
  <2>3. CASE ~ClosedOpenRow(task[c])
    BY <1>0, <1>10, <2>3 DEF CloseRoute, CloseRow, Running, Goto, bullVars
  <2>4. QED
    BY <2>2, <2>3
<1>11. ASSUME NEW c \in Slots, Thaw(c) PROVE LockHeld(k)'
  BY <1>0, <1>11 DEF Thaw, HeldTask
<1>12. ASSUME NEW c \in Slots, Die(c) PROVE LockHeld(k)'
  BY <1>0, <1>12 DEF Die
<1>13. QED
  BY <1>1, <1>2, <1>3, <1>4, <1>5, <1>6, <1>7, <1>9, <1>10, <1>11, <1>12
     DEF Next, Process, CloseActivation, Freeze, ReclaimExpiredLeases, Tick, vars, bullVars, slotVars

\* The terms of the row are set when it is claimed or put off, and no attempt
\* is given back.
LEMMA RowNext ==
  ASSUME BudgetInv, [Next]_vars, NEW k \in Jobs
  PROVE  RowLimits(k)'
<1>0. /\ TypeOK /\ HeldTask /\ RowLimits(k)
      /\ status \in [Jobs -> Statuses] /\ attempts \in [Jobs -> Nat]
      /\ waitLeft \in [Jobs -> Nat] /\ leaseLeft \in [Jobs -> Nat]
      /\ MaxAttempts \in Nat /\ LeaseDuration \in Nat /\ RetryDelay \in Nat
  BY NodeSyncAssumption DEF BudgetInv, IndInv, Types, TypeOK
<1> USE DEF RowLimits, Exhausted
<1>1. ASSUME UNCHANGED <<status, attempts, waitLeft, leaseLeft>> PROVE RowLimits(k)'
  BY <1>0, <1>1
<1>2. ASSUME NEW c \in Slots, Reap(c) PROVE RowLimits(k)'
  BY <1>0, <1>2 DEF Reap, Released, ClearLease, rowVars
<1>3. ASSUME NEW c \in Slots, Claim(c) PROVE RowLimits(k)'
  BY <1>0, <1>3 DEF Claim, TakeLease
<1>4. ASSUME NEW c \in Slots, ClaimThrows(c) PROVE RowLimits(k)'
  BY <1>0, <1>4 DEF ClaimThrows, CloseRow, ClearLease, ClosedOpenRow, TakeLease, rowVars
<1>5. ASSUME NEW c \in Slots, CloseRoute(c) PROVE RowLimits(k)'
  BY <1>0, <1>5 DEF CloseRoute, CloseRow, ClearLease, rowVars
<1>6. ASSUME NEW c \in Slots, Complete(c) PROVE RowLimits(k)'
  BY <1>0, <1>6 DEF Complete, MarkSucceeded, ClearLease
<1>7. ASSUME NEW c \in Slots, CompleteThrows(c) PROVE RowLimits(k)'
  BY <1>0, <1>7 DEF CompleteThrows, MarkSucceeded, ClearLease, rowVars
<1>8. ASSUME NEW c \in Slots, RetryRow(c) PROVE RowLimits(k)'
  BY <1>0, <1>8 DEF RetryRow, ReleaseLease, Released, ClearLease, rowVars
<1>9. ASSUME ReclaimExpiredLeases PROVE RowLimits(k)'
  BY <1>0, <1>9 DEF ReclaimExpiredLeases, Released
<1>10. ASSUME Tick PROVE RowLimits(k)'
  BY <1>0, <1>10 DEF Tick, Elapse
<1>11. QED
  BY <1>1, <1>2, <1>3, <1>4, <1>5, <1>6, <1>7, <1>8, <1>9, <1>10
     DEF Next, Process, Enqueue, Promote, RecoverStalled, CloseActivation, Deliver, ClaimMisses,
         Read, CompleteFenced, RetryThrows, Freeze, Thaw, Die, vars, rowVars

\* Only a freeze makes a lock lapse, and a stall ends that.
LEMMA StallsNext ==
  ASSUME BudgetInv, [Next]_vars, NEW k \in Jobs
  PROVE  StallsPaid(k)'
<1>0. /\ TypeOK /\ HeldTask /\ StallsPaid(k) /\ \A j \in Jobs : LockHeld(j)
      /\ locker \in [Jobs -> Slots \cup {None}] /\ pc \in [Slots -> Steps] /\ bull \in [Jobs -> BullState]
      /\ task \in [Slots -> Jobs \cup {None}] /\ None \notin Slots /\ frozen \in [Slots -> BOOLEAN]
      /\ stalls \in [Jobs -> Nat] /\ freezes \in Nat
  BY NodeSyncAssumption DEF BudgetInv, IndInv, Types, TypeOK
<1> USE DEF StallsPaid, Lapsing
<1>1. ASSUME UNCHANGED <<bull, locker, frozen, stalls, freezes>> PROVE StallsPaid(k)'
  BY <1>0, <1>1
<1>2. ASSUME NEW j \in Jobs, Enqueue(j) PROVE StallsPaid(k)'
  BY <1>0, <1>2 DEF Enqueue, slotVars, ghosts
<1>3. ASSUME NEW j \in Jobs, Promote(j) PROVE StallsPaid(k)'
  BY <1>0, <1>3 DEF Promote, slotVars, ghosts
<1>4. ASSUME NEW j \in Jobs, RecoverStalled(j) PROVE StallsPaid(k)'
  BY <1>0, <1>4 DEF RecoverStalled, slotVars, ghosts
<1>5. ASSUME NEW c \in Slots, NEW j \in Jobs, Deliver(c, j) PROVE StallsPaid(k)'
  BY <1>0, <1>5 DEF Deliver, ghosts
<1>6. ASSUME NEW c \in Slots, task[c] \in Jobs, UNCHANGED <<frozen, freezes>>,
             Resolve(c, task[c]) \/ Reject(c, task[c])
      PROVE  StallsPaid(k)'
  BY <1>0, <1>6 DEF Resolve, Reject, bullVars
<1>7. ASSUME NEW c \in Slots, ClaimThrows(c) \/ Read(c) \/ Complete(c) \/ RetryRow(c) \/ RetryThrows(c)
      PROVE  StallsPaid(k)'
  <2>1. /\ task[c] \in Jobs /\ UNCHANGED <<frozen, freezes>>
        /\ Resolve(c, task[c]) \/ Reject(c, task[c])
    BY <1>0, <1>7
       DEF ClaimThrows, Read, Complete, RetryRow, RetryThrows, Running, HeldTask, Leave, ghosts
  <2>2. QED
    BY <1>6, <2>1
<1>8. ASSUME NEW c \in Slots, CloseRoute(c) PROVE StallsPaid(k)'
  <2>1. task[c] \in Jobs /\ UNCHANGED <<frozen, freezes>>
    BY <1>0, <1>8 DEF CloseRoute, CloseRow, Running, HeldTask, Leave, Goto, ghosts
  <2>2. CASE ClosedOpenRow(task[c])
    BY <1>6, <1>8, <2>1, <2>2 DEF CloseRoute, CloseRow
  <2>3. CASE ~ClosedOpenRow(task[c])
    BY <1>1, <1>8, <2>1, <2>3 DEF CloseRoute, CloseRow, bullVars
  <2>4. QED
    BY <2>2, <2>3
<1>9. ASSUME NEW c \in Slots, Freeze(c) PROVE StallsPaid(k)'
  BY <1>0, <1>9 DEF Freeze, LockHeld
<1>10. ASSUME NEW c \in Slots, Thaw(c) PROVE StallsPaid(k)'
  BY <1>0, <1>10 DEF Thaw, LockHeld, HeldTask, ghosts
<1>11. ASSUME NEW c \in Slots, Die(c) PROVE StallsPaid(k)'
  BY <1>0, <1>11 DEF Die, LockHeld, ghosts
<1>12. QED
  BY <1>1, <1>2, <1>3, <1>4, <1>5, <1>7, <1>8, <1>9, <1>10, <1>11
     DEF Next, Process, CloseActivation, Reap, Claim, ClaimMisses, CompleteFenced, CompleteThrows, Goto,
         ReclaimExpiredLeases, Tick, vars, bullVars, slotVars, ghosts

\* The facts about the columns that the steps below compute with.
Columns ==
  /\ status \in [Jobs -> Statuses] /\ attempts \in [Jobs -> Nat]
  /\ waitLeft \in [Jobs -> Nat] /\ leaseLeft \in [Jobs -> Nat] /\ leaseToken \in [Jobs -> Nat]
  /\ bull \in [Jobs -> BullState] /\ made \in [Jobs -> Nat]
  /\ locker \in [Jobs -> Slots \cup {None}] /\ delayLeft \in [Jobs -> Nat]
  /\ pc \in [Slots -> Steps] /\ task \in [Slots -> Jobs \cup {None}] /\ heldToken \in [Slots -> Nat]
  /\ closed \in [Jobs -> BOOLEAN] /\ errors \in Nat /\ issued \in Nat
  /\ None \notin Slots /\ None \notin Jobs
  /\ RetryDelay \in Nat /\ LeaseDuration \in Nat /\ RetryDelay >= LeaseDuration /\ MaxAttempts \in Nat

\* They hold, and so does the rest of the invariant for one command.
LEMMA BudgetFacts ==
  ASSUME BudgetInv, NEW k \in Jobs
  PROVE  /\ Columns /\ HeldTask /\ LockHeld(k) /\ RowLimits(k) /\ Paid(k)
  BY NodeSyncAssumption DEF BudgetInv, IndInv, Types, TypeOK, Columns

\* How what is owed may change: not at all, against something earned, a put-off
\* row against the lease it had, or a rejection against what was owed.
LEMMA PaidMoves ==
  ASSUME NEW k \in Jobs, Columns, Paid(k),
         attempts'[k] \in Nat, errors' \in Nat, made'[k] \in Nat,
         attempts'[k] >= attempts[k], errors' >= errors,
         \/ /\ made'[k] = made[k]
            /\ Owed(k)' => Owed(k)
            /\ PutsOff(k)' => PutsOff(k)
         \/ /\ made'[k] = made[k]
            /\ attempts'[k] + errors' > attempts[k] + errors
            /\ Owed(k)' => Owed(k)
         \/ /\ made'[k] = made[k]
            /\ attempts'[k] + errors' > attempts[k] + errors
            /\ PutsOff(k)' => PutsOff(k)
         \/ /\ made'[k] = made[k]
            /\ PutsOff(k) /\ ~PutsOff(k)'
         \/ /\ made'[k] = made[k] + 1 /\ ~Owed(k)'
            /\ PutsOff(k)' => PutsOff(k)
            /\ Owed(k) \/ attempts'[k] + errors' > attempts[k] + errors
  PROVE  Paid(k)'
<1>1. made[k] \in Nat /\ attempts[k] \in Nat /\ errors \in Nat
  BY DEF Columns
<1>2. PICK o \in BOOLEAN : o <=> Owed(k)
  OBVIOUS
<1>3. PICK p \in BOOLEAN : p <=> PutsOff(k)
  OBVIOUS
<1>4. PICK o1 \in BOOLEAN : o1 <=> Owed(k)'
  OBVIOUS
<1>5. PICK p1 \in BOOLEAN : p1 <=> PutsOff(k)'
  OBVIOUS
<1>6. /\ made[k] <= attempts[k] + errors
      /\ o \/ p => made[k] + 1 <= attempts[k] + errors
      /\ o /\ p => made[k] + 2 <= attempts[k] + errors
  BY <1>2, <1>3 DEF Paid
<1>7. \/ made'[k] = made[k] /\ (o1 => o) /\ (p1 => p)
      \/ made'[k] = made[k] /\ attempts'[k] + errors' > attempts[k] + errors /\ (o1 => o)
      \/ made'[k] = made[k] /\ attempts'[k] + errors' > attempts[k] + errors /\ (p1 => p)
      \/ made'[k] = made[k] /\ p /\ ~p1
      \/ /\ made'[k] = made[k] + 1 /\ ~o1 /\ (p1 => p)
         /\ o \/ attempts'[k] + errors' > attempts[k] + errors
  BY <1>2, <1>3, <1>4, <1>5
<1>8. /\ made'[k] <= attempts'[k] + errors'
      /\ o1 \/ p1 => made'[k] + 1 <= attempts'[k] + errors'
      /\ o1 /\ p1 => made'[k] + 2 <= attempts'[k] + errors'
  BY <1>1, <1>6, <1>7
<1>9. QED
  BY <1>4, <1>5, <1>8 DEF Paid

\* Neither the row nor the queue's job nor its lock's holder moves.
LEMMA Elsewhere ==
  ASSUME NEW k \in Jobs, NEW c \in Slots, Columns, locker[k] # c,
         status'[k] = status[k], waitLeft'[k] = waitLeft[k], leaseLeft'[k] = leaseLeft[k],
         leaseOwner'[k] = leaseOwner[k], leaseToken'[k] = leaseToken[k], closed'[k] = closed[k],
         bull'[k] = bull[k], locker'[k] = locker[k], delayLeft'[k] = delayLeft[k],
         \A d \in Slots \ {c} : pc'[d] = pc[d] /\ task'[d] = task[d] /\ heldToken'[d] = heldToken[d],
         pc'[c] # "retry" \/ task'[c] # k
  PROVE  (Owed(k)' => Owed(k)) /\ (PutsOff(k)' => PutsOff(k))
<1>1. Owed(k)' => Owed(k)
  <2>1. locker[k] # None => locker[k] \in Slots \ {c}
    BY DEF Columns
  <2>2. \A step : LockedAt(k, step)' <=> LockedAt(k, step)
    BY <2>1 DEF LockedAt
  <2>3. RowLeft(k)' = RowLeft(k)
    BY DEF RowLeft
  <2>4. QED
    BY <2>2, <2>3 DEF Owed
<1>2. PutsOff(k)' => PutsOff(k)
  BY DEF PutsOff, OwnsLease
<1>3. QED
  BY <1>1, <1>2

\* A step of an execution leaves the other commands alone.
LEMMA OtherCommands ==
  ASSUME BudgetInv, NEW c \in Slots, Process(c), NEW k \in Jobs, k # task[c]
  PROVE  Paid(k)'
<1>0. Columns /\ HeldTask /\ LockHeld(k) /\ Paid(k)
  BY BudgetFacts
<1>1. locker[k] # c /\ task[c] \in Jobs
  BY <1>0 DEF LockHeld, Columns, HeldTask, Process, Reap, Claim, ClaimMisses, ClaimThrows, CloseRoute, CloseRow,
              Read, Complete, CompleteFenced, CompleteThrows, RetryRow, RetryThrows, Running
<1> DEFINE RowStays == /\ status'[k] = status[k] /\ waitLeft'[k] = waitLeft[k] /\ leaseLeft'[k] = leaseLeft[k]
                       /\ leaseOwner'[k] = leaseOwner[k] /\ leaseToken'[k] = leaseToken[k]
                       /\ attempts'[k] = attempts[k]
           JobStays == /\ bull'[k] = bull[k] /\ locker'[k] = locker[k] /\ delayLeft'[k] = delayLeft[k]
                       /\ made'[k] = made[k]
<1>2. RowStays
  <2> USE DEF rowVars, ClearLease
  <2>1. /\ Reap(c) => RowStays
        /\ Claim(c) \/ ClaimThrows(c) => RowStays
    BY <1>1 DEF Reap, Claim, ClaimThrows, CloseRow, ClearLease, TakeLease, BudgetInv, IndInv, Types, TypeOK
  <2>2. /\ CloseRoute(c) => RowStays
        /\ Complete(c) \/ CompleteThrows(c) => RowStays
        /\ RetryRow(c) => RowStays
    BY <1>1 DEF CloseRoute, CloseRow, Complete, CompleteThrows, MarkSucceeded, RetryRow, ReleaseLease,
                BudgetInv, IndInv, Types, TypeOK
  <2>3. ClaimMisses(c) \/ Read(c) \/ CompleteFenced(c) \/ RetryThrows(c) => RowStays
    BY DEF ClaimMisses, Read, CompleteFenced, RetryThrows
  <2>4. QED
    BY <2>1, <2>2, <2>3 DEF Process
<1>3. JobStays
  <2>1. UNCHANGED bullVars \/ Resolve(c, task[c]) \/ Reject(c, task[c])
    BY DEF Process, Reap, Claim, ClaimMisses, ClaimThrows, CloseRoute, CloseRow,
           Read, Complete, CompleteFenced, CompleteThrows, RetryRow, RetryThrows
  <2>2. QED
    BY <1>0, <1>1, <2>1 DEF Resolve, Reject, bullVars, Columns
<1>4. /\ closed'[k] = closed[k] /\ errors' \in Nat /\ errors' >= errors
      /\ \A d \in Slots \ {c} : pc'[d] = pc[d] /\ task'[d] = task[d] /\ heldToken'[d] = heldToken[d]
      /\ task'[c] # k
  <2>1. closed' = closed /\ (errors' = errors \/ errors' = errors + 1)
    BY DEF Process, Reap, Claim, ClaimMisses, ClaimThrows, CloseRoute, CloseRow,
           Read, Complete, CompleteFenced, CompleteThrows, RetryRow, RetryThrows, ghosts
  <2>2. Leave(c) \/ (\E step \in Steps : Goto(c, step)) \/ Claim(c)
    BY DEF Process, Reap, ClaimMisses, ClaimThrows, CloseRoute, CloseRow, Steps,
           Read, Complete, CompleteFenced, CompleteThrows, RetryRow, RetryThrows
  <2>3. QED
    BY <1>0, <2>1, <2>2 DEF Leave, Goto, Claim, Columns
<1> HIDE DEF RowStays, JobStays
<1>5. (Owed(k)' => Owed(k)) /\ (PutsOff(k)' => PutsOff(k))
  BY <1>0, <1>1, <1>2, <1>3, <1>4, Elsewhere DEF RowStays, JobStays
<1>6. QED
  BY <1>0, <1>2, <1>3, <1>4, <1>5, PaidMoves DEF RowStays, JobStays, Columns

\* A rejected delivery is put off for at least as long as the row is taken.
LEMMA RejectPays ==
  ASSUME NEW c \in Slots, NEW k \in Jobs, Columns, RowLimits(k)', locker[k] = c, Reject(c, k),
         status'[k] \in Statuses, waitLeft'[k] \in Nat, leaseLeft'[k] \in Nat
  PROVE  made'[k] = made[k] + 1 /\ ~Owed(k)'
<1>1. /\ made'[k] = made[k] + 1 /\ bull'[k] \in {"delayed", "failed"} /\ delayLeft'[k] = RetryDelay
      /\ locker'[k] = None
  BY DEF Reject, Columns
<1>2. RowLeft(k)' <= RetryDelay
  BY DEF RowLimits, RowLeft, Columns
<1>3. ~(RowLeft(k)' > delayLeft'[k])
  <2>1. RowLeft(k)' \in Nat
    BY DEF RowLeft
  <2>2. QED
    BY <1>1, <1>2, <2>1 DEF Columns
<1>4. ~LockedAt(k, "reap")' /\ ~LockedAt(k, "claim")' /\ ~LockedAt(k, "close")' /\ ~LockedAt(k, "read")'
      /\ ~LockedAt(k, "complete")' /\ ~LockedAt(k, "retry")'
  BY <1>1 DEF LockedAt
<1>5. QED
  BY <1>1, <1>3, <1>4 DEF Owed

\* The first statement of claim() frees a row whose lease is over.
LEMMA ReapPays ==
  ASSUME BudgetInv, NEW c \in Slots, Reap(c), NEW k \in Jobs, k = task[c]
  PROVE  Paid(k)'
<1>0. Columns /\ HeldTask /\ LockHeld(k) /\ Paid(k)
  BY BudgetFacts
<1>1. /\ pc[c] = "reap" /\ pc' = [pc EXCEPT ![c] = "claim"]
      /\ UNCHANGED <<attempts, task, heldToken, closed, bull, made, locker, delayLeft, errors>>
  BY DEF Reap, Running, Goto, bullVars, ghosts, rowVars
<1>2. \/ UNCHANGED <<status, waitLeft, leaseOwner, leaseToken, leaseLeft>> /\ ~Expired(k)
      \/ /\ Expired(k) /\ status'[k] \in {"PENDING", "FAILED"}
         /\ waitLeft'[k] = 0
  BY <1>0 DEF Reap, Released, ClearLease, rowVars, Columns
<1>3. PutsOff(k)' => PutsOff(k)
  BY <1>0, <1>1, <1>2 DEF PutsOff, OwnsLease, Columns
<1>4. Owed(k)' => Owed(k)
  <2>1. CASE locker[k] = c
    BY <1>0, <1>1, <1>2, <2>1 DEF Owed, LockedAt, RowLeft, Expired, Columns, Terminal, Statuses
  <2>2. CASE locker[k] # c
    BY <1>0, <1>1, <1>2, <2>2 DEF Owed, LockedAt, RowLeft, Expired, Columns, Terminal, Statuses
  <2>3. QED
    BY <2>1, <2>2
<1>5. QED
  BY <1>0, <1>1, <1>3, <1>4, PaidMoves DEF Columns

\* A claim earns what its own delivery, or that of the lock's holder, may owe.
LEMMA ClaimPays ==
  ASSUME BudgetInv, NEW c \in Slots, Claim(c), NEW k \in Jobs, k = task[c]
  PROVE  Paid(k)'
<1>0. Columns /\ HeldTask /\ LockHeld(k) /\ Paid(k)
  BY BudgetFacts
<1>1. /\ attempts'[k] = attempts[k] + 1 /\ leaseToken'[k] = issued + 1
      /\ pc' = [pc EXCEPT ![c] = "complete"]
      /\ UNCHANGED <<task, closed, bull, made, locker, delayLeft, errors>>
      /\ heldToken' = [heldToken EXCEPT ![c] = issued + 1]
  BY <1>0 DEF Claim, TakeLease, bullVars, Columns
<1>2. ~PutsOff(k)'
  BY <1>0, <1>1 DEF PutsOff, OwnsLease, Columns, HeldTask
<1>3. QED
  BY <1>0, <1>1, <1>2, PaidMoves DEF Columns

\* A claim that finds nothing leaves a row that is taken, settled or closed.
LEMMA ClaimMissesPays ==
  ASSUME BudgetInv, NEW c \in Slots, ClaimMisses(c), NEW k \in Jobs, k = task[c]
  PROVE  Paid(k)'
<1>0. Columns /\ HeldTask /\ LockHeld(k) /\ Paid(k) /\ RowLimits(k)
  BY BudgetFacts
<1>1. /\ pc[c] = "claim" /\ pc' = [pc EXCEPT ![c] = IF k \in RouteJobs THEN "close" ELSE "read"]
      /\ UNCHANGED <<task, heldToken, closed, bull, made, locker, delayLeft, errors>>
      /\ UNCHANGED <<status, attempts, waitLeft, leaseOwner, leaseToken, leaseLeft>>
      /\ ~Claimable(k)
  BY DEF ClaimMisses, Running, Goto, bullVars, ghosts, rowVars
<1>2. PutsOff(k)' => PutsOff(k)
  BY <1>0, <1>1 DEF PutsOff, OwnsLease, Columns
<1>3. \/ status[k] \in Terminal
      \/ status[k] = "PROCESSING"
      \/ status[k] = "PENDING" /\ waitLeft[k] > 0
      \/ k \in RouteJobs /\ closed[k]
  BY <1>0, <1>1 DEF Claimable, Exhausted, RowLimits, Columns, Statuses, Terminal
<1>4. Owed(k)' => Owed(k)
  <2>1. CASE locker[k] = c
    BY <1>0, <1>1, <1>3, <2>1 DEF Owed, LockedAt, RowLeft, Columns, Terminal, Statuses
  <2>2. CASE locker[k] # c
    BY <1>0, <1>1, <2>2 DEF Owed, LockedAt, RowLeft, Columns
  <2>3. QED
    BY <2>1, <2>2
<1>5. QED
  BY <1>0, <1>1, <1>2, <1>4, PaidMoves DEF Columns

\* A settled row owes nothing but what an execution past its claim does.
LEMMA SettledOwes ==
  ASSUME NEW k \in Jobs, NEW c \in Slots, Columns, locker[k] # c, status'[k] \in Terminal,
         bull'[k] = bull[k], locker'[k] = locker[k], delayLeft'[k] = delayLeft[k],
         \A d \in Slots \ {c} : pc'[d] = pc[d]
  PROVE  Owed(k)' => Owed(k)
<1>1. locker[k] # None => locker[k] \in Slots \ {c}
  BY DEF Columns
<1>2. \A step : LockedAt(k, step)' <=> LockedAt(k, step)
  BY <1>1 DEF LockedAt
<1>3. RowLeft(k)' = 0 /\ ~(0 > delayLeft'[k]) /\ ~(0 > 0)
  BY DEF RowLeft, Columns, Terminal
<1>4. QED
  BY <1>2, <1>3 DEF Owed, Terminal

\* A closed route command is settled; an open row was owed.
LEMMA CloseRoutePays ==
  ASSUME BudgetInv, NEW c \in Slots, CloseRoute(c), NEW k \in Jobs, k = task[c]
  PROVE  Paid(k)'
<1>0. Columns /\ HeldTask /\ LockHeld(k) /\ Paid(k)
  BY BudgetFacts
<1>1. pc[c] = "close" /\ UNCHANGED <<closed, errors>>
  BY DEF CloseRoute, CloseRow, Running, ghosts
<1>2. CASE ClosedOpenRow(k)
  <2>1. /\ status'[k] = "FAILED" /\ Resolve(c, k) /\ Leave(c) /\ UNCHANGED attempts
    BY <1>0, <1>2 DEF CloseRoute, CloseRow, Columns
  <2>2. ~PutsOff(k)'
    BY <2>1 DEF PutsOff, OwnsLease
  <2>3. Owed(k)' => Owed(k)
    <3>1. CASE locker[k] = c
      <4>1. bull'[k] = "completed"
        BY <1>0, <2>1, <3>1 DEF Resolve, Columns
      <4>2. QED
        BY <4>1 DEF Owed, LockedAt
    <3>2. CASE locker[k] # c
      <4>1. /\ bull'[k] = bull[k] /\ locker'[k] = locker[k] /\ delayLeft'[k] = delayLeft[k]
            /\ \A d \in Slots \ {c} : pc'[d] = pc[d]
        BY <1>0, <2>1, <3>2 DEF Resolve, Leave, Columns
      <4>2. status'[k] \in Terminal
        BY <2>1 DEF Terminal
      <4>3. QED
        BY <1>0, <3>2, <4>1, <4>2, SettledOwes
    <3>3. QED
      BY <3>1, <3>2
  <2>4. made'[k] = made[k]
    BY <2>1 DEF Resolve
  <2>5. QED
    BY <1>0, <1>1, <2>1, <2>2, <2>3, <2>4, PaidMoves DEF Columns
<1>3. CASE ~ClosedOpenRow(k)
  <2>1. /\ pc' = [pc EXCEPT ![c] = "read"]
        /\ UNCHANGED <<task, heldToken, bull, made, locker, delayLeft>>
        /\ UNCHANGED <<status, attempts, waitLeft, leaseOwner, leaseToken, leaseLeft>>
    BY <1>3 DEF CloseRoute, CloseRow, Goto, rowVars, bullVars
  <2>2. PutsOff(k)' => PutsOff(k)
    BY <1>0, <2>1 DEF PutsOff, OwnsLease, Columns
  <2>3. Owed(k)' => Owed(k)
    <3>1. CASE locker[k] = c
      BY <1>0, <1>1, <1>3, <2>1, <3>1
         DEF Owed, LockedAt, RowLeft, Columns, Terminal, Statuses, ClosedOpenRow
    <3>2. CASE locker[k] # c
      BY <1>0, <1>1, <2>1, <3>2 DEF Owed, LockedAt, RowLeft, Columns
    <3>3. QED
      BY <3>1, <3>2
  <2>4. QED
    BY <1>0, <1>1, <2>1, <2>2, <2>3, PaidMoves DEF Columns
<1>4. QED
  BY <1>2, <1>3

\* An execution that ends without its lock changes nothing for the queue.
LEMMA StaleLeaves ==
  ASSUME NEW c \in Slots, NEW k \in Jobs, Columns, Leave(c), locker[k] # c,
         Resolve(c, k) \/ Reject(c, k)
  PROVE  /\ bull'[k] = bull[k] /\ made'[k] = made[k] /\ locker'[k] = locker[k]
         /\ delayLeft'[k] = delayLeft[k] /\ pc'[c] = "idle"
         /\ \A d \in Slots \ {c} : pc'[d] = pc[d] /\ task'[d] = task[d] /\ heldToken'[d] = heldToken[d]
  BY DEF Leave, Resolve, Reject, bullVars, Columns

\* The last statement of claim(): a row that is not settled was owed.
LEMMA ReadPays ==
  ASSUME BudgetInv, NEW c \in Slots, Read(c), NEW k \in Jobs, k = task[c]
  PROVE  Paid(k)'
<1>0. Columns /\ HeldTask /\ LockHeld(k) /\ Paid(k) /\ RowLimits(k)
  BY BudgetFacts
<1>1. /\ pc[c] = "read" /\ Leave(c)
      /\ IF Settled(k) THEN Resolve(c, k) ELSE Reject(c, k)
      /\ UNCHANGED <<status, attempts, waitLeft, leaseOwner, leaseToken, leaseLeft, closed, errors>>
  BY DEF Read, Running, rowVars, ghosts
<1>2. PutsOff(k)' => PutsOff(k)
  BY <1>0, <1>1 DEF PutsOff, OwnsLease, Leave, Columns
<1>3. CASE locker[k] # c
  <2>1. (Owed(k)' => Owed(k)) /\ made'[k] = made[k]
    BY <1>0, <1>1, <1>3, StaleLeaves, Elsewhere
  <2>2. QED
    BY <1>0, <1>1, <1>2, <2>1, PaidMoves DEF Columns
<1>4. CASE locker[k] = c /\ Settled(k)
  <2>1. bull'[k] = "completed" /\ made'[k] = made[k]
    BY <1>0, <1>1, <1>4 DEF Resolve, Columns
  <2>2. ~Owed(k)'
    BY <2>1 DEF Owed, LockedAt
  <2>3. QED
    BY <1>0, <1>1, <1>2, <2>1, <2>2, PaidMoves DEF Columns
<1>5. CASE locker[k] = c /\ ~Settled(k)
  <2>1. RowLimits(k)' /\ status'[k] \in Statuses /\ waitLeft'[k] \in Nat /\ leaseLeft'[k] \in Nat
    BY <1>0, <1>1 DEF RowLimits, Columns
  <2>2. made'[k] = made[k] + 1 /\ ~Owed(k)'
    BY <1>0, <1>1, <1>5, <2>1, RejectPays
  <2>3. Owed(k)
    BY <1>0, <1>1, <1>5 DEF Owed, LockedAt, LockHeld, Settled, Columns
  <2>4. QED
    BY <1>0, <1>1, <1>2, <2>2, <2>3, PaidMoves DEF Columns
<1>6. QED
  BY <1>3, <1>4, <1>5

\* A statement of claim() that rejects pays for its delivery itself.
LEMMA ClaimThrowsPays ==
  ASSUME BudgetInv, NEW c \in Slots, ClaimThrows(c), NEW k \in Jobs, k = task[c]
  PROVE  Paid(k)'
<1>0. Columns /\ HeldTask /\ LockHeld(k) /\ Paid(k)
  BY BudgetFacts
<1>1. /\ pc[c] \in {"reap", "claim", "close", "read"} /\ Leave(c) /\ Reject(c, k)
      /\ errors' = errors + 1 /\ UNCHANGED closed
  BY DEF ClaimThrows
<1>2. \/ /\ leaseToken'[k] = issued + 1 /\ attempts'[k] = attempts[k] + 1
      \/ /\ status'[k] = "FAILED" /\ attempts'[k] = attempts[k]
      \/ UNCHANGED <<status, attempts, waitLeft, leaseOwner, leaseToken, leaseLeft>>
  BY <1>0 DEF ClaimThrows, CloseRow, ClearLease, ClosedOpenRow, TakeLease, rowVars, Columns
<1>3. PutsOff(k)' => PutsOff(k)
  BY <1>0, <1>1, <1>2 DEF PutsOff, OwnsLease, Leave, Columns, HeldTask
<1>4. attempts'[k] \in Nat /\ attempts'[k] >= attempts[k]
      /\ attempts'[k] + errors' > attempts[k] + errors
  BY <1>0, <1>1, <1>2 DEF Columns
<1>5. CASE locker[k] # c
  <2>1. made'[k] = made[k]
    BY <1>0, <1>1, <1>5, StaleLeaves
  <2>2. QED
    BY <1>0, <1>1, <1>3, <1>4, <2>1, PaidMoves DEF Columns
<1>6. CASE locker[k] = c
  <2>1. RowLimits(k)' /\ status'[k] \in Statuses /\ waitLeft'[k] \in Nat /\ leaseLeft'[k] \in Nat
    <3>1. [Next]_vars /\ Types
      BY DEF Next, Process, BudgetInv, IndInv
    <3>2. RowLimits(k)' /\ TypeOK'
      BY <3>1, RowNext, TypeNext DEF Types
    <3>3. QED
      BY <3>2 DEF TypeOK
  <2>2. made'[k] = made[k] + 1 /\ ~Owed(k)'
    BY <1>0, <1>1, <1>6, <2>1, RejectPays
  <2>3. QED
    BY <1>0, <1>1, <1>3, <1>4, <2>2, PaidMoves DEF Columns
<1>7. QED
  BY <1>5, <1>6

\* complete() settles the row.
LEMMA CompletePays ==
  ASSUME BudgetInv, NEW c \in Slots, Complete(c), NEW k \in Jobs, k = task[c]
  PROVE  Paid(k)'
<1>0. Columns /\ HeldTask /\ LockHeld(k) /\ Paid(k)
  BY BudgetFacts
<1>1. /\ status'[k] = "SUCCEEDED" /\ Resolve(c, k) /\ Leave(c)
      /\ UNCHANGED <<attempts, closed, errors>> /\ made'[k] = made[k]
  BY <1>0 DEF Complete, MarkSucceeded, Resolve, ghosts, Columns
<1>2. ~PutsOff(k)'
  BY <1>1 DEF PutsOff, OwnsLease
<1>3. Owed(k)' => Owed(k)
  <2>1. CASE locker[k] = c
    <3>1. bull'[k] = "completed"
      BY <1>0, <1>1, <2>1 DEF Resolve, Columns
    <3>2. QED
      BY <3>1 DEF Owed, LockedAt
  <2>2. CASE locker[k] # c
    <3>1. /\ bull'[k] = bull[k] /\ locker'[k] = locker[k] /\ delayLeft'[k] = delayLeft[k]
          /\ \A d \in Slots \ {c} : pc'[d] = pc[d]
      BY <1>0, <1>1, <2>2 DEF Resolve, Leave, Columns
    <3>2. status'[k] \in Terminal
      BY <1>1 DEF Terminal
    <3>3. QED
      BY <1>0, <2>2, <3>1, <3>2, SettledOwes
  <2>3. QED
    BY <2>1, <2>2
<1>4. QED
  BY <1>0, <1>1, <1>2, <1>3, PaidMoves DEF Columns

\* A fenced complete() leaves an execution that no longer holds the lease; one
\* that rejects pays for putting the row off.
LEMMA CompleteFailsPays ==
  ASSUME BudgetInv, NEW c \in Slots, CompleteFenced(c) \/ CompleteThrows(c), NEW k \in Jobs, k = task[c]
  PROVE  Paid(k)'
<1>0. Columns /\ HeldTask /\ LockHeld(k) /\ Paid(k)
  BY BudgetFacts
<1>1. /\ pc[c] = "complete" /\ pc' = [pc EXCEPT ![c] = "retry"]
      /\ UNCHANGED <<attempts, task, heldToken, closed, bull, made, locker, delayLeft>>
  BY DEF CompleteFenced, CompleteThrows, MarkSucceeded, Running, Goto, bullVars, rowVars
<1>2. \/ UNCHANGED <<status, waitLeft, leaseOwner, leaseToken, leaseLeft>>
      \/ status'[k] = "SUCCEEDED"
  BY <1>0 DEF CompleteFenced, CompleteThrows, MarkSucceeded, rowVars, Columns
<1>3. Owed(k)' => Owed(k)
  <2>1. CASE locker[k] = c
    BY <1>0, <1>1, <2>1 DEF Owed, LockedAt, LockHeld, Columns
  <2>2. CASE locker[k] # c
    <3>1. \A step : LockedAt(k, step)' <=> LockedAt(k, step)
      BY <1>0, <1>1, <2>2 DEF LockedAt, Columns
    <3>2. CASE UNCHANGED <<status, waitLeft, leaseOwner, leaseToken, leaseLeft>>
      BY <1>1, <3>1, <3>2 DEF Owed, RowLeft
    <3>3. CASE status'[k] = "SUCCEEDED"
      <4>1. status'[k] \in Terminal /\ \A d \in Slots \ {c} : pc'[d] = pc[d]
        BY <1>0, <1>1, <3>3 DEF Terminal, Columns
      <4>2. QED
        BY <1>0, <1>1, <2>2, <4>1, SettledOwes
    <3>4. QED
      BY <1>2, <3>2, <3>3
  <2>3. QED
    BY <2>1, <2>2
<1>4. CASE CompleteFenced(c)
  <2>1. PutsOff(k)' => PutsOff(k)
    BY <1>0, <1>1, <1>4 DEF CompleteFenced, PutsOff, OwnsLease, Columns, rowVars
  <2>2. errors' = errors
    BY <1>4 DEF CompleteFenced, ghosts
  <2>3. QED
    BY <1>0, <1>1, <1>3, <2>1, <2>2, PaidMoves DEF Columns
<1>5. CASE CompleteThrows(c)
  <2>1. errors' = errors + 1
    BY <1>5 DEF CompleteThrows
  <2>2. QED
    BY <1>0, <1>1, <1>3, <2>1, PaidMoves DEF Columns
<1>6. QED
  BY <1>4, <1>5

\* retry() releases the row; the delivery of the lock's holder was owed.
LEMMA RetryPays ==
  ASSUME BudgetInv, NEW c \in Slots, RetryRow(c) \/ RetryThrows(c), NEW k \in Jobs, k = task[c]
  PROVE  Paid(k)'
<1>0. Columns /\ HeldTask /\ LockHeld(k) /\ Paid(k)
  BY BudgetFacts
<1>1. /\ pc[c] = "retry" /\ Leave(c) /\ Reject(c, k) /\ UNCHANGED <<attempts, closed>>
      /\ errors' = errors \/ errors' = errors + 1
  BY DEF RetryRow, RetryThrows, ReleaseLease, Running, rowVars, ghosts
<1>2. \/ UNCHANGED <<status, waitLeft, leaseOwner, leaseToken, leaseLeft>>
      \/ OwnsLease(c, k) /\ status'[k] \in {"PENDING", "FAILED"}
  BY <1>0 DEF RetryRow, RetryThrows, ReleaseLease, Released, rowVars, Columns
<1>3. PutsOff(k)' => PutsOff(k)
  BY <1>0, <1>1, <1>2 DEF PutsOff, OwnsLease, Leave, Columns
<1>4. errors' \in Nat /\ errors' >= errors
  BY <1>0, <1>1 DEF Columns
<1>5. CASE locker[k] = c
  <2>1. RowLimits(k)' /\ status'[k] \in Statuses /\ waitLeft'[k] \in Nat /\ leaseLeft'[k] \in Nat
    <3>1. [Next]_vars /\ Types
      BY DEF Next, Process, BudgetInv, IndInv
    <3>2. RowLimits(k)' /\ TypeOK'
      BY <3>1, RowNext, TypeNext DEF Types
    <3>3. QED
      BY <3>2 DEF TypeOK
  <2>2. made'[k] = made[k] + 1 /\ ~Owed(k)'
    BY <1>0, <1>1, <1>5, <2>1, RejectPays
  <2>3. Owed(k)
    BY <1>0, <1>1, <1>5 DEF Owed, LockedAt, LockHeld, Columns
  <2>4. QED
    BY <1>0, <1>1, <1>3, <1>4, <2>2, <2>3, PaidMoves DEF Columns
<1>6. CASE locker[k] # c
  <2>1. /\ bull'[k] = bull[k] /\ made'[k] = made[k] /\ locker'[k] = locker[k]
        /\ delayLeft'[k] = delayLeft[k] /\ pc'[c] = "idle"
        /\ \A d \in Slots \ {c} : pc'[d] = pc[d] /\ task'[d] = task[d] /\ heldToken'[d] = heldToken[d]
    BY <1>0, <1>1, <1>6, StaleLeaves
  <2>2. CASE UNCHANGED <<status, waitLeft, leaseOwner, leaseToken, leaseLeft>>
    <3>1. Owed(k)' => Owed(k)
      BY <1>0, <1>1, <1>6, <2>1, <2>2, Elsewhere
    <3>2. QED
      BY <1>0, <1>1, <1>3, <1>4, <2>1, <3>1, PaidMoves DEF Columns
  <2>3. CASE OwnsLease(c, k) /\ status'[k] \in {"PENDING", "FAILED"}
    <3>1. PutsOff(k) /\ ~PutsOff(k)'
      BY <1>1, <2>3 DEF PutsOff, OwnsLease
    <3>2. QED
      BY <1>0, <1>1, <1>4, <2>1, <3>1, PaidMoves DEF Columns
  <2>4. QED
    BY <1>2, <2>2, <2>3
<1>7. QED
  BY <1>5, <1>6

\* BullMQ moves a command on its way to a delivery.
LEMMA QueuePays ==
  ASSUME BudgetInv, NEW j \in Jobs, NEW k \in Jobs,
         Enqueue(j) \/ Promote(j) \/ RecoverStalled(j) \/ CloseActivation(j)
  PROVE  Paid(k)'
<1>0. Columns /\ Paid(k)
  BY BudgetFacts
<1>1. UNCHANGED <<status, attempts, waitLeft, leaseOwner, leaseToken, leaseLeft, made, delayLeft,
                  pc, task, heldToken, errors>>
  BY DEF Enqueue, Promote, RecoverStalled, CloseActivation, rowVars, slotVars, bullVars, ghosts
<1>2. PutsOff(k)' => PutsOff(k)
  BY <1>1 DEF PutsOff, OwnsLease
<1>3. Owed(k)' => Owed(k)
  <2>1. RowLeft(k)' = RowLeft(k)
    BY <1>1 DEF RowLeft
  <2>2. CASE Enqueue(j)
    BY <1>0, <1>1, <2>1, <2>2 DEF Enqueue, Owed, LockedAt, Columns
  <2>3. CASE Promote(j)
    BY <1>0, <1>1, <2>1, <2>3 DEF Promote, Owed, LockedAt, Columns
  <2>4. CASE RecoverStalled(j)
    <3>1. CASE j # k
      BY <1>0, <1>1, <2>1, <2>4, <3>1 DEF RecoverStalled, Owed, LockedAt, Columns
    <3>2. CASE j = k
      <4>1. bull[k] = "active" /\ bull'[k] \in {"failed", "waiting"}
        BY <1>0, <2>4, <3>2 DEF RecoverStalled, Lapsing, Columns
      <4>2. Owed(k)' => RowLeft(k) > 0
        BY <2>1, <4>1 DEF Owed, LockedAt
      <4>3. RowLeft(k) > 0 => status[k] = "PROCESSING" \/ (status[k] = "PENDING" /\ waitLeft[k] > 0)
        BY DEF RowLeft
      <4>4. locker[k] = None \/ \E step \in Steps : LockedAt(k, step)
        BY <1>0, <4>1 DEF LockedAt, Columns
      <4>5. locker[k] # None => ~LockedAt(k, "idle")
        BY <4>1 DEF BudgetInv, LockHeld, LockedAt
      <4>6. QED
        BY <4>1, <4>2, <4>3, <4>4, <4>5 DEF Owed, Steps, Terminal, LockedAt
    <3>3. QED
      BY <3>1, <3>2
  <2>5. CASE CloseActivation(j)
    BY <1>0, <1>1, <2>1, <2>5 DEF CloseActivation, Owed, LockedAt, Columns, bullVars
  <2>6. QED
    BY <2>2, <2>3, <2>4, <2>5
<1>4. QED
  BY <1>0, <1>1, <1>2, <1>3, PaidMoves DEF Columns

\* The consumer takes a command up.
LEMMA DeliverPays ==
  ASSUME BudgetInv, NEW c \in Slots, NEW j \in Jobs, NEW k \in Jobs, Deliver(c, j)
  PROVE  Paid(k)'
<1>0. Columns /\ Paid(k) /\ LockHeld(k)
  BY BudgetFacts
<1>1. /\ pc[c] = "idle" /\ bull[j] = "waiting"
      /\ bull' = [bull EXCEPT ![j] = "active"] /\ locker' = [locker EXCEPT ![j] = c]
      /\ pc' = [pc EXCEPT ![c] = "reap"] /\ task' = [task EXCEPT ![c] = j]
      /\ UNCHANGED <<status, attempts, waitLeft, leaseOwner, leaseToken, leaseLeft, closed, made,
                     delayLeft, heldToken, errors>>
  BY DEF Deliver, rowVars, ghosts
<1>2. locker[k] # c
  BY <1>0, <1>1 DEF LockHeld, Columns
<1>3. (Owed(k)' => Owed(k)) /\ (PutsOff(k)' => PutsOff(k))
  <2>1. CASE k # j
    BY <1>0, <1>1, <1>2, <2>1, Elsewhere DEF Columns
  <2>2. CASE k = j
    <3>1. PutsOff(k)' => PutsOff(k)
      BY <1>0, <1>1 DEF PutsOff, OwnsLease, Columns
    <3>2. RowLeft(k)' = RowLeft(k)
      BY <1>1 DEF RowLeft
    <3>3. bull'[k] = "active" /\ locker'[k] = c /\ c # None /\ pc'[c] = "reap"
      BY <1>0, <1>1, <2>2 DEF Columns
    <3>4. Owed(k)' => RowLeft(k) > 0
      BY <3>2, <3>3 DEF Owed, LockedAt
    <3>5. QED
      BY <1>1, <2>2, <3>1, <3>4 DEF Owed
  <2>3. QED
    BY <2>1, <2>2
<1>4. QED
  BY <1>0, <1>1, <1>3, PaidMoves DEF Columns

\* An execution freezes, thaws or dies: the lock may be lost.
LEMMA FreezesPay ==
  ASSUME BudgetInv, NEW c \in Slots, NEW k \in Jobs, Freeze(c) \/ Thaw(c) \/ Die(c)
  PROVE  Paid(k)'
<1>0. Columns /\ Paid(k) /\ LockHeld(k) /\ HeldTask
  BY BudgetFacts
<1>1. UNCHANGED <<status, attempts, waitLeft, leaseOwner, leaseToken, leaseLeft, closed, bull, made,
                  delayLeft, errors>>
  BY DEF Freeze, Thaw, Die, rowVars, ghosts
<1>2. /\ \A d \in Slots \ {c} : pc'[d] = pc[d] /\ task'[d] = task[d] /\ heldToken'[d] = heldToken[d]
      /\ pc'[c] = "idle" \/ (pc'[c] = pc[c] /\ task'[c] = task[c] /\ heldToken'[c] = heldToken[c])
      /\ locker'[k] = locker[k] \/ (locker[k] = c /\ locker'[k] = None)
      /\ locker[k] = c => locker'[k] = None \/ pc'[c] = pc[c]
  BY <1>0 DEF Freeze, Thaw, Die, Columns, HeldTask
<1>3. PutsOff(k)' => PutsOff(k)
  BY <1>1, <1>2 DEF PutsOff, OwnsLease
<1>4. Owed(k)' => Owed(k)
  <2>1. RowLeft(k)' = RowLeft(k)
    BY <1>1 DEF RowLeft
  <2>2. CASE locker'[k] = locker[k]
    <3>1. locker[k] # None => pc'[locker[k]] = pc[locker[k]]
      BY <1>0, <1>2, <2>2 DEF Columns
    <3>2. \A step : LockedAt(k, step)' <=> LockedAt(k, step)
      BY <1>1, <2>2, <3>1 DEF LockedAt
    <3>3. QED
      BY <1>1, <2>1, <2>2, <3>2 DEF Owed
  <2>3. CASE locker[k] = c /\ locker'[k] = None
    <3>1. bull[k] = "active" /\ c # None /\ pc[c] # "idle" /\ pc[c] \in Steps
      BY <1>0, <2>3 DEF LockHeld, Columns
    <3>2. Owed(k)' => RowLeft(k) > 0
      BY <1>1, <2>1, <2>3, <3>1 DEF Owed, LockedAt
    <3>3. RowLeft(k) > 0 => status[k] = "PROCESSING" \/ (status[k] = "PENDING" /\ waitLeft[k] > 0)
      BY DEF RowLeft
    <3>4. QED
      BY <2>3, <3>1, <3>2, <3>3 DEF Owed, Steps, Terminal, LockedAt
  <2>4. QED
    BY <1>2, <2>2, <2>3
<1>5. QED
  BY <1>0, <1>1, <1>3, <1>4, PaidMoves DEF Columns

\* The reclaimer frees rows whose lease is over.
LEMMA ReclaimPays ==
  ASSUME BudgetInv, NEW k \in Jobs, ReclaimExpiredLeases
  PROVE  Paid(k)'
<1>0. Columns /\ Paid(k)
  BY BudgetFacts
<1>1. UNCHANGED <<attempts, closed, bull, made, locker, delayLeft, pc, task, heldToken, errors>>
  BY DEF ReclaimExpiredLeases, bullVars, slotVars, ghosts
<1>2. \/ /\ status'[k] = status[k] /\ waitLeft'[k] = waitLeft[k] /\ leaseLeft'[k] = leaseLeft[k]
         /\ leaseOwner'[k] = leaseOwner[k] /\ leaseToken'[k] = leaseToken[k]
      \/ /\ status[k] = "PROCESSING" \/ (status[k] = "PENDING" /\ status'[k] = "FAILED")
         /\ status'[k] \in {"PENDING", "FAILED"} /\ waitLeft'[k] = 0
  BY DEF ReclaimExpiredLeases, Released, Expired
<1>3. PutsOff(k)' => PutsOff(k)
  BY <1>1, <1>2 DEF PutsOff, OwnsLease
<1>4. Owed(k)' => Owed(k)
  <2>1. \A step : LockedAt(k, step)' <=> LockedAt(k, step)
    BY <1>1 DEF LockedAt
  <2>2. CASE /\ status'[k] = status[k] /\ waitLeft'[k] = waitLeft[k] /\ leaseLeft'[k] = leaseLeft[k]
    BY <1>1, <2>1, <2>2 DEF Owed, RowLeft
  <2>3. CASE /\ status[k] = "PROCESSING" \/ (status[k] = "PENDING" /\ status'[k] = "FAILED")
             /\ status'[k] \in {"PENDING", "FAILED"} /\ waitLeft'[k] = 0
    <3>1. RowLeft(k)' = 0 /\ ~(0 > 0) /\ ~(0 > delayLeft'[k])
      BY <1>0, <1>1, <2>3 DEF RowLeft, Columns
    <3>2. QED
      BY <1>1, <2>1, <2>3, <3>1 DEF Owed, Terminal
  <2>4. QED
    BY <1>2, <2>2, <2>3
<1>5. QED
  BY <1>0, <1>1, <1>3, <1>4, PaidMoves DEF Columns

\* The lease and the backoff run down together.
LEMMA TickPays ==
  ASSUME BudgetInv, NEW k \in Jobs, Tick
  PROVE  Paid(k)'
<1>0. Columns /\ Paid(k)
  BY BudgetFacts
<1>1. /\ UNCHANGED <<status, attempts, leaseOwner, leaseToken, closed, bull, made, locker,
                     pc, task, heldToken, errors>>
      /\ leaseLeft'[k] = IF leaseLeft[k] > 0 THEN leaseLeft[k] - 1 ELSE 0
      /\ waitLeft'[k] = IF waitLeft[k] > 0 THEN waitLeft[k] - 1 ELSE 0
      /\ delayLeft'[k] = IF delayLeft[k] > 0 THEN delayLeft[k] - 1 ELSE 0
  BY DEF Tick, Elapse, slotVars, ghosts
<1>2. PutsOff(k)' => PutsOff(k)
  BY <1>0, <1>1 DEF PutsOff, OwnsLease, Columns
<1>3. Owed(k)' => Owed(k)
  <2>1. \A step : LockedAt(k, step)' <=> LockedAt(k, step)
    BY <1>1 DEF LockedAt
  <2>2. /\ RowLeft(k)' > 0 => RowLeft(k) > 0
        /\ RowLeft(k)' > delayLeft'[k] => RowLeft(k) > delayLeft[k]
        /\ waitLeft'[k] > 0 => waitLeft[k] > 0
    BY <1>0, <1>1 DEF RowLeft, Columns
  <2>3. QED
    BY <1>1, <2>1, <2>2 DEF Owed
<1>4. QED
  BY <1>0, <1>1, <1>2, <1>3, PaidMoves DEF Columns

\* Every step leaves what is owed covered.
LEMMA PaidNext ==
  ASSUME BudgetInv, [Next]_vars, NEW k \in Jobs
  PROVE  Paid(k)'
<1>1. ASSUME NEW c \in Slots, Process(c) PROVE Paid(k)'
  <2>1. CASE k # task[c]
    BY <1>1, <2>1, OtherCommands
  <2>2. CASE k = task[c]
    BY <1>1, <2>2, ReapPays, ClaimPays, ClaimMissesPays, ClaimThrowsPays, CloseRoutePays, ReadPays,
       CompletePays, CompleteFailsPays, RetryPays DEF Process
  <2>3. QED
    BY <2>1, <2>2
<1>2. CASE UNCHANGED vars
  <2>1. Columns /\ Paid(k)
    BY BudgetFacts
  <2>2. UNCHANGED <<status, attempts, waitLeft, leaseOwner, leaseToken, leaseLeft, closed, bull, made,
                    locker, delayLeft, pc, task, heldToken, errors>>
    BY <1>2 DEF vars, rowVars, bullVars, slotVars, ghosts
  <2>3. Owed(k)' => Owed(k)
    BY <2>2 DEF Owed, LockedAt, RowLeft
  <2>4. PutsOff(k)' => PutsOff(k)
    BY <2>2 DEF PutsOff, OwnsLease
  <2>5. QED
    BY <2>1, <2>2, <2>3, <2>4, PaidMoves DEF Columns
<1>3. QED
  BY <1>1, <1>2, QueuePays, DeliverPays, FreezesPay, ReclaimPays, TickPays DEF Next

\* BullMQ fails a command at one of its limits, and never counts back.
LEMMA GivenUpNext ==
  ASSUME BudgetInv, [Next]_vars, NEW k \in Jobs
  PROVE  GivenUp(k)'
<1>0. /\ bull \in [Jobs -> BullState] /\ made \in [Jobs -> Nat] /\ stalls \in [Jobs -> Nat]
      /\ MaxAttempts \in Nat /\ GivenUp(k) /\ HeldTask
  BY NodeSyncAssumption DEF BudgetInv, IndInv, Types, TypeOK
<1> USE DEF GivenUp
<1>1. ASSUME UNCHANGED <<bull, made, stalls>> PROVE GivenUp(k)'
  BY <1>0, <1>1
<1>2. ASSUME NEW c \in Slots, NEW j \in Jobs, Resolve(c, j) \/ Reject(c, j) PROVE GivenUp(k)'
  BY <1>0, <1>2 DEF Resolve, Reject, Deliveries, bullVars
<1>3. ASSUME NEW j \in Jobs, Enqueue(j) \/ Promote(j) \/ RecoverStalled(j) PROVE GivenUp(k)'
  BY <1>0, <1>3 DEF Enqueue, Promote, RecoverStalled
<1>4. ASSUME NEW c \in Slots, NEW j \in Jobs, Deliver(c, j) PROVE GivenUp(k)'
  BY <1>0, <1>4 DEF Deliver
<1>5. ASSUME NEW c \in Slots, ClaimThrows(c) \/ Read(c) \/ Complete(c) \/ RetryRow(c) \/ RetryThrows(c)
      PROVE  GivenUp(k)'
  <2>1. task[c] \in Jobs /\ (Resolve(c, task[c]) \/ Reject(c, task[c]))
    BY <1>0, <1>5 DEF ClaimThrows, Read, Complete, RetryRow, RetryThrows, Running, HeldTask
  <2>2. QED
    BY <1>2, <2>1
<1>6. ASSUME NEW c \in Slots, CloseRoute(c) PROVE GivenUp(k)'
  <2>1. task[c] \in Jobs
    BY <1>0, <1>6 DEF CloseRoute, CloseRow, Running, HeldTask
  <2>2. CASE ClosedOpenRow(task[c])
    BY <1>2, <1>6, <2>1, <2>2 DEF CloseRoute, CloseRow
  <2>3. CASE ~ClosedOpenRow(task[c])
    BY <1>1, <1>6, <2>3 DEF CloseRoute, CloseRow, bullVars
  <2>4. QED
    BY <2>2, <2>3
<1>7. QED
  BY <1>1, <1>3, <1>4, <1>5, <1>6
     DEF Next, Process, CloseActivation, Reap, Claim, ClaimMisses, CompleteFenced, CompleteThrows,
         Freeze, Thaw, Die, ReclaimExpiredLeases, Tick, vars, bullVars

\* Nothing is owed at first.
LEMMA BudgetInit == Init => BudgetInv
<1> SUFFICES ASSUME Init PROVE BudgetInv
  OBVIOUS
<1>1. IndInv
  BY TypeInit, TokensInit DEF IndInv, Init, CompletedIsSettled
<1>2. errors <= MaxErrors /\ freezes <= MaxFreezes
  BY NodeSyncAssumption DEF Init
<1>3. ASSUME NEW j \in Jobs PROVE LockHeld(j) /\ RowLimits(j) /\ StallsPaid(j) /\ Paid(j) /\ GivenUp(j)
  <2>1. LockHeld(j) /\ RowLimits(j) /\ StallsPaid(j) /\ GivenUp(j)
    BY NodeSyncAssumption DEF Init, LockHeld, RowLimits, StallsPaid, Lapsing, GivenUp
  <2>2. ~PutsOff(j)
    BY DEF Init, PutsOff
  <2>3. ~Owed(j)
    BY DEF Init, Owed, LockedAt, RowLeft
  <2>4. made[j] <= attempts[j] + errors
    BY DEF Init
  <2>5. QED
    BY <2>1, <2>2, <2>3, <2>4 DEF Paid
<1>4. QED
  BY <1>1, <1>2, <1>3 DEF BudgetInv

\* Every step keeps both budgets.
LEMMA BudgetNext == BudgetInv /\ [Next]_vars => BudgetInv'
<1> SUFFICES ASSUME BudgetInv, [Next]_vars PROVE BudgetInv'
  OBVIOUS
<1>1. IndInv'
  BY TypeNext, TokensNext, CompletedNext DEF BudgetInv, IndInv
<1>2. errors' <= MaxErrors /\ freezes' <= MaxFreezes
  <2>1. /\ errors \in Nat /\ freezes \in Nat /\ MaxErrors \in Nat /\ MaxFreezes \in Nat
        /\ errors <= MaxErrors /\ freezes <= MaxFreezes
    BY NodeSyncAssumption DEF BudgetInv, IndInv, Types, TypeOK
  <2>2. /\ errors' = errors \/ (errors < MaxErrors /\ errors' = errors + 1)
        /\ freezes' = freezes \/ (freezes < MaxFreezes /\ freezes' = freezes + 1)
    BY DEF Next, Process, Enqueue, Promote, RecoverStalled, CloseActivation, Deliver, Reap, Claim,
           ClaimMisses, ClaimThrows, CloseRoute, CloseRow, Read, Complete, CompleteFenced, CompleteThrows,
           RetryRow, RetryThrows, Freeze, Thaw, Die, ReclaimExpiredLeases, Tick, vars, ghosts
  <2>3. QED
    BY <2>1, <2>2
<1>3. \A j \in Jobs : LockHeld(j)' /\ RowLimits(j)' /\ StallsPaid(j)' /\ Paid(j)' /\ GivenUp(j)'
  BY LockNext, RowNext, StallsNext, PaidNext, GivenUpNext
<1>4. QED
  BY <1>1, <1>2, <1>3 DEF BudgetInv

\* For any number of freezes and failing statements: a command BullMQ has given
\* up was claimed as often as its row allows, but for the statements that
\* failed, or stalled more often than MaxAttempts.
Accounted ==
  \A j \in Jobs : bull[j] = "failed" =>
    attempts[j] + errors > MaxAttempts \/ freezes > MaxAttempts

\* The deliveries BullMQ spends are accounted for by claims, failing statements
\* and freezes, whatever their number.
THEOREM AccountedHolds == Spec => []Accounted
<1>1. BudgetInv => Accounted
  <2>1. SUFFICES ASSUME BudgetInv, NEW j \in Jobs, bull[j] = "failed"
                 PROVE  attempts[j] + errors > MaxAttempts \/ freezes > MaxAttempts
    BY DEF Accounted
  <2>2. /\ made[j] \in Nat /\ stalls[j] \in Nat /\ attempts[j] \in Nat /\ errors \in Nat
        /\ freezes \in Nat /\ MaxAttempts \in Nat
    BY <2>1, NodeSyncAssumption DEF BudgetInv, IndInv, Types, TypeOK
  <2>3. /\ made[j] > MaxAttempts \/ stalls[j] > MaxAttempts
        /\ made[j] <= attempts[j] + errors /\ stalls[j] <= freezes
    BY <2>1 DEF BudgetInv, GivenUp, Paid, StallsPaid
  <2>4. QED
    BY <2>2, <2>3
<1>2. QED
  BY <1>1, BudgetInit, BudgetNext, PTL DEF Spec

\* MaxAttempts + 1 deliveries, a backoff no shorter than the lease and
\* MaxAttempts stalls are enough for MaxAttempts freezes and one failing
\* statement: BullMQ never abandons a row that could still be claimed.
THEOREM NeverStrandedHolds ==
  ASSUME MaxErrors <= 1, MaxFreezes <= MaxAttempts
  PROVE  Spec => []NeverStranded
<1>1. BudgetInv /\ Accounted => NeverStranded
  <2>1. SUFFICES ASSUME BudgetInv, Accounted, NEW j \in Jobs, bull[j] = "failed"
                 PROVE  Exhausted(j)
    BY DEF NeverStranded
  <2>2. /\ attempts[j] \in Nat /\ errors \in Nat /\ freezes \in Nat /\ MaxAttempts \in Nat
        /\ MaxErrors \in Nat /\ MaxFreezes \in Nat /\ errors <= MaxErrors /\ freezes <= MaxFreezes
    BY <2>1, NodeSyncAssumption DEF BudgetInv, IndInv, Types, TypeOK
  <2>3. attempts[j] + errors > MaxAttempts \/ freezes > MaxAttempts
    BY <2>1 DEF Accounted
  <2>4. attempts[j] >= MaxAttempts
    BY <2>2, <2>3
  <2>5. QED
    BY <2>4 DEF Exhausted
<1>2. QED
  BY <1>1, AccountedHolds, BudgetInit, BudgetNext, PTL DEF Spec
=============================================================================
