--------------------------- MODULE OutboxContract ---------------------------
(***************************************************************************)
(* What the transactional outbox promises whoever inserts an event,        *)
(* without leases, clocks or processes: every event is tried at most       *)
(* MaxAttempts times; it is recorded as published only after the queue has *)
(* it; it is given up only when the budget is used; both verdicts are      *)
(* final.  Delivery is at least once: the queue may receive an event that  *)
(* is later given up, or receive it again after the verdict.               *)
(***************************************************************************)
EXTENDS Integers

CONSTANTS Events, MaxAttempts

VARIABLES
  outcome,   \* outcome[e] \in {"absent", "open", "published", "failed"}
  tries,     \* attempts spent on e
  sent       \* events the queue has accepted at least once

vars == <<outcome, tries, sent>>

Init ==
  /\ outcome = [e \in Events |-> "absent"]
  /\ tries   = [e \in Events |-> 0]
  /\ sent    = {}

Open(e) ==
  /\ outcome[e] = "absent"
  /\ outcome' = [outcome EXCEPT ![e] = "open"]
  /\ UNCHANGED <<tries, sent>>

Try(e) ==
  /\ outcome[e] = "open"
  /\ tries[e] < MaxAttempts
  /\ tries' = [tries EXCEPT ![e] = @ + 1]
  /\ UNCHANGED <<outcome, sent>>

Send(e) ==
  /\ tries[e] > 0
  /\ sent' = sent \cup {e}
  /\ UNCHANGED <<outcome, tries>>

Confirm(e) ==
  /\ outcome[e] = "open"
  /\ e \in sent
  /\ outcome' = [outcome EXCEPT ![e] = "published"]
  /\ UNCHANGED <<tries, sent>>

\* One statement may give up several exhausted events.
GiveUp(S) ==
  /\ \A e \in S : outcome[e] = "open" /\ tries[e] = MaxAttempts
  /\ outcome' = [e \in Events |-> IF e \in S THEN "failed" ELSE outcome[e]]
  /\ UNCHANGED <<tries, sent>>

Next ==
  \/ \E e \in Events : Open(e) \/ Try(e) \/ Send(e) \/ Confirm(e)
  \/ \E S \in SUBSET Events : GiveUp(S)

Spec == Init /\ [][Next]_vars
=============================================================================
