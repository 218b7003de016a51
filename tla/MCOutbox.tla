------------------------------ MODULE MCOutbox ------------------------------
(* Outbox on a small instance: two publisher processes that share one      *)
(* WORKER_ID, as a rolling restart with a fixed WORKER_ID has.             *)
EXTENDS Outbox

CONSTANTS p1, p2

MCEvents     == {1, 2}
MCMalformed  == {2}
MCPublishers == {p1, p2}
MCWorkerId   == [p \in MCPublishers |-> "worker"]
=============================================================================
