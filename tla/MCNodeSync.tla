----------------------------- MODULE MCNodeSync -----------------------------
(* NodeSync on small instances: two executions of one worker process (they *)
(* share the lease owner name) and one route command, which takes every     *)
(* step a grant command takes and may have its activation closed as well.   *)
EXTENDS NodeSync

CONSTANTS c1, c2, routeJob

MCSlots    == {c1, c2}
MCWorkerId == [c \in MCSlots |-> "worker"]
MCRoute    == {routeJob}
=============================================================================
