---------------------------- MODULE MCNodeAgent ----------------------------
(* Instances of NodeAgent for TLC. *)
EXTENDS NodeAgent, TLC

CONSTANTS g1, g2

\* g1's access ends at the first tick, g2's never within the bounds.
MCUntil == [g \in Grants |-> IF g = g1 THEN 1 ELSE 99]
=============================================================================
