----------------------------- MODULE MCSqlJobs -----------------------------
(* Instances of SqlJobs for TLC.                                           *)
EXTENDS SqlJobs, TLC

CONSTANTS j1, j2, w1, w2, p1, p2

\* Two processes with a slot each, or one with two.
TwoHosts == (w1 :> p1) @@ (w2 :> p2)
OneHost == (w1 :> p1) @@ (w2 :> p1)

\* A job that overtakes the other.
Ranked == (j1 :> 0) @@ (j2 :> 1)
=============================================================================
