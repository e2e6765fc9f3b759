---------------------------- MODULE MCRedisJobs ----------------------------
(* Instances of RedisJobs for TLC.                                         *)
EXTENDS RedisJobs, TLC

CONSTANTS j1, j2, w1, w2, e1, p1, p2

\* Two processes; the first also enqueues.
TwoHosts == (w1 :> p1) @@ (w2 :> p2) @@ (e1 :> p1)

\* A job that overtakes the other.
Ranked == (j1 :> 0) @@ (j2 :> 1)
=============================================================================
