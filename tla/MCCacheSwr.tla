----------------------------- MODULE MCCacheSwr -----------------------------
(* Instances of CacheSwr for TLC: requests are interchangeable.              *)
EXTENDS CacheSwr, TLC

Symmetry == Permutations(Requests)
=============================================================================
