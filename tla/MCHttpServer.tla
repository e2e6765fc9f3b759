---------------------------- MODULE MCHttpServer ----------------------------
(* Instances of HttpServer for TLC.                                          *)
EXTENDS HttpServer, TLC

\* Requests are told apart by nothing but their state.
Symmetry == Permutations(Requests)
=============================================================================
