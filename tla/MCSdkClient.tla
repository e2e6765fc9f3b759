---------------------------- MODULE MCSdkClient ----------------------------
(* Instances of SdkClient for TLC.                                         *)
EXTENDS SdkClient, TLC

CONSTANTS r1, r2, r3, r4, get, post

\* Three callers of one GET and one of a POST.
Mixed == (r1 :> get) @@ (r2 :> get) @@ (r3 :> get) @@ (r4 :> post)
=============================================================================
