--------------------------- MODULE MCCredentials ---------------------------
(* Instances of Sessions and RefreshTokens for TLC. A server knows its       *)
(* clients by sessions or by tokens; the two share no state, so a behaviour  *)
(* is about one of them.                                                     *)
EXTENDS Sessions, RefreshTokens, TLC

VARIABLE mechanism

CredentialsInit ==
  /\ mechanism \in {"session", "token"}
  /\ Init
  /\ RInit

CredentialsNext ==
  \/ mechanism = "session" /\ Next /\ UNCHANGED <<mechanism, tokens>>
  \/ mechanism = "token" /\ RNext /\ UNCHANGED <<mechanism, vars>>

CredentialsSpec ==
  CredentialsInit /\ [][CredentialsNext]_<<mechanism, vars, tokens>>

Symmetry == Permutations(Requests)
=============================================================================
