--------------------------- MODULE RefreshTokens ---------------------------
(* Rotation of refresh tokens by createRefreshHandler() and the check of     *)
(* tokens against a TokenStore (packages/auth/src/index.ts). One login has   *)
(* one token at first; its client may send the tokens it knows at any time,  *)
(* several at once, and again after an error. Every await of the handler is  *)
(* a place where others come between, every call of the store may fail, done *)
(* or not, and the client may be told of an error while the handler runs on. *)
(* A token is its jti, a number that is never used twice.                    *)
EXTENDS Naturals

CONSTANTS
  Refreshes,     \* the calls of the refresh handler
  MaxTokens,     \* bound: tokens that are made up
  MaxStoreErrors \* bound: calls of the store and signatures that fail

ASSUME TokensAssumption == MaxTokens \in Nat \ {0} /\ MaxStoreErrors \in Nat

VARIABLES
  valid,         \* the tokens in the store
  issued,        \* tokens made up so far: 1..issued
  known,         \* the tokens the client has got
  step,          \* where a refresh stands
  given,         \* the token it was given
  next,          \* the token it has made up, 0 for none
  answer,        \* what its client was answered, 0 for nothing yet
  errors,        \* failures so far
  revokers,      \* history: token -> the refreshes that have revoked it
  loggedOut      \* history: the tokens the application has revoked

tokens == <<valid, issued, known, step, given, next, answer, errors, revokers,
            loggedOut>>

Tokens == 1..MaxTokens

RTypeOK ==
  /\ valid \subseteq Tokens /\ known \subseteq Tokens
  /\ issued \in Tokens
  /\ step \in [Refreshes -> {"none", "sign", "save", "revoke", "send", "done"}]
  /\ given \in [Refreshes -> Tokens \cup {0}]
  /\ next \in [Refreshes -> Tokens \cup {0}]
  /\ answer \in [Refreshes -> {0, 200, 401, 408, 500, 503}]
  /\ errors \in 0..MaxStoreErrors
  /\ revokers \in [Tokens -> SUBSET Refreshes]
  /\ loggedOut \subseteq Tokens

RInit ==
  /\ valid = {1} /\ issued = 1 /\ known = {1}
  /\ step = [c \in Refreshes |-> "none"]
  /\ given = [c \in Refreshes |-> 0]
  /\ next = [c \in Refreshes |-> 0]
  /\ answer = [c \in Refreshes |-> 0]
  /\ errors = 0
  /\ revokers = [t \in Tokens |-> {}] /\ loggedOut = {}

Error == errors < MaxStoreErrors /\ errors' = errors + 1

Goes(c, to) == step' = [step EXCEPT ![c] = to] /\ UNCHANGED answer

\* send() does nothing when the request has been answered already.
Answers(c, code) ==
  /\ step' = [step EXCEPT ![c] = "done"]
  /\ answer' = [answer EXCEPT ![c] = IF @ = 0 THEN code ELSE @]

\* The token is verified; exists() decides, and fails closed. The client has
\* its reasons to send a token that is no longer valid.
Exists(c, t) ==
  /\ step[c] = "none" /\ t \in known
  /\ given' = [given EXCEPT ![c] = t]
  /\ \/ t \in valid /\ Goes(c, "sign") /\ UNCHANGED errors
     \/ t \notin valid /\ Answers(c, 401) /\ UNCHANGED errors
     \/ Answers(c, 503) /\ Error
  /\ UNCHANGED <<valid, issued, known, next, revokers, loggedOut>>

\* The two tokens are signed.
Sign(c) ==
  /\ step[c] = "sign" /\ issued < MaxTokens
  /\ \/ /\ Goes(c, "save")
        /\ next' = [next EXCEPT ![c] = issued + 1]
        /\ issued' = issued + 1
        /\ UNCHANGED errors
     \/ Answers(c, 500) /\ Error /\ UNCHANGED <<next, issued>>
  /\ UNCHANGED <<valid, known, given, revokers, loggedOut>>

\* Mutant of SaveNext: the old token goes first, and is not restored.
SaveNextAfterRevoke(c) ==
  /\ step[c] = "save"
  /\ revokers' = [revokers EXCEPT ![given[c]] = @ \cup {c}]
  /\ \/ /\ valid' = (valid \ {given[c]}) \cup {next[c]}
        /\ Goes(c, "revoke") /\ UNCHANGED errors
     \/ /\ valid' = valid \ {given[c]}
        /\ Answers(c, 503) /\ Error
  /\ UNCHANGED <<issued, known, given, next, loggedOut>>

\* The new token is saved; when that fails, the old one is not revoked.
SaveNext(c) ==
  /\ step[c] = "save"
  /\ \/ Goes(c, "revoke") /\ UNCHANGED errors /\ valid' = valid \cup {next[c]}
     \/ Answers(c, 503) /\ Error /\ valid' \in {valid, valid \cup {next[c]}}
  /\ UNCHANGED <<issued, known, given, next, revokers, loggedOut>>

\* The old token is revoked; an error is swallowed.
Revoke(c) ==
  /\ step[c] = "revoke"
  /\ Goes(c, "send")
  /\ \/ valid' = valid \ {given[c]} /\ UNCHANGED errors
     \/ valid' \in {valid, valid \ {given[c]}} /\ Error
  /\ revokers' = [revokers EXCEPT ![given[c]] = @ \cup {c}]
  /\ UNCHANGED <<issued, known, given, next, loggedOut>>

\* The client gets the new tokens, unless it has had an answer.
Send(c) ==
  /\ step[c] = "send"
  /\ Answers(c, 200)
  /\ known' = IF answer[c] = 0 THEN known \cup {next[c]} ELSE known
  /\ UNCHANGED <<valid, issued, given, next, errors, revokers, loggedOut>>

\* The timeout of the route answers 408, or that of the adapter 504, or the
\* client has gone away: in any case the handler runs on.
CutOff(c) ==
  /\ step[c] \notin {"none", "done"} /\ answer[c] = 0
  /\ answer' = [answer EXCEPT ![c] = 408]
  /\ UNCHANGED <<valid, issued, known, step, given, next, errors, revokers,
                 loggedOut>>

\* The application revokes a token, to log somebody out.
LogOut(t) ==
  /\ t \in known \ loggedOut
  /\ valid' = valid \ {t}
  /\ loggedOut' = loggedOut \cup {t}
  /\ UNCHANGED <<issued, known, step, given, next, answer, errors, revokers>>

RNext ==
  \/ \E c \in Refreshes :
       \/ \E t \in known : Exists(c, t)
       \/ Sign(c) \/ SaveNext(c) \/ Revoke(c) \/ Send(c) \/ CutOff(c)
  \/ \E t \in known : LogOut(t)

RSpec == RInit /\ [][RNext]_tokens

-----------------------------------------------------------------------------
\* However refreshes overlap and the store fails, a client that is not logged
\* out has a token that works, or is about to be sent one. The documentation
\* promises it: the worst case is a retry. It does not hold: the old token is
\* revoked before the new one is sent, and the answer may be cut off between.
NeverLockedOut ==
  loggedOut = {} =>
    \E t \in valid :
      \/ t \in known
      \/ \E c \in Refreshes : next[c] = t /\ step[c] = "send" /\ answer[c] = 0

\* A refresh has revoked the token of a client that was told it had failed.
Deprived == \E c \in Refreshes : answer[c] = 408 /\ c \in revokers[given[c]]

\* A refresh whose handler answers with an error has cost nothing: the token
\* it was given works, unless somebody else has revoked it.
RetryIsSafe ==
  \A c \in Refreshes :
    answer[c] \in {500, 503} =>
      \/ given[c] \in valid \cup loggedOut
      \/ revokers[given[c]] \ {c} # {}

\* A token that has been exchanged is not accepted again, whoever else was
\* about to exchange it, as long as no revocation has failed.
UsedOnce ==
  \A c \in Refreshes :
    answer[c] = 200 /\ errors = 0 => given[c] \notin valid

\* What does hold: a client is locked out by nothing but an answer that was
\* cut off, whatever else fails and overlaps.
RotationSafe == (NeverLockedOut \/ Deprived) /\ RetryIsSafe /\ UsedOnce
=============================================================================
