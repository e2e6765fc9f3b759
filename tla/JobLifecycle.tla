---------------------------- MODULE JobLifecycle ----------------------------
(***************************************************************************)
(* What the job queue of @axiomify/jobs promises to whoever enqueues a     *)
(* job, without leases, clocks, statements or retries' bookkeeping: a job  *)
(* is in the hands of at most one worker, only the worker that has it      *)
(* decides its outcome, a job is handed out again only after its previous  *)
(* holder has let go of it, and an outcome is final.                       *)
(***************************************************************************)
CONSTANTS
  Jobs,      \* the jobs that may be enqueued
  Workers    \* the worker slots of every process

VARIABLES
  status,    \* what the queue records about each job
  owners     \* the workers that have the job in hand

vars == <<status, owners>>

Status == {"new", "pending", "running", "completed", "failed", "deleted"}

\* The outcomes the holder of a job may record.  A job whose record was
\* deleted under its holder stays deleted, or reappears as a failed one.
Outcome(s) ==
  CASE s = "running" -> {"pending", "completed", "failed"}
    [] s = "deleted" -> {"deleted", "failed"}
    [] OTHER -> {}

Init ==
  /\ status = [j \in Jobs |-> "new"]
  /\ owners = [j \in Jobs |-> {}]

Submit(j) ==
  /\ status[j] = "new"
  /\ status' = [status EXCEPT ![j] = "pending"]
  /\ UNCHANGED owners

\* A worker takes a job nobody has; a running one was abandoned.
Claim(j, w) ==
  /\ status[j] \in {"pending", "running"}
  /\ owners[j] = {}
  /\ status' = [status EXCEPT ![j] = "running"]
  /\ owners' = [owners EXCEPT ![j] = {w}]

\* The holder records the outcome and lets go.
Settle(j, w) ==
  /\ owners[j] = {w}
  /\ \E s \in Outcome(status[j]) : status' = [status EXCEPT ![j] = s]
  /\ owners' = [owners EXCEPT ![j] = {}]

\* Workers disappear without a word.
Abandon(gone) ==
  /\ owners' = [j \in Jobs |-> owners[j] \ gone]
  /\ UNCHANGED status

Wipe ==
  /\ status' = [j \in Jobs |-> IF status[j] = "new" THEN "new" ELSE "deleted"]
  /\ UNCHANGED owners

Next ==
  \/ \E j \in Jobs : Submit(j)
  \/ \E j \in Jobs, w \in Workers : Claim(j, w) \/ Settle(j, w)
  \/ \E gone \in SUBSET Workers : Abandon(gone)
  \/ Wipe

Spec == Init /\ [][Next]_vars
=============================================================================
