--------------------------- MODULE SchedulerLoop ---------------------------
(***************************************************************************)
(* The worker loop of one JobScheduler: start(), stop(), tick() with its   *)
(* poll timers and setImmediate callbacks, the slots reserved by calls of  *)
(* acquireNext in flight, and the onClose hook of jobsModule.              *)
(*                                                                         *)
(* One action is one callback of the event loop.  Timers are counted, not  *)
(* timed: a pending one may fire at any moment.  this.timer remembers one  *)
(* of them, the last one set; stop() can clear no other.                   *)
(*                                                                         *)
(* Nothing in the code bounds the forgotten timers and the callbacks.      *)
(* Their counters saturate: a counter at its bound stands for that many or *)
(* more, so no callback is ever held back.                                 *)
(***************************************************************************)
EXTENDS Naturals

CONSTANTS
  MaxConcurrency,   \* SchedulerOptions.maxConcurrency
  Mounted,          \* the scheduler was made by jobsModule
  MaxStrays,        \* bound: pending timers that this.timer has forgotten
  MaxImmediates     \* bound: pending setImmediate callbacks

ASSUME LoopAssumption ==
  /\ MaxConcurrency \in Nat \ {0}
  /\ Mounted \in BOOLEAN
  /\ MaxStrays \in Nat \ {0}
  /\ MaxImmediates \in Nat \ {0}

VARIABLES
  running,      \* this.running
  timer,        \* the timer in this.timer is pending
  strays,       \* the other pending poll timers
  immediates,   \* pending setImmediate(() => this.tick())
  pending,      \* this.pendingAcquires
  active,       \* this.activeWorkers.size
  drain         \* where the last call of stop() is

vars == <<running, timer, strays, immediates, pending, active, drain>>

TypeOK ==
  /\ running \in BOOLEAN
  /\ timer \in BOOLEAN
  /\ strays \in 0..MaxStrays
  /\ immediates \in 0..MaxImmediates
  /\ pending \in Nat
  /\ active \in Nat
  /\ drain \in {"none", "waiting", "resolved", "forced"}

Init ==
  /\ running = FALSE
  /\ timer = FALSE
  /\ strays = 0
  /\ immediates = 0
  /\ pending = 0
  /\ active = 0
  /\ drain = "none"

\* One more, and the possible values of one less, of a saturating counter.
More(n, bound) == IF n < bound THEN n + 1 ELSE bound
Less(n, bound) == {n - 1} \cup (IF n = bound THEN {bound} ELSE {})

-----------------------------------------------------------------------------
(* tick().  The parameters are the timers still pending when it is called. *)

\* this.timer = setTimeout(...): a timer it still held becomes a stray.
SetTimer(t, s) ==
  /\ timer' = TRUE
  /\ strays' = IF t THEN More(s, MaxStrays) ELSE s

\* Mutants of Tick: acquires in flight are not counted, the concurrency test
\* is lost, or the test of this.running.
TickIgnoresPending(on, t, s) ==
  \/ /\ on /\ active < MaxConcurrency
     /\ pending' = pending + (MaxConcurrency - active)
     /\ timer' = t /\ strays' = s
  \/ /\ on => active >= MaxConcurrency
     /\ timer' = t /\ strays' = s
     /\ UNCHANGED pending
TickNeverAcquires(on, t, s) ==
  \/ /\ on /\ pending = 0
     /\ SetTimer(t, s)
     /\ UNCHANGED pending
  \/ /\ on => pending > 0
     /\ timer' = t /\ strays' = s
     /\ UNCHANGED pending
TickWhenStopped(on, t, s) ==
  \/ /\ active + pending < MaxConcurrency
     /\ pending' = MaxConcurrency - active
     /\ timer' = t /\ strays' = s
  \/ /\ active + pending >= MaxConcurrency /\ pending = 0
     /\ SetTimer(t, s)
     /\ UNCHANGED pending
  \/ /\ active + pending >= MaxConcurrency /\ pending > 0
     /\ timer' = t /\ strays' = s
     /\ UNCHANGED pending

\* The recursion reserves every free slot.  With no slot free and no acquire
\* in flight it comes back later; with one in flight it leaves that to it.
Tick(on, t, s) ==
  \/ /\ on /\ active + pending < MaxConcurrency
     /\ pending' = MaxConcurrency - active
     /\ timer' = t /\ strays' = s
  \/ /\ on /\ active + pending >= MaxConcurrency /\ pending = 0
     /\ SetTimer(t, s)
     /\ UNCHANGED pending
  \/ /\ on => active + pending >= MaxConcurrency /\ pending > 0
     /\ timer' = t /\ strays' = s
     /\ UNCHANGED pending

TimerFires ==
  /\ timer
  /\ Tick(running, FALSE, strays)
  /\ UNCHANGED <<running, immediates, active, drain>>

StrayFires ==
  /\ strays > 0
  /\ \E s \in Less(strays, MaxStrays) : Tick(running, timer, s)
  /\ UNCHANGED <<running, immediates, active, drain>>

ImmediateFires ==
  /\ immediates > 0
  /\ immediates' \in Less(immediates, MaxImmediates)
  /\ Tick(running, timer, strays)
  /\ UNCHANGED <<running, active, drain>>

-----------------------------------------------------------------------------
(* start() and stop().                                                     *)

Start ==
  /\ ~running
  /\ running' = TRUE
  /\ Tick(TRUE, timer, strays)
  /\ UNCHANGED <<immediates, active, drain>>

StopLoop ==
  /\ running' = FALSE
  /\ timer' = FALSE
  /\ drain' = IF active = 0 THEN "resolved" ELSE "waiting"
  /\ UNCHANGED <<strays, immediates, pending, active>>

\* The owner of the scheduler calls stop(), again perhaps.
Stop == StopLoop

\* The onClose hook of jobsModule.  The dispatcher runs the onClose hooks at
\* the end of every request.
RequestCloses ==
  /\ Mounted
  /\ StopLoop

\* The loop of stop() finds no active worker, or finds its deadline past.
DrainEnds ==
  /\ drain = "waiting"
  /\ active = 0
  /\ drain' = "resolved"
  /\ UNCHANGED <<running, timer, strays, immediates, pending, active>>

DrainDeadline ==
  /\ drain = "waiting"
  /\ active > 0
  /\ drain' = "forced"
  /\ UNCHANGED <<running, timer, strays, immediates, pending, active>>

-----------------------------------------------------------------------------
(* The promise of acquireNext settles, and jobs end, running or not.       *)

AcquireJob ==
  /\ pending > 0
  /\ pending' = pending - 1
  /\ active' = active + 1
  /\ UNCHANGED <<running, timer, strays, immediates, drain>>

\* Mutant of AcquireNothing: no timer is set.
AcquireNothingNoTimer ==
  /\ pending > 0
  /\ pending' = pending - 1
  /\ UNCHANGED <<running, timer, strays, immediates, active, drain>>

\* There is no job, or acquireNext rejects.
AcquireNothing ==
  /\ pending > 0
  /\ pending' = pending - 1
  /\ SetTimer(timer, strays)
  /\ UNCHANGED <<running, immediates, active, drain>>

\* executeJob settles, after jobTimeoutMs at the latest although nothing stops
\* the handler itself, and its finally block frees the slot.
JobEnds ==
  /\ active > 0
  /\ active' = active - 1
  /\ immediates' = More(immediates, MaxImmediates)
  /\ UNCHANGED <<running, timer, strays, pending, drain>>

Next ==
  \/ Start
  \/ Stop
  \/ RequestCloses
  \/ DrainEnds
  \/ DrainDeadline
  \/ TimerFires
  \/ StrayFires
  \/ ImmediateFires
  \/ AcquireJob
  \/ AcquireNothing
  \/ JobEnds

Spec == Init /\ [][Next]_vars

\* Callbacks fire, calls of the storage settle, and a job ends, if need be
\* by its timeout.
Fairness ==
  /\ WF_vars(TimerFires)
  /\ WF_vars(StrayFires)
  /\ WF_vars(ImmediateFires)
  /\ WF_vars(AcquireJob \/ AcquireNothing)
  /\ WF_vars(JobEnds)

FairSpec == Spec /\ Fairness

-----------------------------------------------------------------------------
(* Properties.                                                             *)

\* tick() reserves slots: the jobs running and the acquires in flight never
\* exceed maxConcurrency together, however many timers call it at once.
SlotsRespected == active + pending <= MaxConcurrency

\* tick() returns without a timer when an acquire is in flight: a running
\* loop nevertheless always has something that will call it again.
NeverStalls ==
  running => timer \/ strays > 0 \/ immediates > 0 \/ pending > 0 \/ active > 0

\* The storage is asked for work again and again until stop() is called,
\* through full slots, rejected acquires and restarts.
PollsAgain == running ~> (pending > 0 \/ ~running)

\* After stop() no timer or callback left over from before asks the storage
\* for another job.
NoAcquireAfterStop == [][~running /\ ~running' => pending' <= pending]_vars
=============================================================================
