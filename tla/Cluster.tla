------------------------------ MODULE Cluster ------------------------------
(* NativeAdapter.listenClustered() (packages/native/src/index.ts): the       *)
(* primary process forks workers, replaces those that exit, kills those      *)
(* that miss heartbeats, restarts all of them on SIGUSR2 and takes them down *)
(* on SIGTERM. One action is one event of the primary: a message, an exit, a *)
(* timer or a signal. A worker is the position of its record in "worker".    *)
EXTENDS Naturals, FiniteSetsExt, Sequences, Functions

CONSTANTS
  Targets,       \* the choices for targetWorkers
  Parallelisms,  \* the choices for _restartParallelism
  MaxReplaced,   \* bound: workers that restarts find, all together
  MaxFaults      \* bound: workers that exit by themselves or hang

ASSUME ClusterAssumption ==
  /\ Targets \subseteq Nat \ {0} /\ Parallelisms \subseteq Nat \ {0}
  /\ MaxReplaced \in Nat /\ MaxFaults \in Nat

VARIABLES
  target,        \* targetWorkers
  parallelism,   \* _restartParallelism
  worker,        \* the workers forked so far, in liveWorkers unless "gone"
  timers,        \* respawn timers that are set
  restart,       \* the rolling restarts: whom to replace, and who is next
  up,            \* initialBootComplete
  primary,       \* "running", "down" (isShuttingDown) or "exited"
  faults         \* workers that went wrong so far

options == <<target, parallelism>>
clusterVars == <<options, worker, timers, restart, up, primary, faults>>

\* A replacement carries the listener of its restart and the worker whose
\* place it takes; NoListener is that of the others.
NoListener == <<0, 0>>

Record == [state : {"STARTING", "READY", "DRAINING", "gone"},
           reported : BOOLEAN,              \* it has sent WORKER_READY
           hung : BOOLEAN,                  \* its event loop is blocked
           signal : {"none", "TERM", "KILL"},
           listener : Nat \X Nat]

Workers == DOMAIN worker
Live == {w \in Workers : worker[w].state # "gone"}

\* No more workers are ever forked: the first ones, a replacement and perhaps
\* a respawn for each that a restart finds, and a respawn for each that fails.
MaxForks == Max(Targets) + 2 * MaxReplaced + MaxFaults

ClusterTypeOK ==
  /\ target \in Targets /\ parallelism \in Parallelisms
  /\ worker \in Seq(Record)
  /\ Len(worker) <= MaxForks /\ timers \in Nat
  /\ restart \in Seq([pids : Seq(Workers), next : Nat])
  /\ \A w \in Workers : worker[w].listener[1] \in 0..Len(restart)
  /\ up \in BOOLEAN
  /\ primary \in {"running", "down", "exited"}
  /\ faults \in 0..MaxFaults

\* spawnWorker()
Forked(listener) ==
  [state |-> "STARTING", reported |-> FALSE, hung |-> FALSE,
   signal |-> "none", listener |-> listener]

ClusterInit ==
  /\ target \in Targets /\ parallelism \in Parallelisms
  /\ worker = [i \in 1..target |-> Forked(NoListener)]
  /\ timers = 0 /\ restart = <<>>
  /\ up = FALSE /\ primary = "running" /\ faults = 0

Fault == faults < MaxFaults /\ faults' = faults + 1

\* A record that is told to drain, and its process sent SIGTERM.
Drained(rec) ==
  IF rec.state = "gone" THEN rec
  ELSE [rec EXCEPT !.state = "DRAINING",
                   !.signal = IF @ = "KILL" THEN @ ELSE "TERM"]

\* Mutant of Replaced: the last worker is left out.
ReplacedShort(ws, k) ==
  IF restart[k].next >= Len(restart[k].pids) THEN ws
  ELSE Append(ws, Forked(<<k, restart[k].pids[restart[k].next]>>))

\* replaceNext() of restart k, given the records ws.
Replaced(ws, k) ==
  IF restart[k].next > Len(restart[k].pids) THEN ws
  ELSE Append(ws, Forked(<<k, restart[k].pids[restart[k].next]>>))

\* A worker that has left liveWorkers.
Gone == [Forked(NoListener) EXCEPT !.state = "gone"]

\* Mutant of ReplacedBy: the worker after the replaced one goes as well.
ReplacedByDrainsNext(ws, k, old) ==
  Replaced([i \in DOMAIN ws |->
              IF i \in {old, old + 1} THEN Drained(ws[i]) ELSE ws[i]], k)

\* The replacement of old is ready: old drains, and the next one has its turn.
ReplacedBy(ws, k, old) == Replaced([ws EXCEPT ![old] = Drained(@)], k)

\* WORKER_READY, whatever the record says by now.
WorkerReady(w) ==
  LET rec == worker[w]
      k   == rec.listener[1]
      ws  == [worker EXCEPT ![w].state = "READY", ![w].reported = TRUE,
                            ![w].listener = NoListener]
  IN /\ rec.state # "gone" /\ ~rec.reported /\ ~rec.hung
     /\ worker' = IF k = 0 THEN ws ELSE ReplacedBy(ws, k, rec.listener[2])
     /\ restart' = IF Len(worker') = Len(worker) THEN restart
                   ELSE [restart EXCEPT ![k].next = @ + 1]
     /\ up' = (up \/ Cardinality(Live) = target)
     /\ UNCHANGED <<options, timers, primary, faults>>

\* Mutant of Exit: nobody is missed who exits while a restart is going on.
ExitInRestart(w) ==
  /\ worker' = [worker EXCEPT ![w] = Gone]
  /\ timers' = IF primary = "running" /\ restart = <<>> THEN timers + 1
               ELSE timers
  /\ UNCHANGED <<options, restart, up, primary>>

\* The 'exit' event: unless the worker was told to drain, another is due.
Exit(w) ==
  /\ worker' = [worker EXCEPT ![w] = Gone]
  /\ timers' = IF primary = "running" /\ worker[w].state # "DRAINING"
               THEN timers + 1 ELSE timers
  /\ UNCHANGED <<options, restart, up, primary>>

\* A worker exits because of a signal; one that hangs takes no SIGTERM.
SignalledExits(w) ==
  /\ worker[w].state # "gone"
  /\ worker[w].signal = "KILL" \/ (worker[w].signal = "TERM" /\ ~worker[w].hung)
  /\ Exit(w)
  /\ UNCHANGED faults

\* A worker exits by itself.
Crashes(w) ==
  /\ worker[w].state # "gone" /\ worker[w].signal = "none"
  /\ Fault
  /\ Exit(w)

\* A worker that serves is caught in a loop.
Hangs(w) ==
  /\ worker[w].state = "READY" /\ worker[w].signal = "none" /\ ~worker[w].hung
  /\ Fault
  /\ worker' = [worker EXCEPT ![w].hung = TRUE]
  /\ UNCHANGED <<options, timers, restart, up, primary>>

\* The check of the heartbeats: only those of READY workers are missed.
MissesHeartbeats(w) ==
  /\ primary = "running"
  /\ worker[w].state = "READY" /\ worker[w].hung /\ worker[w].signal # "KILL"
  /\ worker' = [worker EXCEPT ![w].signal = "KILL"]
  /\ UNCHANGED <<options, timers, restart, up, primary, faults>>

\* A respawn timer; it does not look whether the process is shutting down.
Respawn ==
  /\ timers > 0
  /\ timers' = timers - 1
  /\ worker' = Append(worker, Forked(NoListener))
  /\ UNCHANGED <<options, restart, up, primary, faults>>

\* Workers that the restarts so far have found.
Replacements == FoldFunction(LAMBDA r, n : Len(r.pids) + n, 0, restart)

\* SIGUSR2: every worker there is will be replaced, in the order in which they
\* were forked, parallelism at a time. A restart that is going on goes on. With
\* no worker there is nothing to do.
SIGUSR2 ==
  LET n     == Cardinality(Live)
      first == IF n < parallelism THEN n ELSE parallelism
      k     == Len(restart) + 1
  IN /\ primary = "running" /\ Live # {}
     /\ Replacements + n <= MaxReplaced
     /\ \E pids \in [1..n -> Live] :
          /\ \A i, j \in 1..n : i < j => pids[i] < pids[j]
          /\ restart' = Append(restart, [pids |-> pids, next |-> first + 1])
          /\ worker' = worker \o [i \in 1..first |-> Forked(<<k, pids[i]>>)]
     /\ UNCHANGED <<options, timers, up, primary, faults>>

\* SIGTERM to the primary.
SIGTERM ==
  /\ primary = "running"
  /\ primary' = IF Live = {} THEN "exited" ELSE "down"
  /\ worker' = [w \in Workers |-> Drained(worker[w])]
  /\ UNCHANGED <<options, timers, restart, up, faults>>

\* Nobody is left to wait for, or the force timer has run out.
PrimaryExits ==
  /\ primary = "down"
  /\ primary' = "exited"
  /\ UNCHANGED <<options, worker, timers, restart, up, faults>>

ClusterNext ==
  /\ primary # "exited"
  /\ \/ \E w \in Workers :
          WorkerReady(w) \/ SignalledExits(w) \/ Crashes(w) \/ Hangs(w)
            \/ MissesHeartbeats(w)
     \/ Respawn \/ SIGUSR2 \/ SIGTERM \/ PrimaryExits

\* An event of worker w that is bound to come.
Progress(w) ==
  /\ primary # "exited" /\ w \in Workers
  /\ WorkerReady(w) \/ SignalledExits(w) \/ MissesHeartbeats(w)

ClusterSpec == ClusterInit /\ [][ClusterNext]_clusterVars

\* Workers report, die of signals and are checked; timers run out.
FairSpec ==
  /\ ClusterSpec
  /\ \A w \in 1..MaxForks : WF_clusterVars(Progress(w))
  /\ WF_clusterVars(primary # "exited" /\ Respawn)

-----------------------------------------------------------------------------
\* Workers that serve as far as the primary can know.
Serving == {w \in Workers : worker[w].state = "READY" /\ worker[w].signal # "TERM"}

\* Workers about to serve that take nobody's place.
Coming == {w \in Workers : /\ worker[w].state = "STARTING"
                           /\ worker[w].listener = NoListener}

\* Exits, respawn timers, replacements and restarts that overlap never lose a
\* place: until the shutdown each of the target places has a worker that
\* serves, one on its way or a timer that will fork one. A replacement is
\* never counted before it is ready, so a restart costs no capacity.
PlacesKept ==
  primary = "running" => Cardinality(Serving \cup Coming) + timers >= target

\* Workers may exit and hang at any time, in a restart too: the pool is at
\* its full size again and again, with workers that answer.
CapacityReturns ==
  []<>(\/ primary # "running"
       \/ Cardinality({w \in Serving : ~worker[w].hung}) >= target)

\* As long as no worker fails, each restart comes to its end although others
\* overlap it: all the workers it found are told to drain or gone.
RestartEnds ==
  \A k \in 1..MaxReplaced :
    k \in DOMAIN restart ~>
      \/ faults > 0 \/ primary # "running"
      \/ k \in DOMAIN restart /\ \A i \in DOMAIN restart[k].pids :
           worker[restart[k].pids[i]].state \in {"DRAINING", "gone"}
=============================================================================
