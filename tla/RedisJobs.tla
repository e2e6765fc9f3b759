----------------------------- MODULE RedisJobs -----------------------------
(***************************************************************************)
(* The life of a job of @axiomify/jobs kept in RedisJobStorage.            *)
(*                                                                         *)
(* Every Redis command is atomic, and so is the Lua script of acquireNext; *)
(* save(), complete() and fail() read the job with GET and then issue      *)
(* several commands that write, one after the other.  A call of theirs is  *)
(* the sequence "todo" of the commands still to be issued, and other       *)
(* clients, or the death of the process, come between any two.  The        *)
(* storage never looks at a lease, so no clock is modelled, only whether   *)
(* the runAt of a job has passed.                                          *)
(***************************************************************************)
EXTENDS Naturals, Sequences

CONSTANTS
  Jobs,          \* the jobs that may be enqueued
  NoJob,         \* not a job
  Workers,       \* the worker slots (activeWorkers) of every process
  Producers,     \* the callers of enqueue
  Processes,     \* the processes
  Host,          \* the process each worker and producer belongs to
  Priority,      \* EnqueueOptions.priority of each job
  MaxAttempts,   \* EnqueueOptions.attempts
  DlqQueue,      \* SchedulerOptions.dlqQueue is not the empty string
  LateErrors,    \* a command of complete() may fail after the job was set
  MaxFaults      \* bound: the crashes and errors of a behaviour

Clients == Workers \cup Producers

ASSUME RedisAssumption ==
  /\ NoJob \notin Jobs
  /\ Workers \cap Producers = {}
  /\ Host \in [Clients -> Processes]
  /\ Priority \in [Jobs -> Nat]
  /\ MaxAttempts \in Nat
  /\ DlqQueue \in BOOLEAN
  /\ LateErrors \in BOOLEAN
  /\ MaxFaults \in Nat

VARIABLES
  job,      \* the keys axiomify:job:<id>
  pending,  \* the sorted set pending_zset of the queue
  listed,   \* the sets axiomify:queue:<queue>:jobs that each job is in
  tracked,  \* the set axiomify:jobs:all
  due,      \* the jobs whose runAt has passed
  pc,       \* where each client is
  held,     \* the job it is busy with
  copy,     \* the job.attempts a worker was given
  cand,     \* the candidates its acquireNext has left to try
  todo,     \* the commands its call of the storage has still to issue
  faults    \* the faults that have happened

db == <<job, pending, listed, tracked>>
client == <<pc, held, copy, todo>>
vars == <<db, due, client, cand, faults>>

Status == {"new", "pending", "running", "completed", "failed"}
Queues == {"main", "dlq"}
Job == [status : Status, queue : Queues, attempts : Nat]
Phase == {"idle", "lock", "granted", "run", "complete", "completing", "fail", "dlq",
          "saving"}

Command ==
  [op : {"set"}, val : Job]
    \cup [op : {"zadd", "zrem", "track"}]
    \cup [op : {"sadd", "srem"}, queue : Queues]

TypeOK ==
  /\ job \in [Jobs -> Job]
  /\ pending \subseteq Jobs
  /\ listed \in [Jobs -> SUBSET Queues]
  /\ tracked \subseteq Jobs
  /\ due \subseteq Jobs
  /\ pc \in [Clients -> Phase]
  /\ held \in [Clients -> Jobs \cup {NoJob}]
  /\ copy \in [Clients -> Nat]
  /\ cand \in [Workers -> SUBSET Jobs]
  /\ \A c \in Clients :
       /\ \A i \in 1..Len(todo[c]) : todo[c][i] \in Command
       /\ todo[c] # <<>> <=> pc[c] \in {"completing", "saving"}
       /\ held[c] = NoJob <=> pc[c] \in {"idle", "lock"}
  /\ faults \in 0..MaxFaults

Exists(j) == job[j].status # "new"

Init ==
  /\ job = [j \in Jobs |-> [status |-> "new", queue |-> "main", attempts |-> 0]]
  /\ pending = {}
  /\ listed = [j \in Jobs |-> {}]
  /\ tracked = {}
  /\ due = {}
  /\ pc = [c \in Clients |-> "idle"]
  /\ held = [c \in Clients |-> NoJob]
  /\ copy = [c \in Clients |-> 0]
  /\ cand = [w \in Workers |-> {}]
  /\ todo = [c \in Clients |-> <<>>]
  /\ faults = 0

Goto(c, p) ==
  /\ pc' = [pc EXCEPT ![c] = p]
  /\ todo' = [todo EXCEPT ![c] = <<>>]
  /\ UNCHANGED <<held, copy>>

\* Client c issues the commands cs, one by one.
Issue(c, p, cs) ==
  /\ pc' = [pc EXCEPT ![c] = p]
  /\ todo' = [todo EXCEPT ![c] = cs]
  /\ UNCHANGED <<held, copy>>

\* The clients in cs are done with their jobs.
Release(cs) ==
  /\ pc' = [c \in Clients |-> IF c \in cs THEN "idle" ELSE pc[c]]
  /\ held' = [c \in Clients |-> IF c \in cs THEN NoJob ELSE held[c]]
  /\ copy' = [c \in Clients |-> IF c \in cs THEN 0 ELSE copy[c]]
  /\ todo' = [c \in Clients |-> IF c \in cs THEN <<>> ELSE todo[c]]

Fault == faults < MaxFaults /\ faults' = faults + 1

-----------------------------------------------------------------------------
(* Commands that write.                                                    *)

Set(val) == [op |-> "set", val |-> val]
Zadd == [op |-> "zadd"]
Zrem == [op |-> "zrem"]
Track == [op |-> "track"]
Sadd(q) == [op |-> "sadd", queue |-> q]
Srem(q) == [op |-> "srem", queue |-> q]

\* Mutant of Apply: a job is never added to the sorted set.
ApplyDropsZadd(c, cmd) ==
  LET j == held[c] IN
  /\ job' = IF cmd.op = "set" THEN [job EXCEPT ![j] = cmd.val] ELSE job
  /\ pending' = IF cmd.op = "zrem" THEN pending \ {j} ELSE pending
  /\ listed' = CASE cmd.op = "sadd" -> [listed EXCEPT ![j] = @ \cup {cmd.queue}]
                 [] cmd.op = "srem" -> [listed EXCEPT ![j] = @ \ {cmd.queue}]
                 [] OTHER -> listed
  /\ tracked' = IF cmd.op = "track" THEN tracked \cup {j} ELSE tracked

\* Redis executes a command of client c about the job it holds.
Apply(c, cmd) ==
  LET j == held[c] IN
  /\ job' = IF cmd.op = "set" THEN [job EXCEPT ![j] = cmd.val] ELSE job
  /\ pending' = CASE cmd.op = "zadd" -> pending \cup {j}
                  [] cmd.op = "zrem" -> pending \ {j}
                  [] OTHER -> pending
  /\ listed' = CASE cmd.op = "sadd" -> [listed EXCEPT ![j] = @ \cup {cmd.queue}]
                 [] cmd.op = "srem" -> [listed EXCEPT ![j] = @ \ {cmd.queue}]
                 [] OTHER -> listed
  /\ tracked' = IF cmd.op = "track" THEN tracked \cup {j} ELSE tracked

\* A retry sets runAt to a moment to come, which the Lua script of a worker
\* that has read its clock already refuses: the job is no candidate of it.
SetsRunAt(c, cmd) ==
  /\ cmd.op = "set"
  /\ cmd.val.status = "pending"
  /\ c \in Workers

\* The next command of a call; after the last one the call returns.
Exec(c) ==
  /\ todo[c] # <<>>
  /\ Apply(c, Head(todo[c]))
  /\ IF SetsRunAt(c, Head(todo[c]))
       THEN /\ due' = due \ {held[c]}
            /\ cand' = [w \in Workers |-> cand[w] \ {held[c]}]
       ELSE UNCHANGED <<due, cand>>
  /\ IF Len(todo[c]) = 1
       THEN Release({c})
       ELSE Issue(c, pc[c], Tail(todo[c]))
  /\ UNCHANGED faults

-----------------------------------------------------------------------------
(* enqueue and acquireNext.                                                *)

\* save() of a job with a fresh id, to be run at once or later.
Enqueue(c, j) ==
  /\ pc[c] = "idle"
  /\ ~Exists(j)
  /\ \A d \in Clients : held[d] # j
  /\ due' \in {due, due \cup {j}}
  /\ pc' = [pc EXCEPT ![c] = "saving"]
  /\ held' = [held EXCEPT ![c] = j]
  /\ todo' = [todo EXCEPT ![c] =
       <<Set([status |-> "pending", queue |-> "main", attempts |-> 0]),
         Track, Sadd("main"), Zadd>>]
  /\ UNCHANGED <<db, copy, cand, faults>>

\* ZRANGEBYSCORE and MGET.  What changes between the two, the Lua script
\* looks at again.
Poll(w) ==
  /\ pc[w] = "idle"
  /\ cand' = [cand EXCEPT ![w] =
                {j \in pending \cap due : job[j].status = "pending"}]
  /\ pc' = [pc EXCEPT ![w] = IF cand'[w] = {} THEN "idle" ELSE "lock"]
  /\ UNCHANGED <<db, due, held, copy, todo, faults>>

\* The candidate tried next; the order of one priority is left open.
Foremost(w, j) ==
  /\ j \in cand[w]
  /\ \A k \in cand[w] : Priority[k] <= Priority[j]

\* Mutants of Lockable: the script trusts the candidate the worker has read,
\* or locks a job for its first attempt only.
LockableAny(j) == job[j].queue = "main"
LockableFresh(j) ==
  job[j].status = "pending" /\ j \in due /\ job[j].attempts = 0

\* The condition of the Lua script.
Lockable(j) == job[j].status = "pending" /\ j \in due

\* Mutant of LuaLock: the attempt is counted in the key alone.
LuaLockCounts(j) ==
  /\ job' = [job EXCEPT ![j].status = "running", ![j].attempts = @ + 1]
  /\ pending' = pending \ {j}
  /\ UNCHANGED <<listed, tracked>>

\* What the Lua script writes.
LuaLock(j) ==
  /\ job' = [job EXCEPT ![j].status = "running"]
  /\ pending' = pending \ {j}
  /\ UNCHANGED <<listed, tracked>>

\* The script locks the job.
Locked(w, j) ==
  /\ pc[w] = "lock"
  /\ Foremost(w, j)
  /\ Lockable(j)
  /\ LuaLock(j)
  /\ pc' = [pc EXCEPT ![w] = "granted"]
  /\ held' = [held EXCEPT ![w] = j]
  /\ copy' = [copy EXCEPT ![w] = job[j].attempts]
  /\ cand' = [cand EXCEPT ![w] = @ \ {j}]
  /\ UNCHANGED <<due, todo, faults>>

\* Its reply arrives and the handler is called.
Begin(w) ==
  /\ pc[w] = "granted"
  /\ Goto(w, "run")
  /\ cand' = [cand EXCEPT ![w] = {}]
  /\ UNCHANGED <<db, due, faults>>

\* Its reply is lost: the error is ignored and the next candidate tried.
ReplyLost(w) ==
  /\ pc[w] = "granted"
  /\ Fault
  /\ pc' = [pc EXCEPT ![w] = "lock"]
  /\ held' = [held EXCEPT ![w] = NoJob]
  /\ copy' = [copy EXCEPT ![w] = 0]
  /\ UNCHANGED <<db, due, cand, todo>>

\* The script returns nil, or fails without having changed anything.
Refused(w, j) ==
  /\ pc[w] = "lock"
  /\ Foremost(w, j)
  /\ \/ ~Lockable(j) /\ UNCHANGED faults
     \/ Lockable(j) /\ Fault
  /\ cand' = [cand EXCEPT ![w] = @ \ {j}]
  /\ UNCHANGED <<db, due, client>>

\* No candidate is left: acquireNext returns null.
NoneLeft(w) ==
  /\ pc[w] = "lock"
  /\ cand[w] = {}
  /\ Goto(w, "idle")
  /\ UNCHANGED <<db, due, cand, faults>>

-----------------------------------------------------------------------------
(* executeJob, complete, fail and the dead-letter save.                    *)

\* handleJobFailure decides on the attempts of the worker's own copy.
LastAttempt(w) == copy[w] + 1 >= MaxAttempts

HandleJobFailure(w) ==
  Goto(w, IF LastAttempt(w) /\ DlqQueue THEN "dlq" ELSE "fail")

HandlerReturns(w) ==
  /\ pc[w] = "run"
  /\ Goto(w, "complete")
  /\ UNCHANGED <<db, due, cand, faults>>

\* The handler throws, runs out of time, or does not exist.
HandlerFails(w) ==
  /\ pc[w] = "run"
  /\ HandleJobFailure(w)
  /\ UNCHANGED <<db, due, cand, faults>>

\* complete(): the job that GET returned is written back.
CompleteGet(w) ==
  /\ pc[w] = "complete"
  /\ Issue(w, "completing",
           <<Set([job[held[w]] EXCEPT !.status = "completed"]), Zrem>>)
  /\ UNCHANGED <<db, due, cand, faults>>

\* A command of complete() fails, and with it the job.
CompleteRejects(w) ==
  /\ \/ pc[w] = "complete"
     \/ pc[w] = "completing" /\ (LateErrors \/ Len(todo[w]) = 2)
  /\ Fault
  /\ HandleJobFailure(w)
  /\ UNCHANGED <<db, due, cand>>

\* Mutant of FailGet: attempts is written back as it was read.
FailGetUncounted(w) ==
  LET got == job[held[w]] IN
  /\ pc[w] = "fail"
  /\ Issue(w, "saving",
       IF got.attempts + 1 < MaxAttempts /\ ~LastAttempt(w)
         THEN <<Set([got EXCEPT !.status = "pending"]), Zadd>>
         ELSE <<Set([got EXCEPT !.status = "failed"]), Zrem>>)
  /\ UNCHANGED <<db, due, cand, faults>>

\* fail(): a retry if neither the worker nor the job has it for the last.
FailGet(w) ==
  LET got == [job[held[w]] EXCEPT !.attempts = @ + 1] IN
  /\ pc[w] = "fail"
  /\ Issue(w, "saving",
       IF got.attempts < MaxAttempts /\ ~LastAttempt(w)
         THEN <<Set([got EXCEPT !.status = "pending"]), Zadd>>
         ELSE <<Set([got EXCEPT !.status = "failed"]), Zrem>>)
  /\ UNCHANGED <<db, due, cand, faults>>

\* save() of the dead letter, which leaves the queue before it is set.  The
\* ZREM at its end is about the dead-letter queue, where nothing is pending.
DlqGet(w) ==
  /\ pc[w] = "dlq"
  /\ Issue(w, "saving",
       (IF job[held[w]].queue = "main" THEN <<Srem("main"), Zrem>> ELSE <<>>)
         \o <<Set([status |-> "failed", queue |-> "dlq",
                   attempts |-> copy[w] + 1]),
              Track, Sadd("dlq")>>)
  /\ UNCHANGED <<db, due, cand, faults>>

\* save() ignores an error of the commands that take the job out of its old
\* queue, skips what is left of them and goes on with the SET.
UnlistRejects(w) ==
  /\ pc[w] = "saving"
  /\ Len(todo[w]) > 3 /\ Head(todo[w]).op \in {"srem", "zrem"}
  /\ Fault
  /\ Issue(w, "saving", SubSeq(todo[w], Len(todo[w]) - 2, Len(todo[w])))
  /\ UNCHANGED <<db, due, cand>>

-----------------------------------------------------------------------------
\* What the clients in cs were about to issue is never issued.
CutShort(cs) ==
  /\ Fault
  /\ Release(cs)
  /\ cand' = [w \in Workers |-> IF w \in cs THEN {} ELSE cand[w]]
  /\ UNCHANGED <<db, due>>

\* A process dies and is started again; so it does when a command of a
\* worker's fail() or save() fails, which nobody catches.
Crash(p) ==
  LET cs == {c \in Clients : Host[c] = p} IN
  /\ \E c \in cs : pc[c] # "idle"
  /\ CutShort(cs)

\* A command of a producer's save() fails and enqueue() rejects; what the
\* commands before it have written stays.
EnqueueRejects(c) == pc[c] = "saving" /\ CutShort({c})

\* The runAt of a job passes.
Matures(j) ==
  /\ job[j].status = "pending"
  /\ j \notin due
  /\ due' = due \cup {j}
  /\ UNCHANGED <<db, client, cand, faults>>

Acquire(w) ==
  \/ Poll(w)
  \/ NoneLeft(w)
  \/ Begin(w)
  \/ \E j \in Jobs : Locked(w, j) \/ Refused(w, j)

Next ==
  \/ \E c \in Producers : EnqueueRejects(c) \/ \E j \in Jobs : Enqueue(c, j)
  \/ \E c \in Clients : Exec(c)
  \/ \E w \in Workers :
       \/ Acquire(w)
       \/ ReplyLost(w)
       \/ HandlerReturns(w)
       \/ HandlerFails(w)
       \/ CompleteGet(w)
       \/ CompleteRejects(w)
       \/ FailGet(w)
       \/ DlqGet(w)
       \/ UnlistRejects(w)
  \/ \E p \in Processes : Crash(p)
  \/ \E j \in Jobs : Matures(j)

Spec == Init /\ [][Next]_vars

\* Every command gets its answer, idle slots go on polling, a handler ends or
\* is cut off by runWithTimeout, and time passes.
FairSpec ==
  /\ Spec
  /\ \A c \in Clients : WF_vars(Exec(c))
  /\ \A w \in Workers :
       /\ WF_vars(Acquire(w))
       /\ WF_vars(HandlerFails(w) \/ HandlerReturns(w))
       /\ WF_vars(CompleteGet(w))
       /\ WF_vars(FailGet(w))
       /\ WF_vars(DlqGet(w))
  /\ \A j \in Jobs : WF_vars(Matures(j))

-----------------------------------------------------------------------------
(* Properties.                                                             *)

\* Client c is about to write the job it holds: the outcome is not yet known.
Undecided(c) ==
  pc[c] \in {"completing", "saving"} =>
    \E i \in 1..Len(todo[c]) : todo[c][i].op = "set"

Owners(j) == {w \in Workers : held[w] = j /\ Undecided(w)}

\* The Lua script: however many workers have the same candidates, and
\* wherever they are between two commands, a job is in the hands of one.
OneOwner == \A v, w \in Workers : held[v] = held[w] /\ held[v] # NoJob => v = w

\* handleJobFailure counts attempts on the copy the script returned, fail() on
\* what its GET returned: until the outcome is written the copy is not stale,
\* so the two decide alike about the last attempt.
CopyIsCurrent ==
  \A w \in Workers :
    held[w] # NoJob /\ Undecided(w) => copy[w] = job[held[w]].attempts

\* The sorted set holds no job that is running or settled: acquireNext never
\* finds an entry that can only be refused.
IndexIsPending == \A j \in pending : job[j].status = "pending"

\* save() and fail() set a pending job first and add it to the sorted set
\* some commands later: until then its client is still at work on it, so as
\* long as nothing has failed no pending job is out of the sight of
\* acquireNext for good.
PendingIsIndexed ==
  \A j \in Jobs : faults = 0 /\ job[j].status = "pending" =>
    \/ j \in pending
    \/ \E c \in Clients :
         held[c] = j /\ \E i \in 1..Len(todo[c]) : todo[c][i] = Zadd

\* save() moves a dead letter from set to set with its key between the two:
\* as long as nothing has failed, a job no client is busy with is listed under
\* the queue of its key, alone.
ListedOnce ==
  \A j \in Jobs :
    /\ faults = 0 /\ Exists(j)
    /\ \A c \in Clients : held[c] # j
    => listed[j] = {job[j].queue} /\ j \in tracked

\* The sorted set and the index sets agree with the keys, although no command
\* of the storage writes two of them at once.
IndexAgrees == IndexIsPending /\ PendingIsIndexed /\ ListedOnce

\* fail() and the dead-letter save(): a running job goes back to the queue,
\* or fails, with exactly one more attempt on the record.
EveryFailureCounts ==
  [][\A j \in Jobs :
       /\ job[j].status = "running"
       /\ job'[j].status \in {"pending", "failed"}
       => job'[j].attempts = job[j].attempts + 1]_vars

\* As long as nothing fails between two commands, every job that was enqueued
\* is some day completed or failed, however many workers compete for it.
EveryJobSettles ==
  \A j \in Jobs : job[j].status = "pending" ~>
                    job[j].status \in {"completed", "failed"} \/ faults > 0

\* The promise of the queue; an outcome is recorded by the SET.
JL == INSTANCE JobLifecycle
        WITH status <- [j \in Jobs |-> job[j].status],
             owners <- [j \in Jobs |-> Owners(j)]

\* RedisJobStorage and executeJob implement the lifecycle a job is promised,
\* crashes between two commands and lost replies included.
Implements == JL!Spec
=============================================================================
