-------------------------- MODULE RedisJobsProofs --------------------------
(***************************************************************************)
(* The storage in Redis for any number of jobs, workers, producers and     *)
(* faults: every call of save(), complete() and fail() is somewhere in one *)
(* of five sequences of commands, and the client that issues it is alone   *)
(* with its job until the last one of them.                                *)
(***************************************************************************)
EXTENDS RedisJobs, SequenceTheorems, TLAPS

Val(s, q, n) == [status |-> s, queue |-> q, attempts |-> n]

\* What is left of the save() of a new job.
NewZ == <<Zadd>>
NewS == <<Sadd("main"), Zadd>>
NewT == <<Track, Sadd("main"), Zadd>>
New == <<Set(Val("pending", "main", 0)), Track, Sadd("main"), Zadd>>

\* What is left of complete(), of fail() that retries and of fail() that
\* gives up, all by a worker whose copy has n attempts.
Completes(n) == <<Set(Val("completed", "main", n)), Zrem>>
Retries(n) == <<Set(Val("pending", "main", n + 1)), Zadd>>
GivesUp(n) == <<Set(Val("failed", "main", n + 1)), Zrem>>
Unindex == <<Zrem>>

\* What is left of the save() of a dead letter.
DeadS == <<Sadd("dlq")>>
DeadT == <<Track, Sadd("dlq")>>
Dead(n) == <<Set(Val("failed", "dlq", n + 1)), Track, Sadd("dlq")>>
DeadZ(n) == <<Zrem, Set(Val("failed", "dlq", n + 1)), Track, Sadd("dlq")>>
DeadU(n) ==
  <<Srem("main"), Zrem, Set(Val("failed", "dlq", n + 1)), Track, Sadd("dlq")>>

-----------------------------------------------------------------------------
\* As long as nothing has failed, job j is in these sets.
Lists(j, qs) == faults = 0 => listed[j] = qs
Tracks(j) == faults = 0 => j \in tracked

\* Producer c, from command to command.
ProducerInv(c, j) ==
  /\ pc[c] = "saving"
  /\ \/ todo[c] = New /\ job[j].status = "new" /\ Lists(j, {})
     \/ /\ job[j] = Val("pending", "main", 0)
        /\ \/ todo[c] = NewT /\ Lists(j, {})
           \/ todo[c] = NewS /\ Lists(j, {}) /\ Tracks(j)
           \/ todo[c] = NewZ /\ Lists(j, {"main"}) /\ Tracks(j)

\* A job whose outcome worker w has not written yet; a late error of
\* complete() leaves it completed.
Open(w, j) ==
  /\ job[j].attempts = copy[w]
  /\ job[j].queue = "main"
  /\ job[j].status = "running" \/ (LateErrors /\ job[j].status = "completed")
  /\ Tracks(j)

\* Worker w, from the script that locks its job to the SET of the outcome ...
OpenInv(w, j) ==
  /\ Open(w, j)
  /\ \/ /\ pc[w] \in {"granted", "run", "complete", "fail", "dlq"}
        /\ todo[w] = <<>>
        /\ Lists(j, {"main"})
     \/ /\ pc[w] = "completing" /\ todo[w] = Completes(copy[w])
        /\ Lists(j, {"main"})
     \/ /\ pc[w] = "saving"
        /\ \/ todo[w] \in {Retries(copy[w]), GivesUp(copy[w]), DeadU(copy[w])}
              /\ Lists(j, {"main"})
           \/ todo[w] \in {DeadZ(copy[w]), Dead(copy[w])} /\ Lists(j, {})

\* ... and from there to the last command.
SettledInv(w, j) ==
  /\ Tracks(j)
  /\ \/ /\ pc[w] = "completing" /\ todo[w] = Unindex
        /\ job[j] = Val("completed", "main", copy[w]) /\ Lists(j, {"main"})
     \/ /\ pc[w] = "saving" /\ todo[w] = NewZ
        /\ job[j] = Val("pending", "main", copy[w] + 1) /\ Lists(j, {"main"})
     \/ /\ pc[w] = "saving" /\ todo[w] = Unindex
        /\ job[j] = Val("failed", "main", copy[w] + 1) /\ Lists(j, {"main"})
     \/ /\ pc[w] = "saving" /\ todo[w] \in {DeadT, DeadS}
        /\ job[j] = Val("failed", "dlq", copy[w] + 1) /\ Lists(j, {})

\* A client with a job.  Nobody can get hold of a job that is being written
\* as pending: the sorted set does not name it, and no worker has it left
\* for a candidate from before.
ClientInv(c, j) ==
  /\ j \notin pending
  /\ job[j].status \in {"new", "pending"} => \A w \in Workers : j \notin cand[w]
  /\ IF c \in Producers
       THEN ProducerInv(c, j)
       ELSE OpenInv(c, j) \/ SettledInv(c, j)

\* A job no client has.
RestInv(j) ==
  /\ Exists(j) => Lists(j, {job[j].queue}) /\ Tracks(j)
  /\ ~Exists(j) => Lists(j, {})
  /\ faults = 0 /\ job[j].status = "pending" => j \in pending

\* Any job.
JobInv(j) ==
  /\ j \in pending => job[j].status = "pending"
  /\ job[j].queue # "main" => job[j].status = "failed"
  /\ \A w \in Workers : j \in cand[w] => Exists(j)

Idle(c) ==
  /\ todo[c] = <<>>
  /\ pc[c] \in {"idle", "lock"}
  /\ pc[c] = "lock" => c \in Workers

Types ==
  /\ job \in [Jobs -> Job]
  /\ pending \subseteq Jobs
  /\ listed \in [Jobs -> SUBSET Queues]
  /\ tracked \subseteq Jobs
  /\ due \subseteq Jobs
  /\ pc \in [Clients -> Phase]
  /\ held \in [Clients -> Jobs \cup {NoJob}]
  /\ copy \in [Clients -> Nat]
  /\ cand \in [Workers -> SUBSET Jobs]
  /\ todo = [c \in Clients |-> todo[c]]
  /\ faults \in 0..MaxFaults

Inv ==
  /\ Types
  /\ \A c, d \in Clients : held[c] = held[d] /\ held[c] # NoJob => c = d
  /\ \A c \in Clients : held[c] = NoJob => Idle(c)
  /\ \A c \in Clients : held[c] # NoJob => ClientInv(c, held[c])
  /\ \A j \in Jobs : (\A c \in Clients : held[c] # j) => RestInv(j)
  /\ \A j \in Jobs : JobInv(j)
-----------------------------------------------------------------------------
LEMMA Seq1 ==
  ASSUME NEW a
  PROVE  <<a>> # <<>> /\ Head(<<a>>) = a /\ Len(<<a>>) = 1
OBVIOUS

LEMMA Seq2 ==
  ASSUME NEW a, NEW b
  PROVE  /\ <<a, b>> # <<>> /\ Head(<<a, b>>) = a /\ Len(<<a, b>>) = 2
         /\ Tail(<<a, b>>) = <<b>>
OBVIOUS

LEMMA Seq3 ==
  ASSUME NEW a, NEW b, NEW c
  PROVE  /\ <<a, b, c>> # <<>> /\ Head(<<a, b, c>>) = a
         /\ Len(<<a, b, c>>) = 3 /\ Tail(<<a, b, c>>) = <<b, c>>
OBVIOUS

LEMMA Seq4 ==
  ASSUME NEW a, NEW b, NEW c, NEW d
  PROVE  /\ <<a, b, c, d>> # <<>> /\ Head(<<a, b, c, d>>) = a
         /\ Len(<<a, b, c, d>>) = 4 /\ Tail(<<a, b, c, d>>) = <<b, c, d>>
OBVIOUS

LEMMA Seq5 ==
  ASSUME NEW a, NEW b, NEW c, NEW d, NEW e
  PROVE  /\ <<a, b, c, d, e>> # <<>> /\ Head(<<a, b, c, d, e>>) = a
         /\ Len(<<a, b, c, d, e>>) = 5
         /\ Tail(<<a, b, c, d, e>>) = <<b, c, d, e>>
OBVIOUS

\* The last three commands of four and of five.
LEMMA LastOfFour ==
  ASSUME NEW a, NEW b, NEW c, NEW d
  PROVE  SubSeq(<<a, b, c, d>>, 2, 4) = <<b, c, d>>
<1> DEFINE S == {a, b, c, d}
           s == <<a, b, c, d>>
<1>1. \A i \in 2..4 : s[i] \in S
  OBVIOUS
<1>2. <<b, c, d>> \in Seq(S) /\ Len(<<b, c, d>>) = 3
  OBVIOUS
<1>3. /\ SubSeq(s, 2, 4) \in Seq(S) /\ Len(SubSeq(s, 2, 4)) = 3
      /\ \A i \in 1..3 : SubSeq(s, 2, 4)[i] = s[2 + i - 1]
  BY <1>1, SubSeqProperties
<1>4. \A i \in 1..3 : s[2 + i - 1] = <<b, c, d>>[i]
  OBVIOUS
<1>5. SubSeq(s, 2, 4) = <<b, c, d>>
  <2> HIDE DEF S, s
  <2> QED BY <1>2, <1>3, <1>4, SeqEqual
<1> QED BY <1>5

LEMMA LastOfFive ==
  ASSUME NEW a, NEW b, NEW c, NEW d, NEW e
  PROVE  SubSeq(<<a, b, c, d, e>>, 3, 5) = <<c, d, e>>
<1> DEFINE S == {a, b, c, d, e}
           s == <<a, b, c, d, e>>
<1>1. \A i \in 3..5 : s[i] \in S
  OBVIOUS
<1>2. <<c, d, e>> \in Seq(S) /\ Len(<<c, d, e>>) = 3
  OBVIOUS
<1>3. /\ SubSeq(s, 3, 5) \in Seq(S) /\ Len(SubSeq(s, 3, 5)) = 3
      /\ \A i \in 1..3 : SubSeq(s, 3, 5)[i] = s[3 + i - 1]
  BY <1>1, SubSeqProperties
<1>4. \A i \in 1..3 : s[3 + i - 1] = <<c, d, e>>[i]
  OBVIOUS
<1>5. SubSeq(s, 3, 5) = <<c, d, e>>
  <2>1. PICK T : T = S
    OBVIOUS
  <2>2. PICK t \in Seq(T) : t = SubSeq(s, 3, 5)
    BY <1>3, <2>1
  <2>3. PICK u \in Seq(T) : u = <<c, d, e>>
    BY <1>2, <2>1
  <2>4. Len(t) = 3 /\ Len(u) = 3
    BY <1>2, <1>3, <2>2, <2>3
  <2>5. \A i \in 1..3 : t[i] = u[i]
    BY <1>3, <1>4, <2>2, <2>3
  <2>6. t = u
    BY <2>4, <2>5, SeqEqual
  <2> QED BY <2>2, <2>3, <2>6
<1> QED BY <1>5

LEMMA TwoAndThree ==
  ASSUME NEW a, NEW b, NEW c, NEW d, NEW e
  PROVE  <<a, b>> \o <<c, d, e>> = <<a, b, c, d, e>>
<1> DEFINE S == {a, b, c, d, e}
           s == <<a, b>>
           t == <<c, d, e>>
           u == <<a, b, c, d, e>>
<1>1. /\ s \in Seq(S) /\ Len(s) = 2
      /\ t \in Seq(S) /\ Len(t) = 3
      /\ u \in Seq(S) /\ Len(u) = 5
  OBVIOUS
<1>2. /\ s \o t \in Seq(S) /\ Len(s \o t) = 5
      /\ \A i \in 1..5 : (s \o t)[i] = IF i <= 2 THEN s[i] ELSE t[i - 2]
  <2> HIDE DEF S, s, t, u
  <2>1. /\ s \o t \in Seq(S)
        /\ Len(s \o t) = Len(s) + Len(t)
        /\ \A i \in 1..Len(s) + Len(t) :
             (s \o t)[i] = IF i <= Len(s) THEN s[i] ELSE t[i - Len(s)]
    BY <1>1, ConcatProperties, Zenon
  <2>2. Len(s) + Len(t) = 5 /\ Len(s) = 2
    BY <1>1
  <2>3. \A i \in 1..5 : (s \o t)[i] = IF i <= 2 THEN s[i] ELSE t[i - 2]
    BY <2>1, <2>2, Zenon
  <2> QED BY <2>1, <2>2, <2>3
<1>3. \A i \in 1..5 : u[i] = IF i <= 2 THEN s[i] ELSE t[i - 2]
  OBVIOUS
<1> HIDE DEF S, s, t, u
<1>4. \A i \in 1..Len(s \o t) : (s \o t)[i] = u[i]
  BY <1>1, <1>2, <1>3
<1>5. s \o t = u
  BY <1>1, <1>2, <1>4, SeqEqual
<1> QED BY <1>5 DEF s, t, u

\* Sequence s begins with command cmd and goes on with the commands of t.
Call(s, cmd, t) == s # <<>> /\ Head(s) = cmd /\ Tail(s) = t /\ Len(s) # 1
Last(s, cmd) == s # <<>> /\ Head(s) = cmd /\ Len(s) = 1

\* Every call, command by command.
LEMMA Plans ==
  ASSUME NEW n
  PROVE  /\ Call(New, Set(Val("pending", "main", 0)), NewT)
         /\ Call(NewT, Track, NewS)
         /\ Call(NewS, Sadd("main"), NewZ)
         /\ Last(NewZ, Zadd)
         /\ Call(Completes(n), Set(Val("completed", "main", n)), Unindex)
         /\ Call(Retries(n), Set(Val("pending", "main", n + 1)), NewZ)
         /\ Call(GivesUp(n), Set(Val("failed", "main", n + 1)), Unindex)
         /\ Last(Unindex, Zrem)
         /\ Call(DeadU(n), Srem("main"), DeadZ(n))
         /\ Call(DeadZ(n), Zrem, Dead(n))
         /\ Call(Dead(n), Set(Val("failed", "dlq", n + 1)), DeadT)
         /\ Call(DeadT, Track, DeadS)
         /\ Last(DeadS, Sadd("dlq"))
<1>1. ASSUME NEW a PROVE Last(<<a>>, a)
  BY Seq1 DEF Last
<1>2. ASSUME NEW a, NEW b PROVE Call(<<a, b>>, a, <<b>>)
  BY Seq2 DEF Call
<1>3. ASSUME NEW a, NEW b, NEW c PROVE Call(<<a, b, c>>, a, <<b, c>>)
  BY Seq3 DEF Call
<1>4. ASSUME NEW a, NEW b, NEW c, NEW d
      PROVE  Call(<<a, b, c, d>>, a, <<b, c, d>>)
  BY Seq4 DEF Call
<1>5. ASSUME NEW a, NEW b, NEW c, NEW d, NEW e
      PROVE  Call(<<a, b, c, d, e>>, a, <<b, c, d, e>>)
  BY Seq5 DEF Call
<1>6. Last(NewZ, Zadd) /\ Last(Unindex, Zrem) /\ Last(DeadS, Sadd("dlq"))
  BY <1>1, Zenon DEF NewZ, Unindex, DeadS
<1>7. /\ Call(NewS, Sadd("main"), NewZ)
      /\ Call(Completes(n), Set(Val("completed", "main", n)), Unindex)
      /\ Call(Retries(n), Set(Val("pending", "main", n + 1)), NewZ)
      /\ Call(GivesUp(n), Set(Val("failed", "main", n + 1)), Unindex)
      /\ Call(DeadT, Track, DeadS)
  BY <1>2, Zenon
     DEF NewS, NewZ, Completes, Retries, GivesUp, Unindex, DeadT, DeadS
<1>8. /\ Call(NewT, Track, NewS)
      /\ Call(Dead(n), Set(Val("failed", "dlq", n + 1)), DeadT)
  BY <1>3, Zenon DEF NewT, NewS, Dead, DeadT
<1>9. /\ Call(New, Set(Val("pending", "main", 0)), NewT)
      /\ Call(DeadZ(n), Zrem, Dead(n))
  BY <1>4, Zenon DEF New, NewT, DeadZ, Dead
<1>10. Call(DeadU(n), Srem("main"), DeadZ(n))
  BY <1>5, Zenon DEF DeadU, DeadZ
<1> QED BY <1>6, <1>7, <1>8, <1>9, <1>10

\* What the commands do.
LEMMA Commands ==
  ASSUME NEW c
  PROVE  /\ \A v : Apply(c, Set(v)) =>
              /\ job' = [job EXCEPT ![held[c]] = v]
              /\ UNCHANGED <<pending, listed, tracked>>
         /\ Apply(c, Zadd) =>
              /\ pending' = pending \cup {held[c]}
              /\ UNCHANGED <<job, listed, tracked>>
         /\ Apply(c, Zrem) =>
              /\ pending' = pending \ {held[c]}
              /\ UNCHANGED <<job, listed, tracked>>
         /\ Apply(c, Track) =>
              /\ tracked' = tracked \cup {held[c]}
              /\ UNCHANGED <<job, pending, listed>>
         /\ \A q : Apply(c, Sadd(q)) =>
              /\ listed' = [listed EXCEPT ![held[c]] = @ \cup {q}]
              /\ UNCHANGED <<job, pending, tracked>>
         /\ \A q : Apply(c, Srem(q)) =>
              /\ listed' = [listed EXCEPT ![held[c]] = @ \ {q}]
              /\ UNCHANGED <<job, pending, tracked>>
BY DEF Apply, Set, Zadd, Zrem, Track, Sadd, Srem

LEMMA RunAt ==
  ASSUME NEW c
  PROVE  /\ \A v : SetsRunAt(c, Set(v)) <=> v.status = "pending" /\ c \in Workers
         /\ ~SetsRunAt(c, Zadd) /\ ~SetsRunAt(c, Zrem) /\ ~SetsRunAt(c, Track)
         /\ \A q : ~SetsRunAt(c, Sadd(q)) /\ ~SetsRunAt(c, Srem(q))
BY DEF SetsRunAt, Set, Zadd, Zrem, Track, Sadd, Srem

-----------------------------------------------------------------------------
(* Clients with different jobs do not disturb each other.                  *)

\* Nothing about client d has changed.
Still(d) ==
  /\ pc'[d] = pc[d] /\ held'[d] = held[d]
  /\ copy'[d] = copy[d] /\ todo'[d] = todo[d]

\* Nothing about job k has changed, but that workers may have given it up.
Alone(k) ==
  /\ job'[k] = job[k] /\ listed'[k] = listed[k]
  /\ k \in pending' <=> k \in pending
  /\ k \in tracked' <=> k \in tracked
  /\ \A w \in Workers : k \in cand'[w] => k \in cand[w]

LEMMA ClientStays ==
  ASSUME NEW d, NEW k, ClientInv(d, k), Still(d), Alone(k),
         faults' = 0 => faults = 0
  PROVE  ClientInv(d, k)'
<1> USE DEF Still, Alone, Lists, Tracks
<1>1. ProducerInv(d, k) => ProducerInv(d, k)'
  BY DEF ProducerInv
<1>2. OpenInv(d, k) => OpenInv(d, k)'
  BY DEF OpenInv, Open
<1>3. SettledInv(d, k) => SettledInv(d, k)'
  BY DEF SettledInv
<1> QED BY <1>1, <1>2, <1>3 DEF ClientInv

LEMMA JobStays ==
  ASSUME NEW k, Alone(k), faults' = 0 => faults = 0
  PROVE  /\ RestInv(k) => RestInv(k)'
         /\ JobInv(k) => JobInv(k)'
BY DEF Alone, RestInv, JobInv, Lists, Tracks, Exists

\* A step of client c that concerns job j alone keeps the invariant if it
\* does for c and j.
LEMMA OneJob ==
  ASSUME Inv, NEW c \in Clients, NEW j \in Jobs, Types',
         \A d \in Clients : d # c => held[d] # j /\ Still(d),
         held[c] \in {j, NoJob},
         \A k \in Jobs : k # j => Alone(k),
         faults' = 0 => faults = 0,
         JobInv(j)',
         \/ held'[c] = NoJob /\ Idle(c)' /\ RestInv(j)'
         \/ held'[c] = j /\ ClientInv(c, j)'
  PROVE  Inv'
<1> USE RedisAssumption
<1>0. \A d \in Clients : d # c => held'[d] = held[d]
  BY DEF Still
<1>1. \A d, e \in Clients : held'[d] = held'[e] /\ held'[d] # NoJob => d = e
  BY <1>0 DEF Inv
<1>2. ASSUME NEW d \in Clients, held'[d] = NoJob PROVE Idle(d)'
  BY <1>2 DEF Inv, Idle, Still
<1>3. ASSUME NEW d \in Clients, held'[d] # NoJob PROVE ClientInv(d, held[d])'
  <2>1. CASE d = c
    BY <1>3, <2>1
  <2>2. CASE d # c
    <3>1. held'[d] = held[d] /\ held[d] \in Jobs /\ held[d] # j
      BY <1>0, <1>3, <2>2 DEF Inv, Types
    <3>2. ClientInv(d, held[d]) /\ Still(d) /\ Alone(held[d])
      BY <1>3, <2>2, <3>1 DEF Inv
    <3>3. ASSUME NEW k, k = held[d] PROVE ClientInv(d, k)'
      BY <3>2, <3>3, ClientStays
    <3> QED BY <3>1, <3>3
  <2> QED BY <2>1, <2>2
<1>4. ASSUME NEW k \in Jobs, \A d \in Clients : held'[d] # k PROVE RestInv(k)'
  <2>1. CASE k = j
    BY <1>4, <2>1
  <2>2. CASE k # j
    <3>1. \A d \in Clients : held[d] # k
      BY <1>0, <1>4, <2>2
    <3> QED BY <2>2, <3>1, JobStays DEF Inv
  <2> QED BY <2>1, <2>2
<1>5. \A k \in Jobs : JobInv(k)'
  BY JobStays DEF Inv
<1> QED BY <1>1, <1>2, <1>3, <1>4, <1>5 DEF Inv

-----------------------------------------------------------------------------
(* Steps of a worker on its way to the outcome.                            *)

LEMMA Busy ==
  ASSUME Inv, NEW w \in Workers,
         pc[w] \in {"granted", "run", "complete", "fail", "dlq"}
  PROVE  /\ held[w] \in Jobs /\ held[w] # NoJob
         /\ todo[w] = <<>> /\ Open(w, held[w]) /\ Lists(held[w], {"main"})
<1> USE RedisAssumption
<1>1. w \in Clients /\ w \notin Producers
  BY DEF Clients
<1>2. held[w] # NoJob /\ held[w] \in Jobs
  BY <1>1 DEF Inv, Idle, Types
<1>3. ClientInv(w, held[w])
  BY <1>1, <1>2 DEF Inv
<1>4. OpenInv(w, held[w])
  BY <1>1, <1>3 DEF ClientInv, SettledInv
<1> QED BY <1>2, <1>4 DEF OpenInv

\* The commands that worker w issues next, if any.
LEMMA WorkerStep ==
  ASSUME Inv, NEW w \in Workers, held[w] \in Jobs,
         NEW p \in Phase, NEW cs,
         pc' = [pc EXCEPT ![w] = p], todo' = [todo EXCEPT ![w] = cs],
         UNCHANGED <<db, due, held, copy>>,
         cand' \in [Workers -> SUBSET Jobs],
         \A v \in Workers : cand'[v] \subseteq cand[v],
         faults' \in 0..MaxFaults, faults' = 0 => faults = 0,
         OpenInv(w, held[w])'
  PROVE  Inv'
<1> USE RedisAssumption
<1>0. w \in Clients /\ w \notin Producers
  BY DEF Clients
<1> DEFINE j == held[w]
<1>1. \A d \in Clients : d # w => held[d] # j /\ Still(d)
  BY <1>0 DEF Inv, Types, Still
<1>2. \A k \in Jobs : Alone(k)
  BY DEF Alone, db
<1>3. Types'
  BY <1>0 DEF Inv, Types, db
<1>4. JobInv(j)' /\ held'[w] = j
  BY <1>2, JobStays DEF Inv
<1>5. ClientInv(w, j)
  BY <1>0 DEF Inv
<1>6. OpenInv(w, j)'
  BY <1>4
<1>7. ClientInv(w, j)'
  BY <1>0, <1>5, <1>6 DEF ClientInv, db
<1> HIDE DEF j
<1> QED BY <1>0, <1>1, <1>2, <1>3, <1>4, <1>7, OneJob DEF j

\* Worker w goes on with its job, the outcome of which is still open.
Others(c) == \A d \in Clients : d # c => Still(d)
Toils(w) ==
  /\ held[w] \in Jobs /\ Open(w, held[w]) /\ OpenInv(w, held[w])'
  /\ UNCHANGED <<job, held>> /\ Others(w)

LEMMA OpenStep ==
  ASSUME Inv, NEW w \in Workers, held[w] \in Jobs, Open(w, held[w]),
         NEW p \in Phase, NEW cs,
         pc' = [pc EXCEPT ![w] = p], todo' = [todo EXCEPT ![w] = cs],
         UNCHANGED <<db, due, held, copy>>,
         cand' \in [Workers -> SUBSET Jobs],
         \A v \in Workers : cand'[v] \subseteq cand[v],
         faults' \in 0..MaxFaults, faults' = 0 => faults = 0,
         faults' = 0 => Lists(held[w], {"main"}),
         \/ p \in {"granted", "run", "complete", "fail", "dlq"} /\ cs = <<>>
         \/ p = "completing" /\ cs = Completes(copy[w])
         \/ /\ p = "saving"
            /\ cs \in {Retries(copy[w]), GivesUp(copy[w]), DeadU(copy[w])}
         \/ p = "saving" /\ cs = Dead(copy[w]) /\ faults' # 0
  PROVE  Inv' /\ Toils(w)
<1>0. w \in Clients
  BY DEF Clients
<1>1. /\ pc'[w] = p /\ todo'[w] = cs
      /\ copy'[w] = copy[w] /\ held'[w] = held[w]
      /\ job' = job /\ listed' = listed /\ tracked' = tracked
  BY <1>0 DEF Inv, Types, db
<1>2. Open(w, held[w])'
  BY <1>1 DEF Open, Tracks
<1>3. Lists(held[w], {"main"})'
  BY <1>1 DEF Lists
<1>4. faults' # 0 => Lists(held[w], {})'
  BY DEF Lists
<1>5. OpenInv(w, held[w])'
  BY <1>1, <1>2, <1>3, <1>4 DEF OpenInv
<1>6. Others(w)
  BY <1>0 DEF Inv, Types, Others, Still
<1> QED BY <1>1, <1>5, <1>6, WorkerStep DEF Toils

LEMMA BeginKeeps ==
  ASSUME Inv, NEW w \in Workers, Begin(w)
  PROVE  Inv' /\ Toils(w)
<1>1. held[w] \in Jobs /\ Open(w, held[w]) /\ Lists(held[w], {"main"})
  BY Busy DEF Begin
<1>2. /\ cand' \in [Workers -> SUBSET Jobs]
      /\ \A v \in Workers : cand'[v] \subseteq cand[v]
  BY DEF Begin, Inv, Types
<1>3. "run" \in Phase /\ faults \in 0..MaxFaults
  BY DEF Phase, Inv, Types
<1> QED BY <1>1, <1>2, <1>3, OpenStep DEF Begin, Goto

\* The handler, complete() as it ends badly, and what follows.
LEMMA FailureKeeps ==
  ASSUME Inv, NEW w \in Workers, held[w] \in Jobs, Open(w, held[w]),
         HandleJobFailure(w), UNCHANGED <<db, due, cand>>,
         faults' \in 0..MaxFaults, faults' = 0 => faults = 0,
         faults' = 0 => Lists(held[w], {"main"})
  PROVE  Inv' /\ Toils(w)
<1> DEFINE p == IF LastAttempt(w) /\ DlqQueue THEN "dlq" ELSE "fail"
<1>1. p \in Phase /\ p \in {"granted", "run", "complete", "fail", "dlq"}
  BY DEF Phase
<1>2. /\ cand' \in [Workers -> SUBSET Jobs]
      /\ \A v \in Workers : cand'[v] \subseteq cand[v]
  BY DEF Inv, Types
<1>3. /\ pc' = [pc EXCEPT ![w] = p] /\ todo' = [todo EXCEPT ![w] = <<>>]
      /\ UNCHANGED <<held, copy>>
  BY DEF HandleJobFailure, Goto
<1> HIDE DEF p
<1> QED BY <1>1, <1>2, <1>3, OpenStep

LEMMA HandlerKeeps ==
  ASSUME Inv, NEW w \in Workers, HandlerReturns(w) \/ HandlerFails(w)
  PROVE  Inv' /\ Toils(w)
<1>0. pc[w] = "run"
  BY DEF HandlerReturns, HandlerFails
<1>1. held[w] \in Jobs /\ Open(w, held[w]) /\ Lists(held[w], {"main"})
  BY <1>0, Busy
<1>2. cand \in [Workers -> SUBSET Jobs] /\ faults \in 0..MaxFaults
  BY DEF Inv, Types
<1>3. CASE HandlerReturns(w)
  BY <1>1, <1>2, <1>3, OpenStep DEF HandlerReturns, Goto, Phase
<1>4. CASE HandlerFails(w)
  BY <1>1, <1>2, <1>4, FailureKeeps DEF HandlerFails
<1> QED BY <1>3, <1>4

\* complete() writes back what it has read, and that is the job as it was
\* handed to the worker.
LEMMA CompleteGetKeeps ==
  ASSUME Inv, NEW w \in Workers, CompleteGet(w)
  PROVE  Inv' /\ Toils(w)
<1>1. held[w] \in Jobs /\ Open(w, held[w]) /\ Lists(held[w], {"main"})
  BY Busy DEF CompleteGet
<1>2. cand \in [Workers -> SUBSET Jobs] /\ faults \in 0..MaxFaults
  BY DEF Inv, Types
<1>3. [job[held[w]] EXCEPT !.status = "completed"] = Val("completed", "main", copy[w])
  BY <1>1 DEF Inv, Types, Job, Open, Val
<1>4. todo' = [todo EXCEPT ![w] = Completes(copy[w])]
  BY <1>3, Zenon DEF CompleteGet, Issue, Completes
<1> QED BY <1>1, <1>2, <1>4, OpenStep DEF CompleteGet, Issue, Phase

\* With LateErrors complete() may reject a job that is completed by then.
LEMMA CompleteRejectsKeeps ==
  ASSUME Inv, NEW w \in Workers, CompleteRejects(w)
  PROVE  Inv' /\ Toils(w)
<1> USE RedisAssumption
<1>0. w \in Clients /\ w \notin Producers
  BY DEF Clients
<1>1. faults' \in 0..MaxFaults /\ faults' # 0
  BY DEF CompleteRejects, Fault, Inv, Types
<1>2. held[w] \in Jobs /\ Open(w, held[w])
  <2>1. CASE pc[w] = "complete"
    BY <2>1, Busy
  <2>2. CASE pc[w] = "completing" /\ (LateErrors \/ Len(todo[w]) = 2)
    <3>1. held[w] # NoJob /\ held[w] \in Jobs
      BY <1>0, <2>2 DEF Inv, Idle, Types
    <3>2. OpenInv(w, held[w]) \/ SettledInv(w, held[w])
      BY <1>0, <3>1 DEF Inv, ClientInv
    <3>3. CASE OpenInv(w, held[w])
      BY <3>1, <3>3 DEF OpenInv
    <3>4. CASE SettledInv(w, held[w])
      <4>1. /\ todo[w] = Unindex /\ Tracks(held[w])
            /\ job[held[w]] = Val("completed", "main", copy[w])
        BY <2>2, <3>4 DEF SettledInv
      <4>2. LateErrors
        <5>1. Last(Unindex, Zrem)
          BY Plans
        <5> QED BY <2>2, <4>1, <5>1 DEF Last
      <4> QED BY <3>1, <4>1, <4>2 DEF Open, Val
    <3> QED BY <3>2, <3>3, <3>4
  <2> QED BY <2>1, <2>2 DEF CompleteRejects
<1> QED BY <1>1, <1>2, FailureKeeps DEF CompleteRejects

\* fail() counts on what it has read: the attempts of the copy and one more.
LEMMA FailGetKeeps ==
  ASSUME Inv, NEW w \in Workers, FailGet(w)
  PROVE  Inv' /\ Toils(w)
<1>1. held[w] \in Jobs /\ Open(w, held[w]) /\ Lists(held[w], {"main"})
  BY Busy DEF FailGet
<1>2. cand \in [Workers -> SUBSET Jobs] /\ faults \in 0..MaxFaults
  BY DEF Inv, Types
<1> DEFINE got == [job[held[w]] EXCEPT !.attempts = @ + 1]
<1>3. /\ [got EXCEPT !.status = "pending"] = Val("pending", "main", copy[w] + 1)
      /\ [got EXCEPT !.status = "failed"] = Val("failed", "main", copy[w] + 1)
  <2> PICK g \in Job : g = job[held[w]]
    BY <1>1 DEF Inv, Types
  <2>1. got = Val(g.status, g.queue, g.attempts + 1)
    BY DEF Job, Val
  <2>2. g.queue = "main" /\ g.attempts = copy[w]
    BY <1>1 DEF Open
  <2> HIDE DEF got
  <2> QED BY <2>1, <2>2 DEF Val
<1>4. \E cs \in {Retries(copy[w]), GivesUp(copy[w])} :
        todo' = [todo EXCEPT ![w] = cs]
  <2>1. todo' = [todo EXCEPT ![w] =
          IF got.attempts < MaxAttempts /\ ~LastAttempt(w)
            THEN <<Set([got EXCEPT !.status = "pending"]), Zadd>>
            ELSE <<Set([got EXCEPT !.status = "failed"]), Zrem>>]
    BY Zenon DEF FailGet, Issue
  <2> HIDE DEF got
  <2>2. \/ todo' = [todo EXCEPT ![w] =
                      <<Set([got EXCEPT !.status = "pending"]), Zadd>>]
        \/ todo' = [todo EXCEPT ![w] =
                      <<Set([got EXCEPT !.status = "failed"]), Zrem>>]
    BY <2>1, Zenon
  <2>3. \/ todo' = [todo EXCEPT ![w] = Retries(copy[w])]
        \/ todo' = [todo EXCEPT ![w] = GivesUp(copy[w])]
    BY <1>3, <2>2, Zenon DEF Retries, GivesUp
  <2> QED BY <2>3, Zenon
<1>5. /\ pc' = [pc EXCEPT ![w] = "saving"]
      /\ UNCHANGED <<held, copy, db, due, cand, faults>>
  BY Zenon DEF FailGet, Issue
<1> QED BY <1>1, <1>2, <1>4, <1>5, OpenStep DEF Phase

\* The dead letter is still in the queue of its jobs when it is saved.
LEMMA DlqGetKeeps ==
  ASSUME Inv, NEW w \in Workers, DlqGet(w)
  PROVE  Inv' /\ Toils(w)
<1>1. held[w] \in Jobs /\ Open(w, held[w]) /\ Lists(held[w], {"main"})
  BY Busy DEF DlqGet
<1>2. cand \in [Workers -> SUBSET Jobs] /\ faults \in 0..MaxFaults
  BY DEF Inv, Types
<1>3. job[held[w]].queue = "main"
  BY <1>1 DEF Open
<1>4. todo' = [todo EXCEPT ![w] =
        <<Srem("main"), Zrem>> \o <<Set(Val("failed", "dlq", copy[w] + 1)),
                                    Track, Sadd("dlq")>>]
  BY <1>3, Zenon DEF DlqGet, Issue, Val
<1>5. todo' = [todo EXCEPT ![w] = DeadU(copy[w])]
  BY <1>4, TwoAndThree, Zenon DEF DeadU
<1>6. /\ pc' = [pc EXCEPT ![w] = "saving"]
      /\ UNCHANGED <<held, copy, db, due, cand, faults>>
  BY Zenon DEF DlqGet, Issue
<1> QED BY <1>1, <1>2, <1>5, <1>6, OpenStep DEF Phase

\* An error before the SET of the dead letter skips to that SET.
LEMMA UnlistRejectsKeeps ==
  ASSUME Inv, NEW w \in Workers, UnlistRejects(w)
  PROVE  Inv' /\ Toils(w)
<1> USE RedisAssumption
<1> DEFINE n == copy[w]
<1>0. w \in Clients /\ w \notin Producers
  BY DEF Clients
<1>1. pc[w] = "saving" /\ Len(todo[w]) > 3
  BY DEF UnlistRejects
<1>2. faults' \in 0..MaxFaults /\ faults' # 0
  BY DEF UnlistRejects, Fault, Inv, Types
<1>3. held[w] # NoJob /\ held[w] \in Jobs
  BY <1>0, <1>1 DEF Inv, Idle, Types
<1>4. OpenInv(w, held[w]) \/ SettledInv(w, held[w])
  BY <1>0, <1>3 DEF Inv, ClientInv
<1>5. /\ Len(NewZ) = 1 /\ Len(Unindex) = 1 /\ Len(DeadT) = 2 /\ Len(DeadS) = 1
      /\ Len(Retries(n)) = 2 /\ Len(GivesUp(n)) = 2 /\ Len(Dead(n)) = 3
      /\ Len(DeadZ(n)) = 4 /\ Len(DeadU(n)) = 5
  BY Seq1, Seq2, Seq3, Seq4, Seq5, Zenon
     DEF NewZ, Unindex, DeadT, DeadS, Retries, GivesUp, Dead, DeadZ, DeadU
<1>a. todo[w] \notin {NewZ, Unindex, DeadT, DeadS, Retries(n), GivesUp(n), Dead(n)}
  <2>1. ~(1 > 3) /\ ~(2 > 3) /\ ~(3 > 3)
    OBVIOUS
  <2> HIDE DEF n
  <2> QED BY <1>1, <1>5, <2>1, Zenon
<1>6. ~SettledInv(w, held[w])
  BY <1>1, <1>a, Zenon DEF SettledInv
<1>7. Open(w, held[w]) /\ todo[w] \in {DeadZ(n), DeadU(n)}
  <2>1. OpenInv(w, held[w])
    BY <1>4, <1>6
  <2> QED BY <1>1, <1>a, <2>1, Zenon DEF OpenInv
<1>8. SubSeq(todo[w], Len(todo[w]) - 2, Len(todo[w])) = Dead(n)
  <2>1. SubSeq(DeadZ(n), 2, 4) = Dead(n) /\ SubSeq(DeadU(n), 3, 5) = Dead(n)
    <3> DEFINE x == Set(Val("failed", "dlq", n + 1))
               y == Sadd("dlq")
               z == Srem("main")
    <3>1. /\ SubSeq(<<Zrem, x, Track, y>>, 2, 4) = <<x, Track, y>>
          /\ SubSeq(<<z, Zrem, x, Track, y>>, 3, 5) = <<x, Track, y>>
      <4> HIDE DEF x, y, z
      <4> QED BY LastOfFour, LastOfFive
    <3>2. /\ DeadZ(n) = <<Zrem, x, Track, y>>
          /\ DeadU(n) = <<z, Zrem, x, Track, y>>
          /\ Dead(n) = <<x, Track, y>>
      BY Zenon DEF DeadZ, DeadU, Dead
    <3> HIDE DEF x, y, z
    <3> QED BY <3>1, <3>2
  <2>2. 4 - 2 = 2 /\ 5 - 2 = 3
    OBVIOUS
  <2> HIDE DEF n
  <2> QED BY <1>5, <1>7, <2>1, <2>2
<1>9. /\ pc' = [pc EXCEPT ![w] = "saving"]
      /\ todo' = [todo EXCEPT ![w] = Dead(n)]
      /\ UNCHANGED <<held, copy, db, due, cand>>
  BY <1>8, Zenon DEF UnlistRejects, Issue
<1>10. cand \in [Workers -> SUBSET Jobs]
  BY DEF Inv, Types
<1> QED BY <1>2, <1>3, <1>7, <1>9, <1>10, OpenStep DEF Phase

-----------------------------------------------------------------------------
(* The commands of a call.                                                 *)

\* The commands touch no job but j.
Only(j) ==
  /\ job' \in [Jobs -> Job] /\ listed' \in [Jobs -> SUBSET Queues]
  /\ pending' \subseteq Jobs /\ tracked' \subseteq Jobs
  /\ \A k \in Jobs : k # j =>
       /\ job'[k] = job[k] /\ listed'[k] = listed[k]
       /\ k \in pending' <=> k \in pending
       /\ k \in tracked' <=> k \in tracked

LEMMA CommandsOnly ==
  ASSUME Types, NEW c, held[c] \in Jobs
  PROVE  /\ \A v \in Job : Apply(c, Set(v)) => Only(held[c])
         /\ Apply(c, Zadd) \/ Apply(c, Zrem) \/ Apply(c, Track) => Only(held[c])
         /\ \A q \in Queues : Apply(c, Sadd(q)) => Only(held[c])
         /\ \A q \in Queues : Apply(c, Srem(q)) => Only(held[c])
<1> DEFINE j == held[c]
<1>1. ASSUME NEW v \in Job, Apply(c, Set(v)) PROVE Only(j)
  <2>1. job' = [job EXCEPT ![j] = v] /\ UNCHANGED <<pending, listed, tracked>>
    BY <1>1, Commands
  <2> QED BY <2>1 DEF Only, Types
<1>2. ASSUME Apply(c, Zadd) PROVE Only(j)
  <2>1. pending' = pending \cup {j} /\ UNCHANGED <<job, listed, tracked>>
    BY <1>2, Commands
  <2> QED BY <2>1 DEF Only, Types
<1>3. ASSUME Apply(c, Zrem) PROVE Only(j)
  <2>1. pending' = pending \ {j} /\ UNCHANGED <<job, listed, tracked>>
    BY <1>3, Commands
  <2> QED BY <2>1 DEF Only, Types
<1>4. ASSUME Apply(c, Track) PROVE Only(j)
  <2>1. tracked' = tracked \cup {j} /\ UNCHANGED <<job, pending, listed>>
    BY <1>4, Commands
  <2> QED BY <2>1 DEF Only, Types
<1>5. ASSUME NEW q \in Queues, Apply(c, Sadd(q)) PROVE Only(j)
  <2>1. /\ listed' = [listed EXCEPT ![j] = @ \cup {q}]
        /\ UNCHANGED <<job, pending, tracked>>
    BY <1>5, Commands
  <2> QED BY <2>1 DEF Only, Types
<1>6. ASSUME NEW q \in Queues, Apply(c, Srem(q)) PROVE Only(j)
  <2>1. /\ listed' = [listed EXCEPT ![j] = @ \ {q}]
        /\ UNCHANGED <<job, pending, tracked>>
    BY <1>6, Commands
  <2> QED BY <2>1 DEF Only, Types
<1> QED BY <1>1, <1>2, <1>3, <1>4, <1>5, <1>6

\* The worker that sets runAt takes the job from all candidates.
LEMMA ExecCands ==
  ASSUME Inv, NEW c \in Clients, Exec(c), held[c] \in Jobs
  PROVE  /\ due' \subseteq Jobs /\ cand' \in [Workers -> SUBSET Jobs]
         /\ \A w \in Workers : cand'[w] \subseteq cand[w]
         /\ SetsRunAt(c, Head(todo[c])) =>
              \A w \in Workers : held[c] \notin cand'[w]
<1>1. CASE SetsRunAt(c, Head(todo[c]))
  <2>1. /\ due' = due \ {held[c]}
        /\ cand' = [w \in Workers |-> cand[w] \ {held[c]}]
    BY <1>1, Zenon DEF Exec
  <2> QED BY <2>1 DEF Inv, Types
<1>2. CASE ~SetsRunAt(c, Head(todo[c]))
  <2>1. UNCHANGED <<due, cand>>
    BY <1>2, Zenon DEF Exec
  <2> QED BY <1>2, <2>1 DEF Inv, Types
<1> QED BY <1>1, <1>2

\* A command that is not the last of its call.
LEMMA CallStep ==
  ASSUME Inv, NEW c \in Clients, NEW j \in Jobs, held[c] = j, Exec(c),
         NEW cmd, NEW t, Call(todo[c], cmd, t)
  PROVE  /\ Apply(c, cmd)
         /\ pc'[c] = pc[c] /\ todo'[c] = t /\ copy'[c] = copy[c]
         /\ faults' = faults /\ held'[c] = j /\ Others(c)
         /\ Only(j) /\ JobInv(j)' /\ ClientInv(c, j)' => Inv'
<1> USE RedisAssumption
<1>1. Head(todo[c]) = cmd /\ Tail(todo[c]) = t /\ Len(todo[c]) # 1
  BY Zenon DEF Call
<1>2. /\ Apply(c, cmd) /\ faults' = faults
      /\ pc' = [pc EXCEPT ![c] = pc[c]] /\ todo' = [todo EXCEPT ![c] = t]
      /\ held' = held /\ copy' = copy
  BY <1>1, Zenon DEF Exec, Issue
<1>3. pc'[c] = pc[c] /\ todo'[c] = t /\ held'[c] = j /\ Others(c)
  BY <1>2 DEF Inv, Types, Others, Still
<1>4. ASSUME Only(j), JobInv(j)', ClientInv(c, j)' PROVE Inv'
  <2>1. Types'
    BY <1>2, <1>4, ExecCands DEF Inv, Types, Only
  <2>2. \A d \in Clients : d # c => held[d] # j /\ Still(d)
    BY <1>2 DEF Inv, Types, Still
  <2>3. \A k \in Jobs : k # j => Alone(k)
    BY <1>4, ExecCands DEF Only, Alone
  <2> QED BY <1>2, <1>4, <2>1, <2>2, <2>3, OneJob
<1> QED BY <1>2, <1>3, <1>4

\* The last command of a call.
LEMMA LastStep ==
  ASSUME Inv, NEW c \in Clients, NEW j \in Jobs, held[c] = j, Exec(c),
         NEW cmd, Last(todo[c], cmd)
  PROVE  /\ Apply(c, cmd)
         /\ faults' = faults /\ held'[c] = NoJob /\ Others(c)
         /\ Only(j) /\ JobInv(j)' /\ RestInv(j)' => Inv'
<1> USE RedisAssumption
<1>1. Head(todo[c]) = cmd /\ Len(todo[c]) = 1
  BY Zenon DEF Last
<1>2. Apply(c, cmd) /\ faults' = faults /\ Release({c})
  BY <1>1, Zenon DEF Exec
<1>3. held'[c] = NoJob /\ Others(c)
  BY <1>2 DEF Release, Others, Still
<1>4. ASSUME Only(j), JobInv(j)', RestInv(j)' PROVE Inv'
  <2>0. "idle" \in Phase
    BY DEF Phase
  <2>1. /\ pc' \in [Clients -> Phase] /\ held' \in [Clients -> Jobs \cup {NoJob}]
        /\ copy' \in [Clients -> Nat] /\ todo' = [d \in Clients |-> todo'[d]]
    BY <1>2, <2>0 DEF Release, Inv, Types
  <2>2. Types'
    BY <1>2, <1>4, <2>1, ExecCands DEF Inv, Types, Only
  <2>3. \A d \in Clients : d # c => held[d] # j /\ Still(d)
    BY <1>2 DEF Inv, Types, Still, Release
  <2>4. \A k \in Jobs : k # j => Alone(k)
    BY <1>4, ExecCands DEF Only, Alone
  <2>5. held'[c] = NoJob /\ Idle(c)'
    BY <1>2 DEF Release, Idle
  <2> QED BY <1>2, <1>4, <2>2, <2>3, <2>4, <2>5, OneJob
<1> QED BY <1>2, <1>3, <1>4

\* The SET of a new job.
Submits(j) ==
  job[j].status = "new" /\ job' = [job EXCEPT ![j] = Val("pending", "main", 0)]

\* save() of a new job, command by command.
LEMMA ExecProducer ==
  ASSUME Inv, NEW c \in Producers, Exec(c), held[c] \in Jobs
  PROVE  Inv' /\ Others(c) /\ (UNCHANGED job \/ Submits(held[c]))
<1> USE RedisAssumption
<1> PICK j \in Jobs : held[c] = j
  OBVIOUS
<1>0. c \in Clients /\ c \notin Workers
  BY DEF Clients
<1>1. /\ Types /\ ClientInv(c, j) /\ JobInv(j)
      /\ ProducerInv(c, j) /\ pc[c] = "saving" /\ j \notin pending
  BY <1>0 DEF Inv, ClientInv, ProducerInv
<1>2. Val("pending", "main", 0) \in Job /\ "main" \in Queues
  BY DEF Val, Job, Status, Queues
<1>3. CASE todo[c] = New /\ job[j].status = "new" /\ Lists(j, {})
  <2> DEFINE v == Val("pending", "main", 0)
  <2>1. Call(todo[c], Set(v), NewT)
    BY <1>3, Plans
  <2> HIDE DEF v
  <2>2. /\ Apply(c, Set(v)) /\ pc'[c] = "saving" /\ todo'[c] = NewT
        /\ faults' = faults /\ Others(c)
        /\ Only(j) /\ JobInv(j)' /\ ClientInv(c, j)' => Inv'
    BY <1>0, <1>1, <2>1, CallStep
  <2>3. job' = [job EXCEPT ![j] = v] /\ UNCHANGED <<pending, listed, tracked>>
    BY <2>2, Commands
  <2>4. Only(j)
    BY <1>1, <1>2, <2>2, CommandsOnly DEF v
  <2>5. job'[j] = v
    BY <1>1, <2>3 DEF Types
  <2>6. \A w \in Workers : j \notin cand'[w]
    BY <1>0, <1>1, <1>3, ExecCands DEF ClientInv
  <2>7. JobInv(j)'
    BY <2>5, <2>6 DEF JobInv, v, Val
  <2>8. ClientInv(c, j)'
    BY <1>1, <1>3, <2>2, <2>3, <2>5, <2>6 DEF ClientInv, ProducerInv, Lists, v
  <2> QED BY <1>3, <2>2, <2>3, <2>4, <2>7, <2>8 DEF Submits, v
<1>4. ASSUME job[j] = Val("pending", "main", 0)
      PROVE  /\ job[j].status = "pending" /\ job[j].queue = "main"
             /\ \A w \in Workers : j \notin cand'[w]
  <2>1. job[j].status = "pending" /\ job[j].queue = "main"
    BY <1>4 DEF Val
  <2> QED BY <1>0, <1>1, <2>1, ExecCands DEF ClientInv
<1>5. CASE /\ job[j] = Val("pending", "main", 0)
           /\ todo[c] = NewT /\ Lists(j, {})
  <2>1. Call(todo[c], Track, NewS)
    BY <1>5, Plans
  <2>2. /\ Apply(c, Track) /\ pc'[c] = "saving" /\ todo'[c] = NewS
        /\ faults' = faults /\ Others(c)
        /\ Only(j) /\ JobInv(j)' /\ ClientInv(c, j)' => Inv'
    BY <1>0, <1>1, <2>1, CallStep
  <2>3. tracked' = tracked \cup {j} /\ UNCHANGED <<job, pending, listed>>
    BY <2>2, Commands
  <2>4. Only(j)
    BY <1>1, <2>2, CommandsOnly
  <2>7. JobInv(j)'
    BY <1>4, <1>5, <2>3 DEF JobInv
  <2>8. ClientInv(c, j)'
    BY <1>1, <1>4, <1>5, <2>2, <2>3 DEF ClientInv, ProducerInv, Lists, Tracks
  <2> QED BY <2>2, <2>3, <2>4, <2>7, <2>8
<1>6. CASE /\ job[j] = Val("pending", "main", 0)
           /\ todo[c] = NewS /\ Lists(j, {}) /\ Tracks(j)
  <2>1. Call(todo[c], Sadd("main"), NewZ)
    BY <1>6, Plans
  <2>2. /\ Apply(c, Sadd("main")) /\ pc'[c] = "saving" /\ todo'[c] = NewZ
        /\ faults' = faults /\ Others(c)
        /\ Only(j) /\ JobInv(j)' /\ ClientInv(c, j)' => Inv'
    BY <1>0, <1>1, <2>1, CallStep
  <2>3. /\ listed' = [listed EXCEPT ![j] = @ \cup {"main"}]
        /\ UNCHANGED <<job, pending, tracked>>
    BY <2>2, Commands
  <2>4. Only(j)
    BY <1>1, <1>2, <2>2, CommandsOnly
  <2>5. Lists(j, {"main"})'
    BY <1>1, <1>6, <2>2, <2>3 DEF Types, Lists
  <2>7. JobInv(j)'
    BY <1>4, <1>6, <2>3 DEF JobInv
  <2>8. ClientInv(c, j)'
    BY <1>1, <1>4, <1>6, <2>2, <2>3, <2>5 DEF ClientInv, ProducerInv, Tracks
  <2> QED BY <2>2, <2>3, <2>4, <2>7, <2>8
<1>7. CASE /\ job[j] = Val("pending", "main", 0)
           /\ todo[c] = NewZ /\ Lists(j, {"main"}) /\ Tracks(j)
  <2>1. Last(todo[c], Zadd)
    BY <1>7, Plans
  <2>2. /\ Apply(c, Zadd) /\ faults' = faults /\ Others(c)
        /\ Only(j) /\ JobInv(j)' /\ RestInv(j)' => Inv'
    BY <1>0, <2>1, LastStep
  <2>3. pending' = pending \cup {j} /\ UNCHANGED <<job, listed, tracked>>
    BY <2>2, Commands
  <2>4. Only(j)
    BY <1>1, <2>2, CommandsOnly
  <2>7. JobInv(j)'
    BY <1>4, <1>7, <2>3 DEF JobInv
  <2>8. RestInv(j)'
    BY <1>4, <1>7, <2>2, <2>3 DEF RestInv, Lists, Tracks, Exists
  <2> QED BY <2>2, <2>3, <2>4, <2>7, <2>8
<1> QED BY <1>1, <1>3, <1>5, <1>6, <1>7 DEF ProducerInv

\* The SET of an outcome is the next command of worker w.
Decides(w, v, t) ==
  /\ Call(todo[w], Set(v), t)
  /\ v \in Job /\ v.status # "new" /\ (v.queue # "main" => v.status = "failed")

LEMMA WorkerSet ==
  ASSUME Inv, NEW w \in Workers, NEW j \in Jobs, held[w] = j, Exec(w),
         NEW v, NEW t, Decides(w, v, t)
  PROVE  /\ pc'[w] = pc[w] /\ todo'[w] = t /\ copy'[w] = copy[w]
         /\ held'[w] = j /\ Others(w)
         /\ job'[j] = v /\ job' = [job EXCEPT ![j] = v]
         /\ UNCHANGED <<listed, tracked, faults>>
         /\ SettledInv(w, j)' => Inv'
<1> USE RedisAssumption
<1>0. w \in Clients /\ w \notin Producers
  BY DEF Clients
<1>d. /\ Call(todo[w], Set(v), t)
      /\ v \in Job /\ v.status # "new" /\ (v.queue # "main" => v.status = "failed")
  BY DEF Decides
<1>1. Types /\ ClientInv(w, j) /\ j \notin pending
  BY <1>0 DEF Inv, ClientInv
<1>2. /\ Apply(w, Set(v))
      /\ pc'[w] = pc[w] /\ todo'[w] = t /\ copy'[w] = copy[w]
      /\ faults' = faults /\ held'[w] = j /\ Others(w)
      /\ Only(j) /\ JobInv(j)' /\ ClientInv(w, j)' => Inv'
  BY <1>0, <1>d, CallStep
<1>3. job' = [job EXCEPT ![j] = v] /\ UNCHANGED <<pending, listed, tracked>>
  BY <1>2, Commands
<1>4. Only(j) /\ job'[j] = v
  BY <1>1, <1>2, <1>3, <1>d, CommandsOnly DEF Types
<1>5. v.status = "pending" => \A u \in Workers : j \notin cand'[u]
  <2>1. Head(todo[w]) = Set(v)
    BY <1>d, Zenon DEF Call
  <2> QED BY <1>0, <2>1, ExecCands, RunAt
<1>6. JobInv(j)'
  BY <1>1, <1>3, <1>4, <1>d DEF JobInv, Exists
<1>7. SettledInv(w, j)' => ClientInv(w, j)'
  BY <1>0, <1>1, <1>3, <1>4, <1>5, <1>d DEF ClientInv
<1> QED BY <1>2, <1>3, <1>4, <1>6, <1>7

\* The SET of the outcome v.
Settles(w, j, v) ==
  /\ Open(w, j) /\ held'[w] = j /\ SettledInv(w, j)'
  /\ v.status \in {"completed", "pending", "failed"}
  /\ v.status # "completed" => v.attempts = copy[w] + 1
  /\ job' = [job EXCEPT ![j] = v]

LEMMA ExecOpen ==
  ASSUME Inv, NEW w \in Workers, NEW j \in Jobs, held[w] = j, Exec(w),
         OpenInv(w, j)
  PROVE  Inv' /\ Others(w) /\ (Toils(w) \/ \E v : Settles(w, j, v))
<1> USE RedisAssumption
<1>0. w \in Clients /\ w \notin Producers
  BY DEF Clients
<1> PICK n \in Nat : n = copy[w]
  BY <1>0 DEF Inv, Types
<1>1. /\ Types /\ ClientInv(w, j) /\ JobInv(j)
      /\ Open(w, j) /\ Tracks(j) /\ j \notin pending
  BY <1>0 DEF Inv, ClientInv, OpenInv, Open, Types
<1>2. /\ \A s \in {"completed", "pending", "failed"} :
           Val(s, "main", n) \in Job /\ Val(s, "main", n + 1) \in Job
      /\ Val("failed", "dlq", n + 1) \in Job
      /\ \A s, q, m : /\ Val(s, q, m).status = s /\ Val(s, q, m).queue = q
                      /\ Val(s, q, m).attempts = m
      /\ "main" \in Queues
  BY <1>1 DEF Val, Job, Status, Queues
<1>t. Tracks(j)
  BY <1>1
<1>3. todo[w] # <<>>
  BY DEF Exec
<1>4. CASE /\ pc[w] = "completing" /\ todo[w] = Completes(n)
           /\ Lists(j, {"main"})
  <2> PICK v : v = Val("completed", "main", n)
    OBVIOUS
  <2>1. Decides(w, v, Unindex)
    <3>1. Call(todo[w], Set(v), Unindex)
      BY <1>4, Plans
    <3> QED BY <1>2, <3>1 DEF Decides
  <2>2. /\ pc'[w] = pc[w] /\ todo'[w] = Unindex /\ copy'[w] = copy[w]
        /\ held'[w] = j /\ Others(w) /\ job' = [job EXCEPT ![j] = v]
        /\ job'[j] = v /\ UNCHANGED <<listed, tracked, faults>>
        /\ SettledInv(w, j)' => Inv'
    BY <2>1, WorkerSet
  <2>3. SettledInv(w, j)'
    BY <1>t, <1>4, <2>2 DEF SettledInv, Lists, Tracks
  <2>4. Settles(w, j, v)
    BY <1>1, <1>2, <2>2, <2>3 DEF Settles
  <2> QED BY <2>2, <2>3, <2>4
<1>5. CASE /\ pc[w] = "saving" /\ todo[w] = Retries(n)
           /\ Lists(j, {"main"})
  <2> PICK v : v = Val("pending", "main", n + 1)
    OBVIOUS
  <2>1. Decides(w, v, NewZ)
    <3>1. Call(todo[w], Set(v), NewZ)
      BY <1>5, Plans
    <3> QED BY <1>2, <3>1 DEF Decides
  <2>2. /\ pc'[w] = pc[w] /\ todo'[w] = NewZ /\ copy'[w] = copy[w]
        /\ held'[w] = j /\ Others(w) /\ job' = [job EXCEPT ![j] = v]
        /\ job'[j] = v /\ UNCHANGED <<listed, tracked, faults>>
        /\ SettledInv(w, j)' => Inv'
    BY <2>1, WorkerSet
  <2>3. SettledInv(w, j)'
    BY <1>t, <1>5, <2>2 DEF SettledInv, Lists, Tracks
  <2>4. Settles(w, j, v)
    BY <1>1, <1>2, <2>2, <2>3 DEF Settles
  <2> QED BY <2>2, <2>3, <2>4
<1>6. CASE /\ pc[w] = "saving" /\ todo[w] = GivesUp(n)
           /\ Lists(j, {"main"})
  <2> PICK v : v = Val("failed", "main", n + 1)
    OBVIOUS
  <2>1. Decides(w, v, Unindex)
    <3>1. Call(todo[w], Set(v), Unindex)
      BY <1>6, Plans
    <3> QED BY <1>2, <3>1 DEF Decides
  <2>2. /\ pc'[w] = pc[w] /\ todo'[w] = Unindex /\ copy'[w] = copy[w]
        /\ held'[w] = j /\ Others(w) /\ job' = [job EXCEPT ![j] = v]
        /\ job'[j] = v /\ UNCHANGED <<listed, tracked, faults>>
        /\ SettledInv(w, j)' => Inv'
    BY <2>1, WorkerSet
  <2>3. SettledInv(w, j)'
    BY <1>t, <1>6, <2>2 DEF SettledInv, Lists, Tracks
  <2>4. Settles(w, j, v)
    BY <1>1, <1>2, <2>2, <2>3 DEF Settles
  <2> QED BY <2>2, <2>3, <2>4
<1>7. CASE pc[w] = "saving" /\ todo[w] = Dead(n) /\ Lists(j, {})
  <2> PICK v : v = Val("failed", "dlq", n + 1)
    OBVIOUS
  <2>1. Decides(w, v, DeadT)
    <3>1. Call(todo[w], Set(v), DeadT)
      BY <1>7, Plans
    <3> QED BY <1>2, <3>1 DEF Decides
  <2>2. /\ pc'[w] = pc[w] /\ todo'[w] = DeadT /\ copy'[w] = copy[w]
        /\ held'[w] = j /\ Others(w) /\ job' = [job EXCEPT ![j] = v]
        /\ job'[j] = v /\ UNCHANGED <<listed, tracked, faults>>
        /\ SettledInv(w, j)' => Inv'
    BY <2>1, WorkerSet
  <2>3. SettledInv(w, j)'
    BY <1>t, <1>7, <2>2 DEF SettledInv, Lists, Tracks
  <2>4. Settles(w, j, v)
    BY <1>1, <1>2, <2>2, <2>3 DEF Settles
  <2> QED BY <2>2, <2>3, <2>4
<1>8. CASE pc[w] = "saving" /\ todo[w] = DeadU(n) /\ Lists(j, {"main"})
  <2>1. Call(todo[w], Srem("main"), DeadZ(n))
    BY <1>8, Plans
  <2>2. /\ Apply(w, Srem("main")) /\ faults' = faults /\ held'[w] = j /\ Others(w)
        /\ pc'[w] = pc[w] /\ todo'[w] = DeadZ(n) /\ copy'[w] = copy[w]
        /\ Only(j) /\ JobInv(j)' /\ ClientInv(w, j)' => Inv'
    BY <1>0, <2>1, CallStep
  <2>3. /\ listed' = [listed EXCEPT ![j] = @ \ {"main"}]
        /\ UNCHANGED <<job, pending, tracked>>
    BY <2>2, Commands
  <2>4. Only(j) /\ Lists(j, {})'
    BY <1>1, <1>2, <1>8, <2>2, <2>3, CommandsOnly DEF Types, Lists
  <2>5. JobInv(j)'
    BY <1>0, <1>1, <2>3, ExecCands DEF JobInv, Exists
  <2>6. OpenInv(w, j)'
    BY <1>1, <1>8, <2>2, <2>3, <2>4 DEF OpenInv, Open, Tracks
  <2>7. ClientInv(w, j)'
    BY <1>0, <1>1, <2>3, <2>6, ExecCands DEF ClientInv
  <2>8. Toils(w)
    <3>1. UNCHANGED <<job, held>>
      BY <2>1, <2>3, Zenon DEF Call, Exec, Issue
    <3> QED BY <1>1, <2>2, <2>6, <3>1 DEF Toils
  <2> QED BY <2>2, <2>4, <2>5, <2>7, <2>8
<1>9. CASE pc[w] = "saving" /\ todo[w] = DeadZ(n) /\ Lists(j, {})
  <2>1. Call(todo[w], Zrem, Dead(n))
    BY <1>9, Plans
  <2>2. /\ Apply(w, Zrem) /\ faults' = faults /\ held'[w] = j /\ Others(w)
        /\ pc'[w] = pc[w] /\ todo'[w] = Dead(n) /\ copy'[w] = copy[w]
        /\ Only(j) /\ JobInv(j)' /\ ClientInv(w, j)' => Inv'
    BY <1>0, <2>1, CallStep
  <2>3. pending' = pending \ {j} /\ UNCHANGED <<job, listed, tracked>>
    BY <2>2, Commands
  <2>4. Only(j) /\ Lists(j, {})'
    BY <1>1, <1>9, <2>2, <2>3, CommandsOnly DEF Lists
  <2>5. JobInv(j)'
    BY <1>0, <1>1, <2>3, ExecCands DEF JobInv, Exists
  <2>6. OpenInv(w, j)'
    BY <1>1, <1>9, <2>2, <2>3, <2>4 DEF OpenInv, Open, Tracks
  <2>7. ClientInv(w, j)'
    BY <1>0, <1>1, <2>3, <2>6, ExecCands DEF ClientInv
  <2>8. Toils(w)
    <3>1. UNCHANGED <<job, held>>
      BY <2>1, <2>3, Zenon DEF Call, Exec, Issue
    <3> QED BY <1>1, <2>2, <2>6, <3>1 DEF Toils
  <2> QED BY <2>2, <2>4, <2>5, <2>7, <2>8
<1> QED BY <1>3, <1>4, <1>5, <1>6, <1>7, <1>8, <1>9 DEF OpenInv

\* What is left after the SET: the job is in the end where its key says.
LEMMA ExecSettled ==
  ASSUME Inv, NEW w \in Workers, NEW j \in Jobs, held[w] = j, Exec(w),
         SettledInv(w, j)
  PROVE  /\ Inv' /\ Others(w) /\ UNCHANGED job
         /\ held'[w] = NoJob \/ (held'[w] = j /\ SettledInv(w, j)')
<1> USE RedisAssumption
<1>0. w \in Clients /\ w \notin Producers
  BY DEF Clients
<1> PICK n \in Nat : n = copy[w]
  BY <1>0 DEF Inv, Types
<1>1. /\ Types /\ ClientInv(w, j) /\ JobInv(j)
      /\ Tracks(j) /\ j \notin pending
  BY <1>0 DEF Inv, ClientInv, SettledInv
<1>2. /\ \A s, q, m : Val(s, q, m).status = s /\ Val(s, q, m).queue = q
      /\ "dlq" \in Queues
  BY DEF Val, Queues
<1>3. CASE /\ todo[w] = Unindex /\ Lists(j, {"main"})
           /\ \/ job[j] = Val("completed", "main", n)
              \/ job[j] = Val("failed", "main", n + 1)
  <2>1. Last(todo[w], Zrem)
    BY <1>3, Plans
  <2>2. /\ Apply(w, Zrem) /\ faults' = faults /\ held'[w] = NoJob /\ Others(w)
        /\ Only(j) /\ JobInv(j)' /\ RestInv(j)' => Inv'
    BY <1>0, <2>1, LastStep
  <2>3. pending' = pending \ {j} /\ UNCHANGED <<job, listed, tracked>>
    BY <2>2, Commands
  <2>4. Only(j)
    BY <1>1, <2>2, CommandsOnly
  <2>5. job[j].status \in {"completed", "failed"} /\ job[j].queue = "main"
    BY <1>2, <1>3
  <2>6. JobInv(j)'
    BY <1>0, <1>1, <2>3, ExecCands DEF JobInv, Exists
  <2>7. RestInv(j)'
    BY <1>1, <1>3, <2>2, <2>3, <2>5 DEF RestInv, Lists, Tracks, Exists
  <2> QED BY <2>2, <2>3, <2>4, <2>6, <2>7
<1>4. CASE /\ todo[w] = NewZ /\ Lists(j, {"main"})
           /\ job[j] = Val("pending", "main", n + 1)
  <2>1. Last(todo[w], Zadd)
    BY <1>4, Plans
  <2>2. /\ Apply(w, Zadd) /\ faults' = faults /\ held'[w] = NoJob /\ Others(w)
        /\ Only(j) /\ JobInv(j)' /\ RestInv(j)' => Inv'
    BY <1>0, <2>1, LastStep
  <2>3. pending' = pending \cup {j} /\ UNCHANGED <<job, listed, tracked>>
    BY <2>2, Commands
  <2>4. Only(j)
    BY <1>1, <2>2, CommandsOnly
  <2>5. job[j].status = "pending" /\ job[j].queue = "main"
    BY <1>2, <1>4
  <2>6. JobInv(j)'
    BY <1>0, <1>1, <2>3, <2>5, ExecCands DEF JobInv, Exists
  <2>7. RestInv(j)'
    BY <1>1, <1>4, <2>2, <2>3, <2>5 DEF RestInv, Lists, Tracks, Exists
  <2> QED BY <2>2, <2>3, <2>4, <2>6, <2>7
<1>5. CASE /\ pc[w] = "saving" /\ todo[w] = DeadT
           /\ job[j] = Val("failed", "dlq", n + 1) /\ Lists(j, {})
  <2>1. Call(todo[w], Track, DeadS)
    BY <1>5, Plans
  <2>2. /\ Apply(w, Track) /\ faults' = faults /\ held'[w] = j /\ Others(w)
        /\ pc'[w] = pc[w] /\ todo'[w] = DeadS /\ copy'[w] = copy[w]
        /\ Only(j) /\ JobInv(j)' /\ ClientInv(w, j)' => Inv'
    BY <1>0, <2>1, CallStep
  <2>3. tracked' = tracked \cup {j} /\ UNCHANGED <<job, pending, listed>>
    BY <2>2, Commands
  <2>4. Only(j)
    BY <1>1, <2>2, CommandsOnly
  <2>5. JobInv(j)'
    BY <1>0, <1>1, <2>3, ExecCands DEF JobInv, Exists
  <2>6. SettledInv(w, j)'
    BY <1>1, <1>5, <2>2, <2>3 DEF SettledInv, Lists, Tracks
  <2>7. ClientInv(w, j)'
    BY <1>0, <1>1, <2>3, <2>6, ExecCands DEF ClientInv
  <2> QED BY <2>2, <2>3, <2>4, <2>5, <2>6, <2>7
<1>6. CASE /\ todo[w] = DeadS
           /\ job[j] = Val("failed", "dlq", n + 1) /\ Lists(j, {})
  <2>1. Last(todo[w], Sadd("dlq"))
    BY <1>6, Plans
  <2>2. /\ Apply(w, Sadd("dlq")) /\ faults' = faults /\ held'[w] = NoJob /\ Others(w)
        /\ Only(j) /\ JobInv(j)' /\ RestInv(j)' => Inv'
    BY <1>0, <2>1, LastStep
  <2>3. /\ listed' = [listed EXCEPT ![j] = @ \cup {"dlq"}]
        /\ UNCHANGED <<job, pending, tracked>>
    BY <2>2, Commands
  <2>4. Only(j) /\ Lists(j, {"dlq"})'
    BY <1>1, <1>2, <1>6, <2>2, <2>3, CommandsOnly DEF Types, Lists
  <2>5. job[j].status = "failed" /\ job[j].queue = "dlq"
    BY <1>2, <1>6
  <2>6. JobInv(j)'
    BY <1>0, <1>1, <2>3, ExecCands DEF JobInv, Exists
  <2>7. RestInv(j)'
    BY <1>1, <2>2, <2>3, <2>4, <2>5 DEF RestInv, Lists, Tracks, Exists
  <2> QED BY <2>2, <2>3, <2>4, <2>6, <2>7
<1> QED BY <1>3, <1>4, <1>5, <1>6 DEF SettledInv

LEMMA ExecKeeps ==
  ASSUME Inv, NEW c \in Clients, Exec(c)
  PROVE  Inv'
<1>1. held[c] \in Jobs /\ held[c] # NoJob
  BY RedisAssumption DEF Exec, Inv, Idle, Types
<1>2. ClientInv(c, held[c])
  BY <1>1 DEF Inv
<1>3. CASE c \in Producers
  BY <1>1, <1>3, ExecProducer
<1>4. CASE c \notin Producers
  <2>1. c \in Workers /\ (OpenInv(c, held[c]) \/ SettledInv(c, held[c]))
    BY <1>2, <1>4 DEF Clients, ClientInv
  <2> QED BY <1>1, <2>1, ExecOpen, ExecSettled
<1> QED BY <1>3, <1>4

-----------------------------------------------------------------------------
(* enqueue, acquireNext, crashes and time.                                 *)

LEMMA EnqueueKeeps ==
  ASSUME Inv, NEW c \in Producers, NEW j \in Jobs, Enqueue(c, j)
  PROVE  Inv'
<1> USE RedisAssumption
<1>0. c \in Clients
  BY DEF Clients
<1>1. /\ pc[c] = "idle" /\ ~Exists(j) /\ \A d \in Clients : held[d] # j
      /\ due' \in {due, due \cup {j}}
      /\ pc' = [pc EXCEPT ![c] = "saving"] /\ held' = [held EXCEPT ![c] = j]
      /\ UNCHANGED <<db, copy, cand, faults>>
  BY DEF Enqueue
<1>2. todo' = [todo EXCEPT ![c] = New]
  BY Zenon DEF Enqueue, New, Val
<1>3. held[c] = NoJob
  BY <1>0, <1>1 DEF Inv, ClientInv, ProducerInv
<1>4. Types'
  BY <1>0, <1>1, <1>2 DEF Inv, Types, Phase, db
<1>5. \A d \in Clients : d # c => held[d] # j /\ Still(d)
  BY <1>0, <1>1, <1>2 DEF Inv, Types, Still
<1>6. \A k \in Jobs : Alone(k)
  BY <1>1 DEF Alone, db
<1>7. JobInv(j)' /\ RestInv(j)
  BY <1>1, <1>6, JobStays DEF Inv
<1>8. /\ pc'[c] = "saving" /\ todo'[c] = New /\ held'[c] = j
      /\ job' = job /\ faults' = faults /\ pending' = pending
      /\ listed' = listed /\ cand' = cand
  BY <1>0, <1>1, <1>2 DEF Inv, Types, db
<1>9. ClientInv(c, j)'
  BY <1>1, <1>7, <1>8 DEF ClientInv, ProducerInv, RestInv, JobInv, Exists, Lists
<1> QED BY <1>0, <1>1, <1>3, <1>4, <1>5, <1>6, <1>7, <1>8, <1>9, OneJob

\* A pending job that is a candidate of some worker is in nobody's hands.
LEMMA LockedKeeps ==
  ASSUME Inv, NEW w \in Workers, NEW j \in Jobs, Locked(w, j)
  PROVE  Inv' /\ \A d \in Clients : held[d] # j
<1> USE RedisAssumption
<1>0. w \in Clients /\ w \notin Producers
  BY DEF Clients
<1>1. /\ pc[w] = "lock" /\ j \in cand[w] /\ job[j].status = "pending"
      /\ LuaLock(j)
      /\ pc' = [pc EXCEPT ![w] = "granted"] /\ held' = [held EXCEPT ![w] = j]
      /\ copy' = [copy EXCEPT ![w] = job[j].attempts]
      /\ cand' = [cand EXCEPT ![w] = @ \ {j}]
      /\ UNCHANGED <<due, todo, faults>>
  BY DEF Locked, Foremost, Lockable
<1>2. ASSUME NEW d \in Clients, held[d] = j PROVE FALSE
  <2>1. ClientInv(d, j)
    BY <1>2 DEF Inv
  <2> QED BY <1>1, <2>1 DEF ClientInv
<1>3. held[w] = NoJob /\ todo[w] = <<>>
  BY <1>0, <1>1 DEF Inv, ClientInv, OpenInv, SettledInv, Idle
<1>4. job[j] \in Job /\ job[j].attempts \in Nat /\ job[j].queue = "main"
      /\ RestInv(j)
  BY <1>1, <1>2 DEF Inv, Types, Job, JobInv
<1>5. /\ job' = [job EXCEPT ![j].status = "running"]
      /\ pending' = pending \ {j} /\ UNCHANGED <<listed, tracked>>
  BY <1>1 DEF LuaLock
<1>6. /\ job'[j] = Val("running", "main", job[j].attempts) /\ job'[j] \in Job
      /\ \A k \in Jobs : k # j => job'[k] = job[k]
      /\ job' \in [Jobs -> Job]
  <2>1. job'[j] = Val("running", "main", job[j].attempts)
    BY <1>4, <1>5 DEF Inv, Types, Job, Val
  <2>2. job'[j] \in Job
    BY <1>4, <2>1 DEF Val, Job, Status, Queues
  <2>3. \A k \in Jobs : k # j => job'[k] = job[k]
    BY <1>5 DEF Inv, Types
  <2>4. job' = [k \in Jobs |-> job'[k]]
    BY <1>5 DEF Inv, Types
  <2> QED BY <2>1, <2>2, <2>3, <2>4 DEF Inv, Types
<1>7. Types'
  BY <1>0, <1>1, <1>4, <1>5, <1>6 DEF Inv, Types, Phase
<1>8. \A d \in Clients : d # w => held[d] # j /\ Still(d)
  BY <1>0, <1>1, <1>2 DEF Inv, Types, Still
<1>9. \A k \in Jobs : k # j => Alone(k)
  BY <1>1, <1>5, <1>6 DEF Inv, Types, Alone
<1>10. /\ job'[j].status = "running" /\ job'[j].queue = "main"
       /\ job'[j].attempts = job[j].attempts
  BY <1>6 DEF Val
<1>11. JobInv(j)'
  BY <1>5, <1>10 DEF JobInv, Exists
<1>12. /\ held'[w] = j /\ pc'[w] = "granted" /\ todo'[w] = <<>>
       /\ copy'[w] = job[j].attempts
  BY <1>0, <1>1, <1>3 DEF Inv, Types
<1>13. ClientInv(w, j)'
  <2>1. Lists(j, {"main"})' /\ Tracks(j)'
    BY <1>1, <1>4, <1>5 DEF RestInv, Lists, Tracks, Exists
  <2>2. OpenInv(w, j)'
    BY <1>10, <1>12, <2>1 DEF OpenInv, Open
  <2> QED BY <1>0, <1>5, <1>10, <2>2 DEF ClientInv
<1>14. Inv'
  BY <1>0, <1>1, <1>3, <1>7, <1>8, <1>9, <1>11, <1>12, <1>13, OneJob
<1> QED BY <1>2, <1>14

LEMMA ReplyLostKeeps ==
  ASSUME Inv, NEW w \in Workers, ReplyLost(w)
  PROVE  Inv'
<1> USE RedisAssumption
<1>0. w \in Clients
  BY DEF Clients
<1>1. /\ pc' = [pc EXCEPT ![w] = "lock"] /\ held' = [held EXCEPT ![w] = NoJob]
      /\ copy' = [copy EXCEPT ![w] = 0] /\ UNCHANGED <<db, due, cand, todo>>
      /\ faults' \in 0..MaxFaults /\ faults' # 0
  BY DEF ReplyLost, Fault, Inv, Types
<1>2. held[w] \in Jobs /\ todo[w] = <<>>
  BY Busy DEF ReplyLost
<1> PICK j \in Jobs : held[w] = j
  BY <1>2
<1>3. Types'
  BY <1>0, <1>1 DEF Inv, Types, Phase, db
<1>4. \A d \in Clients : d # w => held[d] # j /\ Still(d)
  BY <1>0, <1>1 DEF Inv, Types, Still
<1>5. \A k \in Jobs : Alone(k)
  BY <1>1 DEF Alone, db
<1>6. JobInv(j)'
  BY <1>1, <1>5, JobStays DEF Inv
<1>7. RestInv(j)'
  BY <1>1 DEF RestInv, Lists, Tracks
<1>8. held'[w] = NoJob /\ Idle(w)'
  BY <1>0, <1>1, <1>2 DEF Inv, Types, Idle
<1> QED BY <1>0, <1>1, <1>3, <1>4, <1>5, <1>6, <1>7, <1>8, OneJob

\* A step that leaves every job and the client that holds it alone.
LEMMA NoJobKeeps ==
  ASSUME Inv, Types', UNCHANGED held,
         \A k \in Jobs : Alone(k),
         faults' = 0 => faults = 0,
         \A d \in Clients : held[d] # NoJob => Still(d),
         \A d \in Clients : held[d] = NoJob => Idle(d)'
  PROVE  Inv'
<1>1. ASSUME NEW d \in Clients, held[d] # NoJob PROVE ClientInv(d, held[d])'
  <2>1. ClientInv(d, held[d]) /\ held[d] \in Jobs /\ Still(d)
    BY <1>1 DEF Inv, Types
  <2>2. ASSUME NEW k \in Jobs, k = held[d] PROVE ClientInv(d, k)'
    BY <2>1, <2>2, ClientStays
  <2> QED BY <2>1, <2>2
<1>2. \A k \in Jobs : JobInv(k)' /\ (RestInv(k) => RestInv(k)')
  BY JobStays DEF Inv
<1> QED BY <1>1, <1>2 DEF Inv

LEMMA RefusedKeeps ==
  ASSUME Inv, NEW w \in Workers, NEW j \in Jobs, Refused(w, j)
  PROVE  Inv'
<1> USE RedisAssumption
<1>1. /\ cand' = [cand EXCEPT ![w] = @ \ {j}]
      /\ UNCHANGED <<db, due, client>>
      /\ faults' \in 0..MaxFaults /\ (faults' = 0 => faults = 0)
  BY DEF Refused, Fault, Inv, Types
<1>2. Types'
  BY <1>1 DEF Inv, Types, db, client
<1>3. \A k \in Jobs : Alone(k)
  BY <1>1 DEF Inv, Types, Alone, db
<1>4. \A d \in Clients : Still(d) /\ (Idle(d) => Idle(d)')
  BY <1>1 DEF Still, Idle, client
<1> QED BY <1>1, <1>2, <1>3, <1>4, NoJobKeeps DEF Inv, client

LEMMA NoneLeftKeeps ==
  ASSUME Inv, NEW w \in Workers, NoneLeft(w)
  PROVE  Inv'
<1> USE RedisAssumption
<1>0. w \in Clients /\ w \notin Producers
  BY DEF Clients
<1>1. /\ pc[w] = "lock" /\ pc' = [pc EXCEPT ![w] = "idle"]
      /\ todo' = [todo EXCEPT ![w] = <<>>]
      /\ UNCHANGED <<held, copy, db, due, cand, faults>>
  BY DEF NoneLeft, Goto
<1>2. Types'
  BY <1>0, <1>1 DEF Inv, Types, db, Phase
<1>3. \A k \in Jobs : Alone(k)
  BY <1>1 DEF Alone, db
<1>4. held[w] = NoJob
  BY <1>0, <1>1 DEF Inv, ClientInv, OpenInv, SettledInv
<1>5. \A d \in Clients : d # w => Still(d) /\ (Idle(d) => Idle(d)')
  BY <1>0, <1>1 DEF Inv, Types, Still, Idle
<1>6. Idle(w)'
  BY <1>0, <1>1 DEF Inv, Types, Idle
<1> QED BY <1>1, <1>2, <1>3, <1>4, <1>5, <1>6, NoJobKeeps DEF Inv

\* What a worker finds in the sorted set, nobody is about to write.
LEMMA PollKeeps ==
  ASSUME Inv, NEW w \in Workers, Poll(w)
  PROVE  Inv'
<1> USE RedisAssumption
<1>0. w \in Clients /\ w \notin Producers
  BY DEF Clients
<1> DEFINE found == {j \in pending \cap due : job[j].status = "pending"}
<1>1. /\ pc[w] = "idle" /\ cand' = [cand EXCEPT ![w] = found]
      /\ pc' = [pc EXCEPT ![w] = IF cand'[w] = {} THEN "idle" ELSE "lock"]
      /\ UNCHANGED <<db, due, held, copy, todo, faults>>
  BY Zenon DEF Poll
<1>2. \E p \in {"idle", "lock"} : pc' = [pc EXCEPT ![w] = p]
  BY <1>1, Zenon
<1>3. Types'
  <2>1. found \subseteq Jobs
    BY DEF Inv, Types
  <2> HIDE DEF found
  <2> QED BY <1>0, <1>1, <1>2, <2>1 DEF Inv, Types, db, Phase
<1>4. /\ job' = job /\ listed' = listed /\ pending' = pending
      /\ tracked' = tracked /\ faults' = faults /\ todo' = todo
      /\ held' = held /\ copy' = copy
      /\ \A u \in Workers : cand'[u] = IF u = w THEN found ELSE cand[u]
  BY <1>1 DEF Inv, Types, db
<1>5. held[w] = NoJob
  BY <1>0, <1>1 DEF Inv, ClientInv, OpenInv, SettledInv
<1>6. ASSUME NEW d \in Clients, held[d] = NoJob PROVE Idle(d)'
  BY <1>0, <1>2, <1>4, <1>6 DEF Inv, Types, Idle
<1>7. ASSUME NEW d \in Clients, held[d] # NoJob PROVE ClientInv(d, held[d])'
  <2> PICK k \in Jobs : k = held[d]
    BY <1>7 DEF Inv, Types
  <2>1. ClientInv(d, k) /\ d # w
    BY <1>5, <1>7 DEF Inv
  <2>2. pc'[d] = pc[d]
    BY <1>2, <2>1 DEF Inv, Types
  <2>3. ProducerInv(d, k) => ProducerInv(d, k)'
    BY <1>4, <2>2 DEF ProducerInv, Lists, Tracks
  <2>4. OpenInv(d, k) => OpenInv(d, k)'
    BY <1>4, <2>2 DEF OpenInv, Open, Lists, Tracks
  <2>5. SettledInv(d, k) => SettledInv(d, k)'
    BY <1>4, <2>2 DEF SettledInv, Lists, Tracks
  <2>6. k \notin found
    BY <2>1 DEF ClientInv
  <2>7. ClientInv(d, k)'
    <3> HIDE DEF found
    <3> QED BY <1>4, <2>1, <2>3, <2>4, <2>5, <2>6 DEF ClientInv
  <2> QED BY <1>4, <2>7
<1>8. ASSUME NEW k \in Jobs PROVE JobInv(k)' /\ (RestInv(k) => RestInv(k)')
  <2>1. k \in found => Exists(k)
    BY DEF Exists
  <2>2. JobInv(k)
    BY DEF Inv
  <2> HIDE DEF found
  <2>3. JobInv(k)'
    BY <1>4, <2>1, <2>2 DEF JobInv, Exists
  <2> QED BY <1>4, <2>3 DEF RestInv, Lists, Tracks, Exists
<1>9. \A c, d \in Clients : held'[c] = held'[d] /\ held'[c] # NoJob => c = d
  BY <1>4 DEF Inv
<1> QED BY <1>3, <1>4, <1>6, <1>7, <1>8, <1>9 DEF Inv

LEMMA MaturesKeeps ==
  ASSUME Inv, NEW j \in Jobs, Matures(j)
  PROVE  Inv'
<1>1. due' = due \cup {j} /\ UNCHANGED <<db, client, cand, faults>>
  BY DEF Matures
<1>2. Types'
  BY <1>1 DEF Inv, Types, db, client
<1>3. \A k \in Jobs : Alone(k)
  BY <1>1 DEF Alone, db
<1>4. \A d \in Clients : Still(d) /\ (Idle(d) => Idle(d)')
  BY <1>1 DEF Still, Idle, client
<1> QED BY <1>1, <1>2, <1>3, <1>4, NoJobKeeps DEF Inv, client

\* Clients that are cut short leave jobs behind as they are, written or not.
LEMMA CutShortKeeps ==
  ASSUME Inv, NEW cs \in SUBSET Clients, CutShort(cs)
  PROVE  Inv'
<1> USE RedisAssumption
<1>1. /\ Release(cs) /\ UNCHANGED <<db, due>>
      /\ cand' = [w \in Workers |-> IF w \in cs THEN {} ELSE cand[w]]
      /\ faults' \in 0..MaxFaults /\ faults' # 0
  <2>1. Fault /\ faults' \in 0..MaxFaults /\ faults' # 0
    BY DEF CutShort, Fault, Inv, Types
  <2> QED BY <2>1 DEF CutShort
<1>2. Types'
  <2>0. "idle" \in Phase
    BY DEF Phase
  <2>1. /\ pc' \in [Clients -> Phase] /\ held' \in [Clients -> Jobs \cup {NoJob}]
        /\ copy' \in [Clients -> Nat] /\ todo' = [d \in Clients |-> todo'[d]]
    BY <1>1, <2>0 DEF Release, Inv, Types
  <2>2. cand' \in [Workers -> SUBSET Jobs]
    BY <1>1 DEF Inv, Types
  <2> QED BY <1>1, <2>1, <2>2 DEF Inv, Types, db
<1>3. \A k \in Jobs : Alone(k)
  BY <1>1 DEF Alone, db
<1>4. \A d \in Clients : d \notin cs => Still(d)
  BY <1>1 DEF Still, Release
<1>5. \A d \in Clients : d \in cs => held'[d] = NoJob /\ Idle(d)'
  BY <1>1 DEF Release, Idle
<1>6. ASSUME NEW d \in Clients, held'[d] # NoJob PROVE ClientInv(d, held[d])'
  <2> PICK k \in Jobs : k = held'[d]
    BY <1>2, <1>6 DEF Types
  <2>1. Still(d) /\ held[d] = k
    BY <1>4, <1>5, <1>6 DEF Still
  <2>2. ClientInv(d, k) /\ Alone(k)
    BY <1>3, <1>6, <2>1 DEF Inv
  <2>3. ClientInv(d, k)'
    BY <1>1, <2>1, <2>2, ClientStays
  <2> QED BY <2>3
<1>7. \A d \in Clients : held'[d] = NoJob => Idle(d)'
  BY <1>4, <1>5 DEF Inv, Still, Idle
<1>8. \A k \in Jobs : JobInv(k)' /\ RestInv(k)'
  BY <1>1, <1>3, JobStays DEF Inv, RestInv, Lists, Tracks
<1>9. \A c, d \in Clients : held'[c] = held'[d] /\ held'[c] # NoJob => c = d
  BY <1>4, <1>5 DEF Inv, Still
<1> QED BY <1>2, <1>6, <1>7, <1>8, <1>9 DEF Inv

LEMMA CrashKeeps ==
  ASSUME Inv,
         \/ \E p \in Processes : Crash(p)
         \/ \E c \in Producers : EnqueueRejects(c)
  PROVE  Inv'
<1>1. \E cs \in SUBSET Clients : CutShort(cs)
  BY Zenon DEF Crash, EnqueueRejects, Clients
<1> QED BY <1>1, CutShortKeeps

-----------------------------------------------------------------------------
LEMMA InvInit == Init => Inv
<1> SUFFICES ASSUME Init PROVE Inv
  OBVIOUS
<1> USE RedisAssumption DEF Init
<1>1. Types
  BY DEF Types, Job, Status, Queues, Phase
<1>2. \A j \in Jobs : JobInv(j) /\ RestInv(j)
  BY DEF JobInv, RestInv, Lists, Tracks, Exists
<1>3. \A c \in Clients : held[c] = NoJob /\ Idle(c)
  BY DEF Idle
<1> QED BY <1>1, <1>2, <1>3 DEF Inv

LEMMA InvNext == Inv /\ [Next]_vars => Inv'
<1> SUFFICES ASSUME Inv, [Next]_vars PROVE Inv'
  OBVIOUS
<1>1. CASE UNCHANGED vars
  <2>1. UNCHANGED <<db, due, client, cand, faults>>
    BY <1>1 DEF vars
  <2>2. Types'
    BY <2>1 DEF Inv, Types, db, client
  <2>3. \A k \in Jobs : Alone(k)
    BY <2>1 DEF Alone, db
  <2>4. \A d \in Clients : Still(d) /\ (Idle(d) => Idle(d)')
    BY <2>1 DEF Still, Idle, client
  <2> QED BY <2>1, <2>2, <2>3, <2>4, NoJobKeeps DEF Inv, client
<1>2. ASSUME NEW w \in Workers, Acquire(w) PROVE Inv'
  BY <1>2, PollKeeps, NoneLeftKeeps, BeginKeeps, LockedKeeps, RefusedKeeps
     DEF Acquire
<1>3. CASE Next
  BY <1>2, <1>3, EnqueueKeeps, ExecKeeps, ReplyLostKeeps, HandlerKeeps,
     CompleteGetKeeps, CompleteRejectsKeeps, FailGetKeeps, DlqGetKeeps,
     UnlistRejectsKeeps, CrashKeeps, MaturesKeeps DEF Next
<1> QED BY <1>1, <1>3

LEMMA InvAlways == Spec => []Inv
BY InvInit, InvNext, PTL DEF Spec

\* The commands up to the SET, and those after it.
LEMMA Decided ==
  \A w \in Workers, j \in Jobs :
    /\ OpenInv(w, j) => Undecided(w)
    /\ SettledInv(w, j) => ~Undecided(w)
<1> SUFFICES ASSUME NEW w \in Workers, NEW j \in Jobs
             PROVE  /\ OpenInv(w, j) => Undecided(w)
                    /\ SettledInv(w, j) => ~Undecided(w)
  OBVIOUS
<1>1. SettledInv(w, j) => ~Undecided(w)
  <2>1. ASSUME NEW s \in {Unindex, NewZ, DeadT, DeadS}
        PROVE  ~\E i \in 1..Len(s) : s[i].op = "set"
    BY <2>1 DEF Unindex, NewZ, DeadT, DeadS, Zrem, Zadd, Track, Sadd
  <2> QED BY <2>1 DEF SettledInv, Undecided
<1>2. OpenInv(w, j) => Undecided(w)
  <2> DEFINE n == copy[w]
  <2>1. \A s \in {Completes(n), Retries(n), GivesUp(n), Dead(n)} :
          1 \in 1..Len(s) /\ s[1].op = "set"
    BY DEF Completes, Retries, GivesUp, Dead, Set
  <2>2. 2 \in 1..Len(DeadZ(n)) /\ DeadZ(n)[2].op = "set"
    BY DEF DeadZ, Set
  <2>3. 3 \in 1..Len(DeadU(n)) /\ DeadU(n)[3].op = "set"
    BY DEF DeadU, Set
  <2> QED BY <2>1, <2>2, <2>3 DEF OpenInv, Undecided
<1> QED BY <1>1, <1>2

\* The same after a step.
LEMMA DecidedNext ==
  (\A w \in Workers, j \in Jobs :
     /\ OpenInv(w, j) => Undecided(w)
     /\ SettledInv(w, j) => ~Undecided(w))'
BY Decided, PTL

\* A worker without an outcome has the job as it was handed out.
LEMMA UndecidedIsOpen ==
  ASSUME Inv, NEW w \in Workers, held[w] # NoJob
  PROVE  IF Undecided(w) THEN OpenInv(w, held[w]) ELSE SettledInv(w, held[w])
<1>1. held[w] \in Jobs /\ w \in Clients /\ w \notin Producers
  BY RedisAssumption DEF Inv, Types, Clients
<1>2. OpenInv(w, held[w]) \/ SettledInv(w, held[w])
  BY <1>1 DEF Inv, ClientInv
<1> QED BY <1>1, <1>2, Decided

\* However many workers compete for the jobs, and wherever they crash or lose
\* a reply, the script of acquireNext never gives a job to two of them.
THEOREM RedisOneOwner == Spec => []OneOwner
<1>1. Inv => OneOwner
  BY DEF Inv, OneOwner, Clients
<1> QED BY <1>1, InvAlways, PTL

\* Until its outcome is written, the attempts in a worker's copy of a job are
\* the ones in the key: handleJobFailure and fail() decide alike.
THEOREM RedisCopyIsCurrent == Spec => []CopyIsCurrent
<1>1. Inv => CopyIsCurrent
  BY UndecidedIsOpen DEF CopyIsCurrent, OpenInv, Open
<1> QED BY <1>1, InvAlways, PTL

\* The sorted set names pending jobs only, and as long as nothing has failed
\* all of them; the sets of the queues agree with the keys.
THEOREM RedisIndexAgrees == Spec => []IndexAgrees
<1>1. Inv => IndexIsPending
  BY DEF Inv, Types, JobInv, IndexIsPending
<1>2. Inv => ListedOnce
  BY DEF Inv, RestInv, Lists, Tracks, ListedOnce
<1>3. Inv => PendingIsIndexed
  <2> SUFFICES ASSUME Inv, NEW j \in Jobs, faults = 0,
                      job[j].status = "pending", j \notin pending
               PROVE  \E c \in Clients :
                        held[c] = j /\ \E i \in 1..Len(todo[c]) : todo[c][i] = Zadd
    BY DEF PendingIsIndexed
  <2> PICK c \in Clients : held[c] = j
    BY DEF Inv, RestInv
  <2>1. ClientInv(c, j)
    BY RedisAssumption DEF Inv
  <2>2. todo[c] \in {NewT, NewS, NewZ}
    <3>1. CASE c \in Producers
      BY <2>1, <3>1 DEF ClientInv, ProducerInv
    <3>2. CASE c \notin Producers
      <4>1. SettledInv(c, j)
        BY <2>1, <3>2 DEF ClientInv, OpenInv, Open
      <4> QED BY <4>1 DEF SettledInv, Val
    <3> QED BY <3>1, <3>2
  <2>3. /\ 1 \in 1..Len(NewZ) /\ NewZ[1] = Zadd
        /\ 2 \in 1..Len(NewS) /\ NewS[2] = Zadd
        /\ 3 \in 1..Len(NewT) /\ NewT[3] = Zadd
    BY DEF NewZ, NewS, NewT
  <2> QED BY <2>2, <2>3
<1> QED BY <1>1, <1>2, <1>3, InvAlways, PTL DEF IndexAgrees

-----------------------------------------------------------------------------
(* The key of a job.                                                       *)

\* A step writes the key of a job by the SET of a producer or a worker, by
\* the script, or not at all.
LEMMA KeyWrites ==
  ASSUME Inv, [Next]_vars
  PROVE  \/ UNCHANGED job
         \/ \E j \in Jobs : Submits(j)
         \/ \E w \in Workers, j \in Jobs : \E v : Settles(w, j, v)
         \/ \E w \in Workers, j \in Jobs : Locked(w, j)
<1>1. ASSUME NEW c \in Clients, Exec(c)
      PROVE  \/ UNCHANGED job
             \/ \E j \in Jobs : Submits(j)
             \/ \E w \in Workers, j \in Jobs : \E v : Settles(w, j, v)
  <2>1. held[c] \in Jobs /\ held[c] # NoJob /\ ClientInv(c, held[c])
    BY <1>1, RedisAssumption DEF Exec, Inv, Idle, Types
  <2>2. CASE c \in Producers
    BY <1>1, <2>1, <2>2, ExecProducer
  <2>3. CASE c \notin Producers
    <3>1. c \in Workers /\ (OpenInv(c, held[c]) \/ SettledInv(c, held[c]))
      BY <2>1, <2>3 DEF Clients, ClientInv
    <3>2. CASE OpenInv(c, held[c])
      BY <1>1, <2>1, <3>1, <3>2, ExecOpen DEF Toils
    <3>3. CASE SettledInv(c, held[c])
      BY <1>1, <2>1, <3>1, <3>3, ExecSettled
    <3> QED BY <3>1, <3>2, <3>3
  <2> QED BY <2>2, <2>3
<1>2. ASSUME NEW w \in Workers, Acquire(w)
      PROVE  UNCHANGED job \/ \E j \in Jobs : Locked(w, j)
  BY <1>2 DEF Acquire, Poll, NoneLeft, Begin, Refused, Goto, db
<1>3. ASSUME NEW w \in Workers,
             \/ HandlerReturns(w) \/ HandlerFails(w) \/ CompleteGet(w)
             \/ CompleteRejects(w) \/ FailGet(w) \/ DlqGet(w) \/ UnlistRejects(w)
      PROVE  UNCHANGED job
  BY <1>3, HandlerKeeps, CompleteGetKeeps, CompleteRejectsKeeps, FailGetKeeps,
     DlqGetKeeps, UnlistRejectsKeeps DEF Toils
<1>4. ASSUME \/ \E c \in Producers, j \in Jobs : Enqueue(c, j)
             \/ \E w \in Workers : ReplyLost(w)
             \/ \E p \in Processes : Crash(p)
             \/ \E c \in Producers : EnqueueRejects(c)
             \/ \E j \in Jobs : Matures(j)
             \/ UNCHANGED vars
      PROVE  UNCHANGED job
  BY <1>4 DEF Enqueue, ReplyLost, Crash, EnqueueRejects, CutShort, Matures,
              vars, db
<1> QED BY <1>1, <1>2, <1>3, <1>4 DEF Next

\* Whoever retries a running job, gives it up or saves it as a dead letter
\* has exactly one more attempt on the record, the crashes and errors of
\* other clients notwithstanding.
THEOREM RedisEveryFailureCounts == Spec => EveryFailureCounts
<1>1. Inv /\ [Next]_vars =>
        [\A j \in Jobs :
           /\ job[j].status = "running"
           /\ job'[j].status \in {"pending", "failed"}
           => job'[j].attempts = job[j].attempts + 1]_vars
  <2> SUFFICES ASSUME Inv, [Next]_vars, NEW j \in Jobs,
                      job[j].status = "running",
                      job'[j].status \in {"pending", "failed"}
               PROVE  job'[j].attempts = job[j].attempts + 1
    OBVIOUS
  <2>0. job \in [Jobs -> Job]
    BY DEF Inv, Types
  <2>1. ASSUME NEW k \in Jobs, Submits(k) PROVE FALSE
    <3>1. job[k].status = "new" /\ k # j /\ job'[j] = job[j]
      BY <2>0, <2>1 DEF Submits
    <3> QED BY <3>1
  <2>2. ASSUME NEW w \in Workers, NEW k \in Jobs, NEW v, Settles(w, k, v)
        PROVE  job'[j].attempts = job[j].attempts + 1
    <3>1. CASE k = j
      <4>1. job'[j] = v
        BY <2>0, <2>2, <3>1 DEF Settles
      <4> QED BY <2>2, <3>1, <4>1 DEF Settles, Open
    <3>2. CASE k # j
      BY <2>0, <2>2, <3>2 DEF Settles
    <3> QED BY <3>1, <3>2
  <2>3. ASSUME NEW w \in Workers, NEW k \in Jobs, Locked(w, k) PROVE FALSE
    <3>1. job' = [job EXCEPT ![k].status = "running"]
      BY <2>3 DEF Locked, LuaLock
    <3> QED BY <2>0, <3>1 DEF Job
  <2>4. CASE UNCHANGED job
    BY <2>4
  <2> QED BY <2>1, <2>2, <2>3, <2>4, KeyWrites
<1> QED BY <1>1, InvAlways, PTL DEF Spec, EveryFailureCounts

-----------------------------------------------------------------------------
(* The lifecycle.  A worker owns a job until the SET of its outcome.       *)

\* The variables of JobLifecycle under the refinement mapping.
St == [j \in Jobs |-> job[j].status]
Ow == [j \in Jobs |-> Owners(j)]

LEMMA AbstractVars ==
  (UNCHANGED <<St, Ow>>) => UNCHANGED JL!vars
BY DEF St, Ow, JL!vars

\* Client c alone moves: the other workers have what they had.
LEMMA OwnersOfOthers ==
  ASSUME NEW c \in Clients, Others(c), NEW w \in Workers, w # c, NEW j \in Jobs
  PROVE  w \in Owners(j)' <=> w \in Owners(j)
BY DEF Others, Still, Owners, Undecided, Clients

LEMMA SameOwners ==
  ASSUME NEW c \in Clients, Others(c),
         c \in Workers => \A j \in Jobs : c \in Owners(j)' <=> c \in Owners(j)
  PROVE  Ow' = Ow
<1>1. ASSUME NEW j \in Jobs PROVE Owners(j)' = Owners(j)
  <2>1. \A w \in Workers : w \in Owners(j)' <=> w \in Owners(j)
    BY OwnersOfOthers
  <2>2. Owners(j) \subseteq Workers /\ Owners(j)' \subseteq Workers
    BY DEF Owners
  <2> QED BY <2>1, <2>2
<1> QED BY <1>1 DEF Ow

LEMMA SameStatus == UNCHANGED job => UNCHANGED St
BY DEF St

\* The worker of an open job is its only owner.
LEMMA OpenOwner ==
  ASSUME Inv, NEW w \in Workers, NEW j \in Jobs, held[w] = j, Undecided(w)
  PROVE  Ow[j] = {w}
BY RedisAssumption DEF Inv, Ow, Owners, Clients

\* Clients that are released without a SET have abandoned their jobs.
LEMMA AbandonStep ==
  ASSUME Inv, NEW gone \in SUBSET Workers, UNCHANGED job,
         \A w \in gone, j \in Jobs : w \notin Owners(j)',
         \A w \in Workers \ gone, j \in Jobs : w \in Owners(j)' <=> w \in Owners(j)
  PROVE  JL!Next
<1>1. ASSUME NEW j \in Jobs PROVE Owners(j)' = Owners(j) \ gone
  <2>1. Owners(j) \subseteq Workers /\ Owners(j)' \subseteq Workers
    BY DEF Owners
  <2> QED BY <2>1
<1>2. Ow' = [j \in Jobs |-> Ow[j] \ gone]
  BY <1>1 DEF Ow
<1>3. JL!Abandon(gone)
  BY <1>2, SameStatus DEF JL!Abandon, St, Ow
<1> QED BY <1>3 DEF JL!Next

\* A worker that goes on with its job changes nothing of the lifecycle.
LEMMA ToilsStutters ==
  ASSUME ~LateErrors, Inv, NEW w \in Workers, Toils(w)
  PROVE  UNCHANGED <<St, Ow>>
<1> USE RedisAssumption
<1>0. w \in Clients
  BY DEF Clients
<1> PICK j \in Jobs : held[w] = j
  BY DEF Toils
<1>1. job[j].status = "running" /\ UNCHANGED <<job, held>> /\ Others(w)
  BY DEF Toils, Open
<1>2. Undecided(w)
  <2>1. ~SettledInv(w, j)
    BY <1>1 DEF SettledInv, Val
  <2> QED BY <2>1, UndecidedIsOpen
<1>3. OpenInv(w, j)'
  BY DEF Toils
<1>4. Undecided(w)'
  BY <1>3, DecidedNext
<1>5. \A k \in Jobs : w \in Owners(k)' <=> w \in Owners(k)
  BY <1>1, <1>2, <1>4 DEF Owners
<1> QED BY <1>0, <1>1, <1>5, SameOwners, SameStatus

\* The SET of the outcome is where the worker lets go.
LEMMA SettlesStep ==
  ASSUME ~LateErrors, Inv, NEW w \in Workers, NEW j \in Jobs, held[w] = j,
         OpenInv(w, j), NEW v, Settles(w, j, v), Others(w)
  PROVE  JL!Next
<1> USE RedisAssumption
<1>0. w \in Clients
  BY DEF Clients
<1>1. /\ job[j].status = "running" /\ held'[w] = j
      /\ v.status \in {"completed", "pending", "failed"}
      /\ job' = [job EXCEPT ![j] = v] /\ job \in [Jobs -> Job]
  BY DEF Settles, Open, Inv, Types
<1>2. Ow[j] = {w}
  BY Decided, OpenOwner
<1>3. ~Undecided(w)'
  BY DecidedNext DEF Settles
<1>4. Ow' = [Ow EXCEPT ![j] = {}]
  <2>1. \A u \in Workers, k \in Jobs : u # w => (u \in Owners(k)' <=> u \in Owners(k))
    BY <1>0, OwnersOfOthers
  <2>2. \A k \in Jobs : w \notin Owners(k)'
    BY <1>3 DEF Owners
  <2>3. \A k \in Jobs : k # j => w \notin Owners(k)
    BY DEF Owners
  <2>4. Owners(j) = {w}
    BY <1>2 DEF Ow
  <2>5. ASSUME NEW k \in Jobs PROVE Owners(k)' = IF k = j THEN {} ELSE Owners(k)
    <3>1. Owners(k) \subseteq Workers /\ Owners(k)' \subseteq Workers
      BY DEF Owners
    <3> QED BY <2>1, <2>2, <2>3, <2>4, <3>1
  <2> QED BY <2>5 DEF Ow
<1>5. St' = [St EXCEPT ![j] = v.status] /\ St[j] = "running"
  BY <1>1 DEF St
<1>6. v.status \in JL!Outcome("running")
  BY <1>1 DEF JL!Outcome
<1>7. JL!Settle(j, w)
  BY <1>2, <1>4, <1>5, <1>6 DEF JL!Settle, St, Ow
<1> QED BY <1>7 DEF JL!Next

LEMMA ExecAbstract ==
  ASSUME ~LateErrors, Inv, NEW c \in Clients, Exec(c)
  PROVE  [JL!Next]_(JL!vars)
<1> USE RedisAssumption
<1>1. held[c] \in Jobs /\ held[c] # NoJob
  BY DEF Exec, Inv, Idle, Types
<1> PICK j \in Jobs : held[c] = j
  BY <1>1
<1>2. ClientInv(c, j) /\ job \in [Jobs -> Job]
  BY <1>1 DEF Inv, Types
<1>3. CASE c \in Producers
  <2>1. c \notin Workers
    BY <1>3
  <2>2. Others(c) /\ (UNCHANGED job \/ Submits(j))
    BY <1>3, ExecProducer
  <2>3. Ow' = Ow
    BY <2>1, <2>2, SameOwners
  <2>4. CASE UNCHANGED job
    BY <2>3, <2>4, SameStatus, AbstractVars
  <2>5. CASE Submits(j)
    <3>1. St[j] = "new" /\ St' = [St EXCEPT ![j] = "pending"]
      BY <1>2, <2>5 DEF Submits, Val, St
    <3>2. JL!Submit(j)
      BY <2>3, <3>1 DEF JL!Submit, St, Ow
    <3> QED BY <3>2 DEF JL!Next
  <2> QED BY <2>2, <2>4, <2>5
<1>4. CASE c \notin Producers
  <2>1. c \in Workers /\ (OpenInv(c, j) \/ SettledInv(c, j))
    BY <1>2, <1>4 DEF Clients, ClientInv
  <2>2. CASE OpenInv(c, j)
    <3>1. Others(c) /\ (Toils(c) \/ \E v : Settles(c, j, v))
      BY <2>1, <2>2, ExecOpen
    <3> QED BY <2>1, <2>2, <3>1, ToilsStutters, SettlesStep, AbstractVars
  <2>3. CASE SettledInv(c, j)
    <3>1. /\ Others(c) /\ UNCHANGED job
          /\ held'[c] = NoJob \/ (held'[c] = j /\ SettledInv(c, j)')
      BY <2>1, <2>3, ExecSettled
    <3>2. ~Undecided(c)
      BY <2>1, <2>3, Decided
    <3>3. held'[c] = NoJob \/ ~Undecided(c)'
      BY <2>1, <3>1, DecidedNext
    <3>4. \A k \in Jobs : c \notin Owners(k)' /\ c \notin Owners(k)
      BY <3>2, <3>3 DEF Owners
    <3>5. Ow' = Ow
      BY <3>1, <3>4, SameOwners
    <3> QED BY <3>1, <3>5, SameStatus, AbstractVars
  <2> QED BY <2>1, <2>2, <2>3
<1> QED BY <1>3, <1>4

\* The script hands out a job that nobody owns.
LEMMA LockedAbstract ==
  ASSUME Inv, NEW w \in Workers, NEW j \in Jobs, Locked(w, j)
  PROVE  JL!Next
<1> USE RedisAssumption
<1>0. w \in Clients /\ \A d \in Clients : held[d] # j
  BY LockedKeeps DEF Clients
<1>1. /\ pc[w] = "lock" /\ job[j].status = "pending"
      /\ job' = [job EXCEPT ![j].status = "running"]
      /\ pc' = [pc EXCEPT ![w] = "granted"] /\ held' = [held EXCEPT ![w] = j]
      /\ todo' = todo /\ job \in [Jobs -> Job]
  BY DEF Locked, Lockable, LuaLock, Inv, Types
<1>2. held[w] = NoJob
  BY <1>0, <1>1 DEF Inv, ClientInv, OpenInv, SettledInv, ProducerInv, Clients
<1>3. pc'[w] = "granted" /\ held'[w] = j
  BY <1>0, <1>1 DEF Inv, Types
<1>4. \A u \in Workers : u # w =>
        pc'[u] = pc[u] /\ held'[u] = held[u] /\ todo'[u] = todo[u]
  BY <1>1 DEF Inv, Types, Clients
<1>5. \A u \in Workers, k \in Jobs : u # w => (u \in Owners(k)' <=> u \in Owners(k))
  BY <1>4 DEF Owners, Undecided
<1>6. \A k \in Jobs : w \notin Owners(k) /\ (w \in Owners(k)' <=> k = j)
  BY <1>2, <1>3 DEF Owners, Undecided
<1>7. Owners(j) = {}
  BY <1>0 DEF Owners, Clients
<1>8. ASSUME NEW k \in Jobs PROVE Owners(k)' = IF k = j THEN {w} ELSE Owners(k)
  <2>1. Owners(k) \subseteq Workers /\ Owners(k)' \subseteq Workers
    BY DEF Owners
  <2> QED BY <1>5, <1>6, <1>7, <2>1
<1>9. Ow[j] = {} /\ Ow' = [Ow EXCEPT ![j] = {w}]
  BY <1>7, <1>8 DEF Ow
<1>10. St[j] = "pending" /\ St' = [St EXCEPT ![j] = "running"]
  <2>1. \A k \in Jobs : job'[k].status = IF k = j THEN "running" ELSE job[k].status
    BY <1>1 DEF Job
  <2> QED BY <1>1, <2>1 DEF St
<1>11. JL!Claim(j, w)
  BY <1>9, <1>10 DEF JL!Claim, St, Ow
<1> QED BY <1>11 DEF JL!Next

\* Workers that die, or lose the reply of the script, abandon their jobs.
LEMMA LossAbstract ==
  ASSUME Inv, \/ \E w \in Workers : ReplyLost(w)
              \/ \E p \in Processes : Crash(p)
              \/ \E c \in Producers : EnqueueRejects(c)
  PROVE  JL!Next
<1> USE RedisAssumption
<1>1. ASSUME NEW w \in Workers, ReplyLost(w) PROVE JL!Next
  <2>1. /\ pc' = [pc EXCEPT ![w] = "lock"] /\ held' = [held EXCEPT ![w] = NoJob]
        /\ todo' = todo /\ job' = job
    BY <1>1 DEF ReplyLost, db
  <2>2. held'[w] = NoJob
    BY <2>1 DEF Inv, Types, Clients
  <2>3. \A u \in Workers : u # w =>
          pc'[u] = pc[u] /\ held'[u] = held[u] /\ todo'[u] = todo[u]
    BY <2>1 DEF Inv, Types, Clients
  <2>4. \A u \in {w}, k \in Jobs : u \notin Owners(k)'
    BY <2>2 DEF Owners
  <2>5. \A u \in Workers \ {w}, k \in Jobs : u \in Owners(k)' <=> u \in Owners(k)
    BY <2>3 DEF Owners, Undecided
  <2>6. {w} \in SUBSET Workers
    OBVIOUS
  <2> QED BY <2>1, <2>4, <2>5, <2>6, AbandonStep
<1>2. ASSUME NEW cs \in SUBSET Clients, CutShort(cs) PROVE JL!Next
  <2> PICK gone \in SUBSET Workers : gone = {w \in Workers : w \in cs}
    OBVIOUS
  <2>1. Release(cs) /\ job' = job
    BY <1>2 DEF CutShort, db
  <2>2. \A w \in gone : held'[w] = NoJob
    BY <2>1 DEF Release, Clients
  <2>3. \A u \in Workers \ gone :
          pc'[u] = pc[u] /\ held'[u] = held[u] /\ todo'[u] = todo[u]
    BY <2>1 DEF Release, Clients
  <2>4. \A u \in gone, k \in Jobs : u \notin Owners(k)'
    BY <2>2 DEF Owners
  <2>5. \A u \in Workers \ gone, k \in Jobs : u \in Owners(k)' <=> u \in Owners(k)
    BY <2>3 DEF Owners, Undecided
  <2> QED BY <2>1, <2>4, <2>5, AbandonStep
<1>3. ASSUME \/ \E p \in Processes : Crash(p)
             \/ \E c \in Producers : EnqueueRejects(c)
      PROVE  \E cs \in SUBSET Clients : CutShort(cs)
  BY <1>3, Zenon DEF Crash, EnqueueRejects, Clients
<1> QED BY <1>1, <1>2, <1>3

\* What happens to a worker without a job is no matter of the lifecycle.
LEMMA IdleStutters ==
  ASSUME Inv, UNCHANGED <<job, held>>,
         \A w \in Workers : held[w] # NoJob => Still(w)
  PROVE  UNCHANGED <<St, Ow>>
<1>1. ASSUME NEW j \in Jobs, NEW w \in Workers
      PROVE  w \in Owners(j)' <=> w \in Owners(j)
  BY RedisAssumption DEF Owners, Undecided, Still
<1>2. ASSUME NEW j \in Jobs PROVE Owners(j)' = Owners(j)
  <2>1. Owners(j) \subseteq Workers /\ Owners(j)' \subseteq Workers
    BY DEF Owners
  <2> QED BY <1>1, <2>1
<1> QED BY <1>2, SameStatus DEF Ow

\* Every step of RedisJobs is one of the lifecycle, or none.
LEMMA AbstractStep ==
  ASSUME ~LateErrors, Inv, [Next]_vars
  PROVE  [JL!Next]_(JL!vars)
<1> USE RedisAssumption
<1>1. ASSUME NEW c \in Producers, NEW j \in Jobs, Enqueue(c, j)
      PROVE  [JL!Next]_(JL!vars)
  <2>1. c \in Clients /\ c \notin Workers
    BY DEF Clients
  <2>2. Others(c) /\ UNCHANGED job
    BY <1>1, <2>1 DEF Enqueue, Others, Still, Inv, Types, db
  <2>3. Ow' = Ow
    BY <2>1, <2>2, SameOwners
  <2> QED BY <2>2, <2>3, SameStatus, AbstractVars
<1>2. ASSUME NEW w \in Workers, Poll(w) \/ NoneLeft(w) PROVE [JL!Next]_(JL!vars)
  <2>0. w \in Clients /\ w \notin Producers
    BY DEF Clients
  <2>1. pc[w] \in {"idle", "lock"}
    BY <1>2 DEF Poll, NoneLeft
  <2>2. held[w] = NoJob
    BY <2>0, <2>1 DEF Inv, ClientInv, OpenInv, SettledInv
  <2>3. UNCHANGED <<job, held>> /\ Others(w)
    BY <1>2, <2>0 DEF Poll, NoneLeft, Goto, Others, Still, Inv, Types, db
  <2> QED BY <2>0, <2>2, <2>3, IdleStutters, AbstractVars DEF Others, Clients
<1>3. ASSUME \/ \E w \in Workers, j \in Jobs : Refused(w, j)
             \/ \E j \in Jobs : Matures(j)
             \/ UNCHANGED vars
      PROVE  [JL!Next]_(JL!vars)
  <2>1. UNCHANGED <<job, client>>
    BY <1>3 DEF Refused, Matures, vars, db
  <2> QED BY <2>1, IdleStutters, AbstractVars DEF client, Still
<1>4. ASSUME NEW w \in Workers,
             \/ Begin(w) \/ HandlerReturns(w) \/ HandlerFails(w)
             \/ CompleteGet(w) \/ CompleteRejects(w) \/ FailGet(w)
             \/ DlqGet(w) \/ UnlistRejects(w)
      PROVE  [JL!Next]_(JL!vars)
  <2>1. Toils(w)
    BY <1>4, BeginKeeps, HandlerKeeps, CompleteGetKeeps, CompleteRejectsKeeps,
       FailGetKeeps, DlqGetKeeps, UnlistRejectsKeeps
  <2> QED BY <2>1, ToilsStutters, AbstractVars
<1> QED BY <1>1, <1>2, <1>3, <1>4, ExecAbstract, LockedAbstract, LossAbstract
        DEF Next, Acquire

\* RedisJobStorage and executeJob implement the lifecycle of a job, crashes
\* between two commands and lost replies included, if nothing fails after
\* complete() has set the job.
THEOREM RedisImplementsLifecycle ==
  ASSUME ~LateErrors
  PROVE  Spec => Implements
<1>1. Init => JL!Init
  <2> SUFFICES ASSUME Init PROVE JL!Init
    OBVIOUS
  <2>1. \A w \in Workers : held[w] = NoJob
    BY DEF Init, Clients
  <2>2. \A j \in Jobs : Owners(j) = {}
    BY <2>1, RedisAssumption DEF Owners
  <2>3. \A j \in Jobs : job[j].status = "new"
    BY DEF Init
  <2> QED BY <2>2, <2>3 DEF JL!Init
<1>2. Inv /\ [Next]_vars => [JL!Next]_(JL!vars)
  BY AbstractStep
<1> QED BY <1>1, <1>2, InvAlways, PTL DEF Spec, Implements, JL!Spec

\* Every command that is still to be issued is one Redis knows, and a client
\* has commands to issue exactly while it is in complete(), fail() or save().
THEOREM RedisTypes == Spec => []TypeOK
<1>1. Inv => TypeOK
  <2> SUFFICES ASSUME Inv, NEW c \in Clients
               PROVE  /\ \A i \in 1..Len(todo[c]) : todo[c][i] \in Command
                      /\ todo[c] # <<>> <=> pc[c] \in {"completing", "saving"}
                      /\ held[c] = NoJob <=> pc[c] \in {"idle", "lock"}
    BY DEF Inv, Types, TypeOK
  <2> USE RedisAssumption
  <2> PICK n \in Nat : n = copy[c]
    BY DEF Inv, Types
  <2>1. CASE held[c] = NoJob
    BY <2>1 DEF Inv, Idle
  <2>2. CASE held[c] # NoJob
    <3> PICK j \in Jobs : held[c] = j
      BY <2>2 DEF Inv, Types
    <3>1. ClientInv(c, j)
      BY <2>2 DEF Inv
    <3> DEFINE ps == {New, NewT, NewS, NewZ, Completes(n), Retries(n), GivesUp(n),
                      Unindex, DeadU(n), DeadZ(n), Dead(n), DeadT, DeadS}
    <3>2. \/ todo[c] = <<>> /\ pc[c] \in {"granted", "run", "complete", "fail", "dlq"}
          \/ todo[c] \in ps /\ pc[c] \in {"completing", "saving"}
      BY <3>1 DEF ClientInv, ProducerInv, OpenInv, SettledInv
    <3>3. \A s \in ps : s # <<>>
      BY Plans DEF Call, Last
    <3>4. ASSUME NEW s \in ps PROVE \A i \in 1..Len(s) : s[i] \in Command
      <4>1. /\ {Zadd, Zrem, Track, Sadd("main"), Sadd("dlq"), Srem("main")}
                 \subseteq Command
            /\ \A v \in Job : Set(v) \in Command
        BY DEF Zadd, Zrem, Track, Sadd, Srem, Set, Command, Queues
      <4>2. /\ Val("pending", "main", 0) \in Job
            /\ Val("completed", "main", n) \in Job
            /\ Val("pending", "main", n + 1) \in Job
            /\ Val("failed", "main", n + 1) \in Job
            /\ Val("failed", "dlq", n + 1) \in Job
        BY DEF Val, Job, Status, Queues
      <4>3. New \in Seq(Command) /\ NewT \in Seq(Command)
        BY <4>1, <4>2 DEF New, NewT
      <4>4. NewS \in Seq(Command) /\ NewZ \in Seq(Command)
        BY <4>1, <4>2 DEF NewS, NewZ
      <4>5. /\ Completes(n) \in Seq(Command)
            /\ Retries(n) \in Seq(Command)
            /\ GivesUp(n) \in Seq(Command)
            /\ Unindex \in Seq(Command)
        BY <4>1, <4>2 DEF Completes, Retries, GivesUp, Unindex
      <4>6. Dead(n) \in Seq(Command) /\ DeadZ(n) \in Seq(Command)
        BY <4>1, <4>2 DEF Dead, DeadZ
      <4>7. DeadU(n) \in Seq(Command)
        BY <4>1, <4>2 DEF DeadU
      <4>8. DeadT \in Seq(Command) /\ DeadS \in Seq(Command)
        BY <4>1, <4>2 DEF DeadT, DeadS
      <4> HIDE DEF New, NewT, NewS, NewZ, Completes, Retries, GivesUp, Unindex,
                   DeadU, DeadZ, Dead, DeadT, DeadS
      <4>9. s \in Seq(Command)
        BY <3>4, <4>3, <4>4, <4>5, <4>6, <4>7, <4>8
      <4> QED BY <4>9
    <3> HIDE DEF ps
    <3> QED BY <2>2, <3>2, <3>3, <3>4
  <2> QED BY <2>1, <2>2
<1> QED BY <1>1, InvAlways, PTL
=============================================================================
