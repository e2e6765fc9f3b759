------------------------------ MODULE CacheSwr ------------------------------
(* The response cache with stale-while-revalidate (packages/cache/src/       *)
(* plugin.ts) over a store that holds entries and refresh locks (store.ts,   *)
(* redis.ts), for one path: its GET and its HEAD entry. Requests look an     *)
(* entry up, serve it or run the handler, which reads the data some time     *)
(* before it answers; the data change and the application invalidates the    *)
(* path. A command of the store takes effect some time after it was issued,  *)
(* its reply comes some time after that; those of one request keep their     *)
(* order, those of different requests need not.                              *)
EXTENDS Naturals, FiniteSets

CONSTANTS
  Requests,      \* the requests of a behaviour
  Ttl, Swr,      \* freshness of an entry, and how long it is served stale
  LockTtl,       \* refreshLockTtl
  StoreTime,     \* a command of the store takes no longer, reply included
  HandlerTime,   \* a handler takes no longer
  MaxTime,       \* bound: the clock
  MaxVersion,    \* bound: changes of the data
  MaxFaults      \* bound: commands that fail

ASSUME CacheAssumption ==
  {Ttl, Swr, LockTtl, StoreTime, HandlerTime, MaxTime, MaxVersion, MaxFaults}
    \subseteq Nat

VARIABLES
  now,           \* Date.now()
  store,         \* key -> entry
  lock,          \* key -> when the claim ends, 0 when there is none
  req,           \* the requests
  version,       \* the version of the data the handlers read
  todo,          \* keys that invalidatePath() has still to delete
  faults,        \* commands that have failed
  ended,         \* history: when each version was replaced
  cleared        \* history: key -> the version when it was deleted last

vars == <<now, store, lock, req, version, todo, faults, ended, cleared>>

Keys == {"GET", "HEAD"}
Versions == 0..MaxVersion
NoEntry == [there |-> FALSE, val |-> 0, storedAt |-> 0, late |-> FALSE]
Entry == [there : BOOLEAN, val : Versions, storedAt : 0..MaxTime,
          late : BOOLEAN]      \* history: of the request that stored it

NoRequest == [pc |-> "none", key |-> "GET", entry |-> NoEntry, since |-> 0,
              refreshing |-> FALSE, read |-> FALSE, val |-> 0,
              late |-> FALSE, lag |-> 0]
Request ==
  [pc : {"none", "got", "asking", "claimed", "refused", "handler", "finish",
         "done"},
   key : Keys,
   entry : Entry,              \* what it has found, or what it stores
   since : 0..MaxTime, refreshing : BOOLEAN, read : BOOLEAN, val : Versions,
   late : BOOLEAN,             \* history: its key was deleted meanwhile
   lag : 0..MaxTime]           \* history: how long out of date it was served

TypeOK ==
  /\ now \in 0..MaxTime
  /\ store \in [Keys -> Entry]
  /\ lock \in [Keys -> Nat]
  /\ req \in [Requests -> Request]
  /\ version \in Versions
  /\ todo \subseteq Keys
  /\ faults \in 0..MaxFaults
  /\ ended \in [Versions -> 0..MaxTime]
  /\ cleared \in [Keys -> Versions]

\* The store may outlive the process: an entry may be there from the start.
Init ==
  /\ now = 0
  /\ store \in [Keys -> {NoEntry, [NoEntry EXCEPT !.there = TRUE]}]
  /\ lock = [k \in Keys |-> 0]
  /\ req = [r \in Requests |-> NoRequest]
  /\ version = 0 /\ todo = {} /\ faults = 0
  /\ ended = [v \in Versions |-> 0]
  /\ cleared = [k \in Keys |-> 0]

Fault == faults < MaxFaults /\ faults' = faults + 1
data == <<version, ended>>
invalidation == <<todo, cleared>>

\* The store drops an entry at the end of its lifetime, by its own clock.
Found(k) ==
  IF now < store[k].storedAt + Ttl + Swr THEN {store[k]}
  ELSE {store[k], NoEntry}

-----------------------------------------------------------------------------
(* The onRequest hook.                                                       *)

Done(r, lag) ==
  req' = [req EXCEPT ![r] = [NoRequest EXCEPT !.pc = "done", !.lag = lag]]

\* A request with credentials is not eligible: it is neither served from the
\* cache nor stored in it.
Bypass(r) ==
  /\ req[r].pc = "none"
  /\ Done(r, 0)
  /\ UNCHANGED <<now, store, lock, data, invalidation, faults>>

\* store.get() takes effect; one that fails is a miss.
Lookup(r, k) ==
  LET got(e) == [req EXCEPT ![r].pc = "got", ![r].key = k, ![r].since = now,
                            ![r].entry = e]
  IN /\ req[r].pc = "none"
     /\ \/ (\E e \in Found(k) : req' = got(e)) /\ UNCHANGED faults
        \/ req' = got(NoEntry) /\ Fault
     /\ UNCHANGED <<now, store, lock, data, invalidation>>

Age(r) == now - req[r].entry.storedAt

Serves(r) ==
  LET v == req[r].entry.val IN Done(r, IF v = version THEN 0 ELSE now - ended[v])

Runs(r, refreshing) ==
  req' = [req EXCEPT ![r].pc = "handler", ![r].since = now,
                     ![r].refreshing = refreshing, ![r].entry = NoEntry]

Fresh(r) == req[r].entry.there /\ Age(r) <= Ttl

\* Mutant of Stale: an entry that was found is served.
StaleFound(r) == req[r].entry.there /\ ~Fresh(r)

Stale(r) == req[r].entry.there /\ ~Fresh(r) /\ Age(r) <= Ttl + Swr

\* The reply is there, and the age of the entry is computed.
Hit(r) ==
  /\ req[r].pc = "got" /\ Fresh(r)
  /\ Serves(r)
  /\ UNCHANGED <<now, store, lock, data, invalidation, faults>>

Miss(r) ==
  /\ req[r].pc = "got" /\ ~Fresh(r) /\ ~Stale(r)
  /\ Runs(r, FALSE)
  /\ UNCHANGED <<now, store, lock, data, invalidation, faults>>

\* acquireRefreshLock() is called; the age is not computed again.
Ask(r) ==
  /\ req[r].pc = "got" /\ Stale(r)
  /\ req' = [req EXCEPT ![r].pc = "asking", ![r].since = now]
  /\ UNCHANGED <<now, store, lock, data, invalidation, faults>>

\* Mutant of Claimable: a claim that is there does not count.
ClaimableAlways(k) == lock[k] \in Nat

Claimable(k) == lock[k] <= now

\* SET NX EX, or the same on a Map: the life of the claim starts here.
Locked(k) == [lock EXCEPT ![k] = now + LockTtl]

Replies(r, pc) == req' = [req EXCEPT ![r].pc = pc]

\* It takes effect, and may fail, done or not.
TakeLock(r) ==
  LET k == req[r].key IN
  /\ req[r].pc = "asking"
  /\ \/ /\ Claimable(k) /\ Replies(r, "claimed")
        /\ lock' = Locked(k) /\ UNCHANGED faults
     \/ ~Claimable(k) /\ Replies(r, "refused") /\ UNCHANGED <<lock, faults>>
     \/ /\ Fault /\ Replies(r, "refused")
        /\ \/ UNCHANGED lock
           \/ Claimable(k) /\ lock' = Locked(k)
  /\ UNCHANGED <<now, store, data, invalidation>>

\* The reply is there: this request refreshes the entry.
Claim(r) ==
  /\ req[r].pc = "claimed"
  /\ Runs(r, TRUE)
  /\ UNCHANGED <<now, store, lock, data, invalidation, faults>>

\* Somebody else refreshes, or the lock cannot be had.
ServeStale(r) ==
  /\ req[r].pc = "refused"
  /\ Serves(r)
  /\ UNCHANGED <<now, store, lock, data, invalidation, faults>>

-----------------------------------------------------------------------------
(* The handler and the wrapped response.                                     *)

ReadsData(r) ==
  /\ req[r].pc = "handler" /\ ~req[r].read
  /\ req' = [req EXCEPT ![r].read = TRUE, ![r].val = version]
  /\ UNCHANGED <<now, store, lock, data, invalidation, faults>>

\* finish() of a response that may be stored: neither the write nor the
\* release is awaited.
RespondAndStore(r) ==
  /\ req[r].pc = "handler" /\ req[r].read
  /\ req' = [req EXCEPT ![r].pc = "finish", ![r].since = now,
               ![r].entry = [there |-> TRUE, val |-> req[r].val,
                             storedAt |-> now, late |-> FALSE]]
  /\ UNCHANGED <<now, store, lock, data, invalidation, faults>>

\* finish() of one that may not: an error, a cookie, a 304.
Respond(r) ==
  /\ req[r].pc = "handler"
  /\ IF req[r].refreshing
     THEN req' = [req EXCEPT ![r].pc = "finish", ![r].since = now]
     ELSE Done(r, 0)
  /\ UNCHANGED <<now, store, lock, data, invalidation, faults>>

\* The write takes effect; one that fails is forgotten.
Write(r) ==
  /\ req[r].pc = "finish" /\ req[r].entry.there
  /\ \/ /\ store' = [store EXCEPT
              ![req[r].key] = [req[r].entry EXCEPT !.late = req[r].late]]
        /\ UNCHANGED faults
     \/ Fault /\ UNCHANGED store
  /\ IF req[r].refreshing THEN req' = [req EXCEPT ![r].entry = NoEntry]
     ELSE Done(r, 0)
  /\ UNCHANGED <<now, lock, data, invalidation>>

\* releaseRefreshLock() takes effect, whoever holds the lock by now.
Release(r) ==
  /\ req[r].pc = "finish" /\ ~req[r].entry.there
  /\ \/ lock' = [lock EXCEPT ![req[r].key] = 0] /\ UNCHANGED faults
     \/ Fault /\ UNCHANGED lock
  /\ Done(r, 0)
  /\ UNCHANGED <<now, store, data, invalidation>>

\* A stream, or a client that is gone: finish() is not called.
EndWithoutFinish(r) ==
  /\ req[r].pc = "handler"
  /\ Done(r, 0)
  /\ UNCHANGED <<now, store, lock, data, invalidation, faults>>

-----------------------------------------------------------------------------
(* The application.                                                          *)

\* The data change, and then the path is to be invalidated.
Update ==
  /\ version < MaxVersion /\ todo = {}
  /\ version' = version + 1
  /\ ended' = [ended EXCEPT ![version] = now]
  /\ todo' = Keys
  /\ UNCHANGED <<now, store, lock, req, faults, cleared>>

\* Requests for key k that are under way will come too late.
Overtaken(k) ==
  [r \in Requests |->
     IF req[r].key = k /\ req[r].pc \notin {"none", "done"}
     THEN [req[r] EXCEPT !.late = TRUE] ELSE req[r]]

\* invalidatePath() deletes key after key; locks stay.
Invalidate(k) ==
  /\ k \in todo
  /\ todo' = todo \ {k}
  /\ store' = [store EXCEPT ![k] = NoEntry]
  /\ cleared' = [cleared EXCEPT ![k] = version]
  /\ req' = Overtaken(k)
  /\ UNCHANGED <<now, lock, data, faults>>

\* A command of the store is under way.
Awaiting == {"got", "asking", "claimed", "refused", "finish"}

\* Time passes; what takes too long is over by then.
Tick ==
  /\ now < MaxTime
  /\ \A r \in Requests :
       /\ req[r].pc \in Awaiting => now < req[r].since + StoreTime
       /\ req[r].pc = "handler" => now < req[r].since + HandlerTime
  /\ now' = now + 1
  /\ UNCHANGED <<store, lock, req, data, invalidation, faults>>

Next ==
  \/ \E r \in Requests :
       \/ Bypass(r) \/ \E k \in Keys : Lookup(r, k)
       \/ Hit(r) \/ Miss(r)
       \/ Ask(r) \/ TakeLock(r) \/ Claim(r) \/ ServeStale(r)
       \/ ReadsData(r) \/ RespondAndStore(r) \/ Respond(r)
       \/ EndWithoutFinish(r) \/ Write(r) \/ Release(r)
  \/ Update \/ \E k \in Keys : Invalidate(k)
  \/ Tick

Spec == Init /\ [][Next]_vars

-----------------------------------------------------------------------------
Refreshers(k) ==
  {r \in Requests : req[r].pc = "handler" /\ req[r].refreshing /\ req[r].key = k}

\* A claim lives from its effect in the store, its holder works from the
\* reply on, and the release may be late: if all of this fits into the claim,
\* at most one request refreshes an entry, and under a claim that is in force,
\* since no release takes away that of somebody else. A claim that nobody
\* releases ends by itself.
OneRefresher ==
  \A k \in Keys :
    /\ HandlerTime + 2 * StoreTime < LockTtl =>
         /\ Cardinality(Refreshers(k)) <= 1
         /\ Refreshers(k) # {} => lock[k] > now
    /\ lock[k] <= now + LockTtl

\* A value from the cache is never older than the two lifetimes of an entry,
\* the time it took to make and the time the lock was awaited after its age
\* had been computed, although writes of slow handlers overtake newer ones
\* and outlive an invalidation.
BoundedStaleness ==
  \A r \in Requests : req[r].lag <= HandlerTime + Ttl + Swr + StoreTime

\* After an invalidation the old value comes back only from a request that
\* was under way when it took place.
InvalidatedIsGone ==
  \A k \in Keys :
    store[k].there /\ store[k].val < cleared[k] => store[k].late

CacheKeepsUp == BoundedStaleness /\ InvalidatedIsGone
=============================================================================
