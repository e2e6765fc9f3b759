--------------------------- MODULE CacheSwrProofs ---------------------------
(* One refresher per entry, values that are never too old and invalidations  *)
(* that hold, for any requests, lifetimes and bounds.                        *)
EXTENDS CacheSwr, FiniteSetTheorems, TLAPS

\* A request waits and works no longer than it may, and what it finishes with
\* nothing to store, it refreshes: the lock it releases was its own once.
Punctual(r) ==
  /\ req[r].since \in Nat /\ req[r].key \in Keys
  /\ req[r].since <= now
  /\ req[r].pc \in Awaiting => now <= req[r].since + StoreTime
  /\ req[r].pc = "handler" => now <= req[r].since + HandlerTime
  /\ req[r].pc = "finish" /\ ~req[r].entry.there => req[r].refreshing

LockInv ==
  /\ now \in Nat
  /\ lock \in [Keys -> Nat]
  /\ \A k \in Keys : lock[k] <= now + LockTtl
  /\ DOMAIN req = Requests
  /\ \A r \in Requests : Punctual(r)

\* A request holds a claim from its effect in the store to the release.
Holds(r) ==
  \/ req[r].pc = "claimed"
  \/ req[r].pc \in {"handler", "finish"} /\ req[r].refreshing

\* What the steps before the current one may have used up of the claim.
Spent(r) ==
  IF req[r].pc = "claimed" THEN 0
  ELSE IF req[r].pc = "handler" THEN StoreTime ELSE StoreTime + HandlerTime

\* The claim is still the one its holder has made, and nobody else has one for
\* the same key.
ClaimInv ==
  \A r \in Requests :
    Holds(r) =>
      /\ lock[req[r].key] + Spent(r) >= req[r].since + LockTtl
      /\ \A q \in Requests : Holds(q) /\ req[q].key = req[r].key => q = r

\* The whole of a refresh fits into its claim.
ClaimIsLongEnough == HandlerTime + 2 * StoreTime < LockTtl

-----------------------------------------------------------------------------
LEMMA LockInit == Init => LockInv /\ ClaimInv
BY CacheAssumption
   DEF Init, LockInv, ClaimInv, Punctual, Holds, NoRequest, Keys, Awaiting,
       CacheAssumption

\* Nothing but request r changes.
Only(r) ==
  DOMAIN req' = Requests /\ \A q \in Requests \ {r} : req'[q] = req[q]

\* A step of one request that is in time.
LEMMA LockStep ==
  ASSUME LockInv, NEW r \in Requests, Only(r), UNCHANGED now,
         lock' \in [Keys -> Nat], \A k \in Keys : lock'[k] <= now + LockTtl,
         Punctual(r)'
  PROVE  LockInv'
BY DEF LockInv, Punctual, Only

\* A step of a request that holds no claim afterwards disturbs no other.
LEMMA OthersKeep ==
  ASSUME ClaimInv, NEW r \in Requests, Only(r), ~Holds(r)',
         \A q \in Requests \ {r} :
           Holds(q) => lock'[req[q].key] = lock[req[q].key]
  PROVE  ClaimInv'
BY DEF ClaimInv, Holds, Spent, Only

\* A step of a holder on its way to the release.
LEMMA HolderKeeps ==
  ASSUME ClaimInv, NEW r \in Requests, Only(r), UNCHANGED lock,
         Holds(r), req'[r].key = req[r].key,
         lock[req[r].key] + Spent(r)' >= req'[r].since + LockTtl
  PROVE  ClaimInv'
BY DEF ClaimInv, Holds, Spent, Only

\* A request that has ended holds nothing.
LEMMA DoneFacts ==
  ASSUME LockInv, NEW r \in Requests, NEW lag, Done(r, lag), UNCHANGED now
  PROVE  Only(r) /\ ~Holds(r)' /\ Punctual(r)'
BY DEF Done, Only, LockInv, Punctual, Holds, NoRequest, Keys, Awaiting

\* A handler starts with its whole time before it.
LEMMA RunsFacts ==
  ASSUME LockInv, NEW r \in Requests, NEW b \in BOOLEAN, Runs(r, b),
         UNCHANGED now
  PROVE  /\ Only(r) /\ Punctual(r)'
         /\ req'[r].since = now /\ req'[r].key = req[r].key
         /\ req'[r].pc = "handler" /\ req'[r].refreshing = b
<1>1. /\ Only(r) /\ req'[r].since = now /\ req'[r].key = req[r].key
      /\ req'[r].pc = "handler" /\ req'[r].refreshing = b
  BY DEF Runs, Only, LockInv
<1>2. Punctual(r)'
  BY <1>1, CacheAssumption
     DEF LockInv, Punctual, Awaiting, CacheAssumption
<1> QED BY <1>1, <1>2

\* A claim that is in force cannot be taken: its holder is still in time.
LEMMA ClaimInForce ==
  ASSUME ClaimIsLongEnough, LockInv, ClaimInv, NEW r \in Requests, Holds(r)
  PROVE  lock[req[r].key] > now
<1> USE CacheAssumption DEF CacheAssumption
<1>1. PICK k \in Keys : k = req[r].key
  BY DEF LockInv, Punctual
<1>2. /\ lock[k] \in Nat /\ now \in Nat /\ req[r].since \in Nat
      /\ lock[k] + Spent(r) >= req[r].since + LockTtl
  BY <1>1 DEF LockInv, Punctual, ClaimInv
<1>3. CASE req[r].pc = "claimed"
  BY <1>1, <1>2, <1>3
     DEF Spent, LockInv, Punctual, Awaiting, ClaimIsLongEnough
<1>4. CASE req[r].pc = "handler"
  BY <1>1, <1>2, <1>4 DEF Spent, LockInv, Punctual, ClaimIsLongEnough
<1>5. CASE req[r].pc = "finish"
  BY <1>1, <1>2, <1>5
     DEF Spent, LockInv, Punctual, Awaiting, ClaimIsLongEnough
<1> QED BY <1>3, <1>4, <1>5 DEF Holds

-----------------------------------------------------------------------------
(* The steps, each with what it does to the claims. The lock matters to the  *)
(* second half only if the claim is long enough.                             *)

LEMMA HookKeeps ==
  ASSUME LockInv, NEW r \in Requests,
         \/ Bypass(r) \/ (\E k \in Keys : Lookup(r, k))
         \/ Hit(r) \/ Miss(r) \/ Ask(r) \/ Claim(r) \/ ServeStale(r)
  PROVE  LockInv' /\ (ClaimInv => ClaimInv')
<1> USE CacheAssumption DEF CacheAssumption
<1>1. UNCHANGED <<now, lock>>
  BY Zenon DEF Bypass, Lookup, Hit, Miss, Ask, Claim, ServeStale
<1>2. lock' \in [Keys -> Nat] /\ \A k \in Keys : lock'[k] <= now + LockTtl
  BY <1>1 DEF LockInv
<1>3. ASSUME Only(r), ~Holds(r)', Punctual(r)'
      PROVE  LockInv' /\ (ClaimInv => ClaimInv')
  BY <1>1, <1>2, <1>3, LockStep, OthersKeep
<1>4. CASE Bypass(r)
  BY <1>1, <1>3, <1>4, DoneFacts DEF Bypass
<1>5. ASSUME NEW k \in Keys, Lookup(r, k)
      PROVE  LockInv' /\ (ClaimInv => ClaimInv')
  <2>1. PICK e : req' = [req EXCEPT ![r].pc = "got", ![r].key = k,
                                    ![r].since = now, ![r].entry = e]
    BY <1>5, Zenon DEF Lookup
  <2>2. Only(r)
    BY <2>1 DEF Only, LockInv
  <2>3. req'[r].pc = "got" /\ req'[r].key = k /\ req'[r].since = now
    BY <2>1 DEF LockInv
  <2>4. ~Holds(r)' /\ Punctual(r)'
    BY <1>1, <2>3 DEF LockInv, Holds, Punctual, Awaiting
  <2> QED BY <1>3, <2>2, <2>4
<1>6. CASE Hit(r)
  BY <1>1, <1>3, <1>6, DoneFacts DEF Hit, Serves
<1>7. CASE ServeStale(r)
  BY <1>1, <1>3, <1>7, DoneFacts DEF ServeStale, Serves
<1>8. CASE Miss(r)
  <2>1. Only(r) /\ Punctual(r)' /\ ~Holds(r)'
    BY <1>1, <1>8, RunsFacts DEF Miss, Holds
  <2> QED BY <1>3, <2>1
<1>9. CASE Ask(r)
  <2>1. /\ Only(r) /\ req'[r].pc = "asking" /\ req'[r].since = now
        /\ req'[r].key = req[r].key
    BY <1>9 DEF Ask, Only, LockInv
  <2>2. ~Holds(r)' /\ Punctual(r)'
    BY <1>1, <2>1 DEF LockInv, Holds, Punctual, Awaiting
  <2> QED BY <1>3, <2>1, <2>2
<1>10. CASE Claim(r)
  <2>1. /\ Only(r) /\ Punctual(r)'
        /\ req'[r].since = now /\ req'[r].key = req[r].key
        /\ req'[r].pc = "handler"
    BY <1>1, <1>10, RunsFacts DEF Claim
  <2>2. LockInv'
    BY <1>1, <1>2, <2>1, LockStep
  <2>3. req[r].pc = "claimed" /\ Holds(r)
    BY <1>10 DEF Claim, Holds
  <2>4. ASSUME ClaimInv PROVE ClaimInv'
    <3>1. PICK k \in Keys : k = req[r].key
      BY DEF LockInv, Punctual
    <3>2. /\ lock[k] \in Nat /\ req[r].since \in Nat /\ now \in Nat
          /\ now <= req[r].since + StoreTime
      BY <2>3, <3>1 DEF LockInv, Punctual, Awaiting
    <3>3. lock[k] >= req[r].since + LockTtl
      BY <2>3, <2>4, <3>1, <3>2 DEF ClaimInv, Spent
    <3>4. Spent(r)' = StoreTime
      BY <2>1 DEF Spent
    <3>5. lock[k] + Spent(r)' >= req'[r].since + LockTtl
      BY <2>1, <3>2, <3>3, <3>4
    <3> QED BY <1>1, <2>1, <2>3, <2>4, <3>1, <3>5, HolderKeeps
  <2> QED BY <2>2, <2>4
<1> QED BY <1>4, <1>5, <1>6, <1>7, <1>8, <1>9, <1>10

LEMMA TakeLockKeeps ==
  ASSUME LockInv, NEW r \in Requests, TakeLock(r)
  PROVE  LockInv' /\ (ClaimIsLongEnough /\ ClaimInv => ClaimInv')
<1> USE CacheAssumption DEF CacheAssumption
<1>1. PICK k \in Keys : k = req[r].key
  BY DEF LockInv, Punctual
<1>2. PICK n \in Nat : n = now + LockTtl
  BY DEF LockInv
<1>3. /\ req[r].pc = "asking" /\ now' = now
      /\ \/ Claimable(k) /\ lock' = [lock EXCEPT ![k] = n] /\ Replies(r, "claimed")
         \/ lock' = lock /\ Replies(r, "refused")
         \/ Claimable(k) /\ lock' = [lock EXCEPT ![k] = n] /\ Replies(r, "refused")
  BY <1>1, <1>2, Zenon DEF TakeLock, Locked
<1>4. /\ Only(r) /\ req'[r].key = k /\ req'[r].since = req[r].since
      /\ req'[r].pc \in {"claimed", "refused"}
  <2>1. PICK p \in {"claimed", "refused"} : req' = [req EXCEPT ![r].pc = p]
    BY <1>3 DEF Replies
  <2> QED BY <1>1, <2>1 DEF Only, LockInv
<1>5. LockInv'
  <2>1. lock' \in [Keys -> Nat] /\ \A i \in Keys : lock'[i] <= now + LockTtl
    BY <1>2, <1>3 DEF LockInv
  <2>2. Punctual(r)'
    BY <1>1, <1>3, <1>4 DEF LockInv, Punctual, Awaiting
  <2> QED BY <1>3, <1>4, <2>1, <2>2, LockStep
<1>6. ASSUME ClaimIsLongEnough, ClaimInv PROVE ClaimInv'
  <2>1. ~Holds(r)
    BY <1>3 DEF Holds
  <2>2. ASSUME Claimable(k), NEW q \in Requests, Holds(q)
        PROVE  req[q].key # k
    <3>1. lock[req[q].key] > now
      BY <1>6, <2>2, ClaimInForce
    <3> QED BY <2>2, <3>1 DEF Claimable, LockInv
  <2>3. \A q \in Requests : Holds(q) => lock'[req[q].key] = lock[req[q].key]
    BY <1>3, <2>2 DEF LockInv, Punctual
  <2>4. CASE req'[r].pc = "refused"
    <3>1. ~Holds(r)'
      BY <2>4 DEF Holds
    <3> QED BY <1>4, <1>6, <2>3, <3>1, OthersKeep
  <2>5. CASE req'[r].pc = "claimed"
    <3>1. Claimable(k) /\ lock' = [lock EXCEPT ![k] = n]
      <4>1. ASSUME Replies(r, "refused") PROVE req'[r].pc = "refused"
        BY <4>1 DEF Replies, LockInv
      <4> QED BY <1>3, <2>5, <4>1
    <3>2. lock'[k] = n /\ n >= req[r].since + LockTtl
      BY <1>2, <3>1 DEF LockInv, Punctual
    <3>3. \A q \in Requests \ {r} :
            /\ Holds(q)' <=> Holds(q)
            /\ Spent(q)' = Spent(q)
            /\ req'[q] = req[q]
      BY <1>4 DEF Only, Holds, Spent
    <3>4. \A q \in Requests : Holds(q) => req[q].key # k
      BY <2>2, <3>1
    <3> SUFFICES
          ASSUME NEW s \in Requests, Holds(s)'
          PROVE  /\ lock'[req'[s].key] + Spent(s)' >= req'[s].since + LockTtl
                 /\ \A q \in Requests :
                      Holds(q)' /\ req'[q].key = req'[s].key => q = s
      BY DEF ClaimInv
    <3>5. CASE s = r
      <4>1. Spent(r)' = 0
        BY <2>5 DEF Spent
      <4> QED BY <1>4, <3>2, <3>3, <3>4, <3>5, <4>1
    <3>6. CASE s # r
      <4>1. Holds(s) /\ req'[s] = req[s] /\ Spent(s)' = Spent(s)
        BY <3>3, <3>6
      <4>2. lock'[req[s].key] = lock[req[s].key] /\ req[s].key # k
        BY <2>3, <3>4, <4>1
      <4>3. lock[req[s].key] + Spent(s) >= req[s].since + LockTtl
        BY <1>6, <4>1 DEF ClaimInv
      <4>4. \A q \in Requests :
              Holds(q)' /\ req'[q].key = req[s].key => q = s
        BY <1>4, <1>6, <3>3, <4>1, <4>2 DEF ClaimInv
      <4> QED BY <4>1, <4>2, <4>3, <4>4
    <3> QED BY <3>5, <3>6
  <2> QED BY <1>4, <2>4, <2>5
<1> QED BY <1>5, <1>6

LEMMA HandlerKeeps ==
  ASSUME LockInv, NEW r \in Requests,
         \/ ReadsData(r) \/ RespondAndStore(r) \/ Respond(r)
         \/ EndWithoutFinish(r)
  PROVE  LockInv' /\ (ClaimInv => ClaimInv')
<1> USE CacheAssumption DEF CacheAssumption
<1>1. UNCHANGED <<now, lock>> /\ req[r].pc = "handler"
  BY Zenon DEF ReadsData, RespondAndStore, Respond, EndWithoutFinish
<1>2. lock' \in [Keys -> Nat] /\ \A k \in Keys : lock'[k] <= now + LockTtl
  BY <1>1 DEF LockInv
<1>3. CASE ReadsData(r)
  BY <1>3 DEF ReadsData, LockInv, Punctual, ClaimInv, Holds, Spent, Awaiting
<1>4. CASE EndWithoutFinish(r) \/ (Respond(r) /\ ~req[r].refreshing)
  <2>1. Only(r) /\ ~Holds(r)' /\ Punctual(r)'
    BY <1>1, <1>4, DoneFacts DEF EndWithoutFinish, Respond
  <2> QED BY <1>1, <1>2, <2>1, LockStep, OthersKeep
<1>5. CASE RespondAndStore(r) \/ (Respond(r) /\ req[r].refreshing)
  <2>1. /\ Only(r) /\ req'[r].pc = "finish" /\ req'[r].since = now
        /\ req'[r].key = req[r].key /\ req'[r].refreshing = req[r].refreshing
        /\ ~req'[r].entry.there => req[r].refreshing
    <3>1. CASE RespondAndStore(r)
      <4>1. PICK e : e = [there |-> TRUE, val |-> req[r].val, storedAt |-> now,
                          late |-> FALSE]
        OBVIOUS
      <4>2. req' = [req EXCEPT ![r].pc = "finish", ![r].since = now,
                               ![r].entry = e]
        BY <3>1, <4>1, Zenon DEF RespondAndStore
      <4>3. e.there
        BY <4>1
      <4> QED BY <4>2, <4>3 DEF Only, LockInv
    <3>2. CASE Respond(r) /\ req[r].refreshing
      <4>1. req' = [req EXCEPT ![r].pc = "finish", ![r].since = now]
        BY <3>2, Zenon DEF Respond
      <4>2. Only(r)
        BY <4>1 DEF Only, LockInv
      <4>3. /\ req'[r].pc = "finish" /\ req'[r].since = now
            /\ req'[r].key = req[r].key
            /\ req'[r].refreshing = req[r].refreshing
        BY <4>1 DEF LockInv
      <4> QED BY <3>2, <4>2, <4>3
    <3> QED BY <1>5, <3>1, <3>2
  <2>2. Punctual(r)'
    BY <1>1, <2>1 DEF LockInv, Punctual, Awaiting
  <2>3. LockInv'
    BY <1>1, <1>2, <2>1, <2>2, LockStep
  <2>4. ASSUME ClaimInv, ~Holds(r) PROVE ClaimInv'
    <3>1. ~Holds(r)'
      BY <1>1, <2>1, <2>4 DEF Holds
    <3> QED BY <1>1, <2>1, <2>4, <3>1, OthersKeep
  <2>5. ASSUME ClaimInv, Holds(r) PROVE ClaimInv'
    <3>1. PICK k \in Keys : k = req[r].key
      BY DEF LockInv, Punctual
    <3>2. /\ lock[k] \in Nat /\ req[r].since \in Nat /\ now \in Nat
          /\ now <= req[r].since + HandlerTime
      BY <1>1, <3>1 DEF LockInv, Punctual
    <3>3. lock[k] + StoreTime >= req[r].since + LockTtl
      BY <1>1, <2>5, <3>1, <3>2 DEF ClaimInv, Spent
    <3>4. Spent(r)' = StoreTime + HandlerTime
      BY <2>1 DEF Spent
    <3>5. lock[k] + Spent(r)' >= req'[r].since + LockTtl
      BY <2>1, <3>2, <3>3, <3>4
    <3> QED BY <1>1, <2>1, <2>5, <3>1, <3>5, HolderKeeps
  <2> QED BY <2>3, <2>4, <2>5
<1> QED BY <1>3, <1>4, <1>5

LEMMA WriteKeeps ==
  ASSUME LockInv, NEW r \in Requests, Write(r)
  PROVE  LockInv' /\ (ClaimInv => ClaimInv')
<1> USE CacheAssumption DEF CacheAssumption
<1>1. UNCHANGED <<now, lock>> /\ req[r].pc = "finish"
  BY DEF Write
<1>2. lock' \in [Keys -> Nat] /\ \A k \in Keys : lock'[k] <= now + LockTtl
  BY <1>1 DEF LockInv
<1>3. CASE req[r].refreshing
  <2>1. /\ Only(r) /\ req'[r].pc = "finish" /\ req'[r].since = req[r].since
        /\ req'[r].key = req[r].key /\ req'[r].refreshing = req[r].refreshing
    <3>1. req' = [req EXCEPT ![r].entry = NoEntry]
      BY <1>3, Zenon DEF Write
    <3> QED BY <1>1, <3>1 DEF Only, LockInv
  <2>2. Punctual(r)' /\ Spent(r)' = Spent(r) /\ Holds(r)
    BY <1>1, <1>3, <2>1 DEF LockInv, Punctual, Awaiting, Spent, Holds
  <2>3. LockInv'
    BY <1>1, <1>2, <2>1, <2>2, LockStep
  <2>4. ASSUME ClaimInv PROVE ClaimInv'
    <3>1. lock[req[r].key] + Spent(r)' >= req'[r].since + LockTtl
      BY <2>1, <2>2, <2>4 DEF ClaimInv
    <3> QED BY <1>1, <2>1, <2>2, <2>4, <3>1, HolderKeeps
  <2> QED BY <2>3, <2>4
<1>4. CASE ~req[r].refreshing
  <2>1. Only(r) /\ ~Holds(r)' /\ Punctual(r)'
    BY <1>1, <1>4, DoneFacts DEF Write
  <2> QED BY <1>1, <1>2, <2>1, LockStep, OthersKeep
<1> QED BY <1>3, <1>4

\* The lock is released by the one who holds it, or is its own by then.
LEMMA ReleaseKeeps ==
  ASSUME LockInv, NEW r \in Requests, Release(r)
  PROVE  LockInv' /\ (ClaimInv => ClaimInv')
<1> USE CacheAssumption DEF CacheAssumption
<1>1. PICK k \in Keys : k = req[r].key
  BY DEF LockInv, Punctual
<1>2. /\ now' = now /\ req[r].pc = "finish" /\ ~req[r].entry.there
      /\ lock' = [lock EXCEPT ![k] = 0] \/ lock' = lock
  BY <1>1 DEF Release
<1>3. Only(r) /\ ~Holds(r)' /\ Punctual(r)'
  BY <1>2, DoneFacts DEF Release
<1>4. lock' \in [Keys -> Nat] /\ \A i \in Keys : lock'[i] <= now + LockTtl
  BY <1>2 DEF LockInv
<1>5. LockInv'
  BY <1>2, <1>3, <1>4, LockStep
<1>6. ASSUME ClaimInv PROVE ClaimInv'
  <2>1. Holds(r)
    BY <1>2 DEF LockInv, Punctual, Holds
  <2>2. \A q \in Requests \ {r} : Holds(q) => req[q].key # k
    BY <1>1, <1>6, <2>1 DEF ClaimInv
  <2>3. \A q \in Requests \ {r} :
          Holds(q) => lock'[req[q].key] = lock[req[q].key]
    BY <1>2, <2>2 DEF LockInv, Punctual
  <2> QED BY <1>3, <1>6, <2>3, OthersKeep
<1> QED BY <1>5, <1>6

LEMMA LockNext ==
  ASSUME LockInv, [Next]_vars
  PROVE  LockInv' /\ (ClaimIsLongEnough /\ ClaimInv => ClaimInv')
<1> USE CacheAssumption DEF CacheAssumption
<1>1. CASE UNCHANGED vars
  BY <1>1 DEF vars, LockInv, Punctual, ClaimInv, Holds, Spent
<1>2. CASE Update
  BY <1>2 DEF Update, LockInv, Punctual, ClaimInv, Holds, Spent
<1>3. ASSUME NEW k \in Keys, Invalidate(k)
      PROVE  LockInv' /\ (ClaimInv => ClaimInv')
  <2>1. /\ UNCHANGED <<now, lock>>
        /\ DOMAIN req' = Requests
        /\ \A r \in Requests : /\ req'[r].pc = req[r].pc
                               /\ req'[r].key = req[r].key
                               /\ req'[r].since = req[r].since
                               /\ req'[r].entry = req[r].entry
                               /\ req'[r].refreshing = req[r].refreshing
    BY <1>3 DEF Invalidate, Overtaken
  <2>2. LockInv'
    BY <2>1 DEF LockInv, Punctual
  <2>3. ASSUME ClaimInv PROVE ClaimInv'
    BY <2>1, <2>3 DEF ClaimInv, Holds, Spent
  <2> QED BY <2>2, <2>3
<1>4. CASE Tick
  <2>1. LockInv'
    BY <1>4 DEF Tick, LockInv, Punctual
  <2>2. ASSUME ClaimInv PROVE ClaimInv'
    BY <1>4, <2>2 DEF Tick, ClaimInv, Holds, Spent
  <2> QED BY <2>1, <2>2
<1> QED BY <1>1, <1>2, <1>3, <1>4, HookKeeps, TakeLockKeeps, HandlerKeeps,
           WriteKeeps, ReleaseKeeps DEF Next

LEMMA LockAlways == Spec => []LockInv
<1>1. LockInv /\ [Next]_vars => LockInv'
  BY LockNext
<1> QED BY <1>1, LockInit, PTL DEF Spec

\* Whatever requests of an entry overlap, fail, stream or end without
\* finish(): if awaiting the lock, the handler and the release fit into
\* refreshLockTtl, one of them at most refreshes it, under a claim that is in
\* force; and in any case no claim outlasts refreshLockTtl.
THEOREM CacheHasOneRefresher == Spec => []OneRefresher
<1>1. LockInv /\ (ClaimIsLongEnough => ClaimInv) => OneRefresher
  <2> SUFFICES ASSUME LockInv, ClaimIsLongEnough => ClaimInv, NEW k \in Keys
               PROVE  /\ ClaimIsLongEnough =>
                           /\ Cardinality(Refreshers(k)) <= 1
                           /\ Refreshers(k) # {} => lock[k] > now
                      /\ lock[k] <= now + LockTtl
    BY DEF OneRefresher, ClaimIsLongEnough
  <2>1. lock[k] <= now + LockTtl
    BY DEF LockInv
  <2>2. ASSUME ClaimIsLongEnough, Refreshers(k) = {}
        PROVE  Cardinality(Refreshers(k)) <= 1
    BY <2>2, FS_EmptySet
  <2>3. ASSUME ClaimIsLongEnough, Refreshers(k) # {}
        PROVE  Cardinality(Refreshers(k)) <= 1 /\ lock[k] > now
    <3>1. PICK r \in Requests : Holds(r) /\ req[r].key = k
      BY <2>3 DEF Refreshers, Holds
    <3>2. Refreshers(k) \subseteq {r}
      BY <2>3, <3>1 DEF ClaimInv, Refreshers, Holds
    <3>3. Refreshers(k) = {r} /\ Cardinality({r}) = 1
      <4>1. Cardinality({r}) = 1
        BY FS_Singleton
      <4> QED BY <2>3, <3>2, <4>1
    <3>4. lock[k] > now
      BY <2>3, <3>1, ClaimInForce
    <3> QED BY <3>3, <3>4
  <2> QED BY <2>1, <2>2, <2>3
<1>2. Init => LockInv /\ (ClaimIsLongEnough => ClaimInv)
  BY LockInit
<1>3. /\ LockInv /\ (ClaimIsLongEnough => ClaimInv) /\ [Next]_vars
      => LockInv' /\ (ClaimIsLongEnough => ClaimInv)'
  BY LockNext DEF ClaimIsLongEnough
<1> QED BY <1>1, <1>2, <1>3, PTL DEF Spec

-----------------------------------------------------------------------------
(* Staleness and invalidation.                                               *)

\* The value of an entry was current some HandlerTime before it was stored.
Dated(e) ==
  e.there =>
    /\ e.val <= version /\ e.storedAt <= now
    /\ e.val # version => e.storedAt <= ended[e.val] + HandlerTime

\* What a handler has read was current when it ran, and is from before the
\* last invalidation only if the handler is; the same goes for what a response
\* brings to the store.
InTime(q) ==
  /\ q.pc = "handler" /\ q.read =>
       /\ q.val <= version
       /\ q.val # version => q.since <= ended[q.val]
       /\ q.val < cleared[q.key] => q.late
  /\ q.pc = "finish" /\ q.entry.there =>
       (q.entry.val < cleared[q.key] => q.late)

\* An entry of key k, and a request, as they should be.
GoodEntry(k, e) ==
  Dated(e) /\ (e.there /\ e.val < cleared[k] => e.late)

\* Before a request asks for the lock its entry is not too old.
GoodRequest(q) ==
  /\ q.pc \in {"none", "got", "asking", "claimed", "refused"} => ~q.read
  /\ q.pc \in {"asking", "claimed", "refused"} =>
       q.entry.there /\ q.since <= q.entry.storedAt + Ttl + Swr
  /\ q.pc = "handler" => ~q.entry.there
  /\ Dated(q.entry)
  /\ InTime(q)
  /\ q.lag <= HandlerTime + Ttl + Swr + StoreTime

CacheInv ==
  /\ TypeOK
  /\ \A v \in Versions : ended[v] <= now
  /\ \A k \in Keys : cleared[k] <= version /\ GoodEntry(k, store[k])
  /\ \A r \in Requests : GoodRequest(req[r])

LEMMA CacheInvSafe == CacheInv => CacheKeepsUp
BY DEF CacheInv, GoodEntry, GoodRequest, CacheKeepsUp, BoundedStaleness,
       InvalidatedIsGone

LEMMA CacheInit == Init => CacheInv
<1> SUFFICES ASSUME Init PROVE CacheInv
  OBVIOUS
<1> USE CacheAssumption DEF CacheAssumption, Init
<1>1. NoEntry \in Entry
  BY DEF NoEntry, Entry, Versions
<1>2. NoRequest \in Request
  BY <1>1 DEF NoRequest, Request, Keys, Versions
<1>3. PICK e : e = [NoEntry EXCEPT !.there = TRUE]
  OBVIOUS
<1>4. /\ e \in Entry /\ e.val = 0 /\ e.storedAt = 0
      /\ NoEntry.val = 0 /\ NoEntry.storedAt = 0 /\ ~NoEntry.there
  <2>1. e = [there |-> TRUE, val |-> 0, storedAt |-> 0, late |-> FALSE]
    BY <1>3 DEF NoEntry
  <2> QED BY <2>1 DEF NoEntry, Entry, Versions
<1>5. store \in [Keys -> {NoEntry, e}]
  BY <1>3
<1>6. TypeOK
  BY <1>1, <1>2, <1>4, <1>5 DEF TypeOK, Keys, Versions
<1>7. \A k \in Keys : cleared[k] <= version /\ GoodEntry(k, store[k])
  BY <1>4, <1>5 DEF GoodEntry, Dated
<1>8. \A r \in Requests : GoodRequest(req[r])
  BY DEF GoodRequest, InTime, Dated, NoRequest, NoEntry
<1> QED BY <1>6, <1>7, <1>8 DEF CacheInv, Versions

\* A step of one request that leaves the clock and the data alone.
LEMMA RequestStep ==
  ASSUME CacheInv, NEW r \in Requests, NEW u \in Request,
         req' = [req EXCEPT ![r] = u], GoodRequest(u),
         UNCHANGED <<now, version, ended, todo, cleared>>,
         lock' \in [Keys -> Nat], faults' \in 0..MaxFaults,
         store' \in [Keys -> Entry],
         \A k \in Keys : GoodEntry(k, store'[k])
  PROVE  CacheInv'
<1>1. TypeOK'
  BY DEF CacheInv, TypeOK
<1>2. \A e : Dated(e) => Dated(e)'
  BY DEF Dated
<1>3. \A q : GoodRequest(q) => GoodRequest(q)'
  BY <1>2 DEF GoodRequest, InTime
<1>4. \A k, e : GoodEntry(k, e) => GoodEntry(k, e)'
  BY <1>2 DEF GoodEntry
<1>5. \A q \in Requests : GoodRequest(req[q])'
  <2> TAKE q \in Requests
  <2>1. PICK w : w = req'[q]
    OBVIOUS
  <2>2. GoodRequest(w)
    BY <2>1 DEF CacheInv, TypeOK
  <2>3. GoodRequest(w)'
    BY <1>3, <2>2
  <2> QED BY <2>1, <2>3 DEF GoodRequest, InTime, Dated
<1>6. \A k \in Keys : GoodEntry(k, store[k])'
  <2> TAKE k \in Keys
  <2>1. PICK e : e = store'[k]
    OBVIOUS
  <2>2. GoodEntry(k, e)'
    BY <1>4, <2>1
  <2> QED BY <2>1, <2>2 DEF GoodEntry, Dated
<1> QED BY <1>1, <1>5, <1>6 DEF CacheInv

\* The same for one that writes nothing to the store.
LEMMA QuietStep ==
  ASSUME CacheInv, NEW r \in Requests, NEW u \in Request,
         req' = [req EXCEPT ![r] = u], GoodRequest(u),
         UNCHANGED <<now, store, version, ended, todo, cleared>>,
         lock' \in [Keys -> Nat], faults' \in 0..MaxFaults
  PROVE  CacheInv'
BY RequestStep DEF CacheInv, TypeOK

\* A request that ends has nothing left but how stale its answer was.
LEMMA DoneRecord ==
  ASSUME NEW r \in Requests, NEW lag \in 0..MaxTime,
         lag <= HandlerTime + Ttl + Swr + StoreTime, Done(r, lag)
  PROVE  \E u \in Request : req' = [req EXCEPT ![r] = u] /\ GoodRequest(u)
<1> USE CacheAssumption DEF CacheAssumption
<1>1. NoRequest \in Request /\ ~NoRequest.entry.there
  BY DEF NoRequest, Request, NoEntry, Entry, Keys, Versions
<1>2. PICK u : u = [NoRequest EXCEPT !.pc = "done", !.lag = lag]
  OBVIOUS
<1>3. u \in Request /\ u.pc = "done" /\ u.lag = lag /\ ~u.entry.there
  BY <1>1, <1>2 DEF Request
<1>4. req' = [req EXCEPT ![r] = u]
  BY <1>2 DEF Done
<1> QED BY <1>3, <1>4 DEF GoodRequest, InTime, Dated

\* What is served is as old as its entry, the time it took to make it and the
\* time the lock was awaited.
LEMMA ServesRecord ==
  ASSUME CacheInv, NEW r \in Requests, req[r].entry.there,
         now <= req[r].entry.storedAt + Ttl + Swr + StoreTime, Serves(r)
  PROVE  \E u \in Request : req' = [req EXCEPT ![r] = u] /\ GoodRequest(u)
<1> USE CacheAssumption DEF CacheAssumption
<1>1. PICK e \in Entry : e = req[r].entry
  BY DEF CacheInv, TypeOK, Request
<1>2. /\ e.val \in Versions /\ e.storedAt \in Nat
      /\ now \in 0..MaxTime /\ ended[e.val] \in Nat /\ ended[e.val] <= now
  BY <1>1 DEF Entry, CacheInv, TypeOK
<1>3. e.there /\ Dated(e)
  BY <1>1 DEF CacheInv, GoodRequest
<1>4. PICK lag : lag = IF e.val = version THEN 0 ELSE now - ended[e.val]
  OBVIOUS
<1>5. lag \in 0..MaxTime /\ lag <= HandlerTime + Ttl + Swr + StoreTime
  BY <1>1, <1>2, <1>3, <1>4 DEF Dated
<1>6. Done(r, lag)
  BY <1>1, <1>4 DEF Serves
<1> QED BY <1>5, <1>6, DoneRecord

\* A request whose handler runs has read nothing yet.
LEMMA RunsRecord ==
  ASSUME CacheInv, NEW r \in Requests, req[r].pc \in {"got", "claimed"},
         NEW b \in BOOLEAN, Runs(r, b)
  PROVE  \E u \in Request : req' = [req EXCEPT ![r] = u] /\ GoodRequest(u)
<1> USE CacheAssumption DEF CacheAssumption
<1>1. PICK w \in Request : w = req[r]
  BY DEF CacheInv, TypeOK
<1>2. PICK n \in 0..MaxTime : n = now
  BY DEF CacheInv, TypeOK
<1>3. NoEntry \in Entry /\ ~NoEntry.there
  BY DEF NoEntry, Entry, Versions
<1>4. PICK u : u = [w EXCEPT !.pc = "handler", !.since = n,
                             !.refreshing = b, !.entry = NoEntry]
  OBVIOUS
<1>5. /\ u \in Request /\ u.pc = "handler" /\ u.since = n
      /\ u.read = w.read /\ u.lag = w.lag /\ ~u.entry.there
  BY <1>3, <1>4 DEF Request
<1>6. req' = [req EXCEPT ![r] = u]
  BY <1>1, <1>2, <1>4 DEF Runs
<1>7. GoodRequest(u)
  BY <1>1, <1>2, <1>5 DEF CacheInv, GoodRequest, InTime, Dated
<1> QED BY <1>5, <1>6, <1>7

LEMMA HookKeepsUp ==
  ASSUME LockInv, CacheInv, NEW r \in Requests,
         \/ Bypass(r) \/ (\E k \in Keys : Lookup(r, k))
         \/ Hit(r) \/ Miss(r) \/ Ask(r) \/ TakeLock(r) \/ Claim(r)
         \/ ServeStale(r)
  PROVE  CacheInv'
<1> USE CacheAssumption DEF CacheAssumption
<1>1. /\ lock \in [Keys -> Nat] /\ faults \in 0..MaxFaults /\ now \in 0..MaxTime
      /\ store \in [Keys -> Entry] /\ req \in [Requests -> Request]
  BY DEF CacheInv, TypeOK
<1>2. CASE Bypass(r)
  BY <1>1, <1>2, DoneRecord, QuietStep DEF Bypass, data, invalidation
<1>3. ASSUME NEW k \in Keys, Lookup(r, k) PROVE CacheInv'
  <2>1. PICK e : /\ e \in {store[k], NoEntry}
                 /\ req' = [req EXCEPT ![r].pc = "got", ![r].key = k,
                                       ![r].since = now, ![r].entry = e]
    <3>1. Found(k) \subseteq {store[k], NoEntry}
      BY DEF Found
    <3>2. \E e \in Found(k) \cup {NoEntry} :
            req' = [req EXCEPT ![r].pc = "got", ![r].key = k,
                               ![r].since = now, ![r].entry = e]
      BY <1>3, Zenon DEF Lookup
    <3> QED BY <3>1, <3>2
  <2>2. e \in Entry /\ Dated(e)
    <3>1. NoEntry \in Entry /\ Dated(NoEntry)
      BY DEF NoEntry, Entry, Versions, Dated
    <3>2. store[k] \in Entry /\ Dated(store[k])
      BY <1>1 DEF CacheInv, GoodEntry
    <3> QED BY <2>1, <3>1, <3>2
  <2>3. PICK w \in Request : w = req[r]
    BY <1>1
  <2>4. PICK n \in 0..MaxTime : n = now
    BY <1>1
  <2>5. PICK u : u = [w EXCEPT !.pc = "got", !.key = k, !.since = n,
                               !.entry = e]
    OBVIOUS
  <2>6. /\ u \in Request /\ u.pc = "got" /\ u.entry = e
        /\ u.read = w.read /\ u.lag = w.lag
    BY <2>2, <2>5 DEF Request
  <2>7. req' = [req EXCEPT ![r] = u]
    BY <2>1, <2>3, <2>4, <2>5
  <2>8. GoodRequest(u)
    BY <1>3, <2>2, <2>3, <2>6 DEF Lookup, CacheInv, GoodRequest, InTime
  <2>9. /\ UNCHANGED <<now, store, version, ended, todo, cleared>>
        /\ lock' = lock /\ faults' \in 0..MaxFaults
    <3>1. /\ UNCHANGED <<now, store, lock, data, invalidation>>
          /\ UNCHANGED faults \/ Fault
      BY <1>3, Zenon DEF Lookup
    <3> QED BY <1>1, <3>1 DEF Fault, data, invalidation
  <2> QED BY <1>1, <2>6, <2>7, <2>8, <2>9, QuietStep
<1>4. CASE Hit(r)
  <2>1. req[r].entry \in Entry
    BY <1>1 DEF Request
  <2>2. /\ req[r].entry.there
        /\ now <= req[r].entry.storedAt + Ttl + Swr + StoreTime
    BY <1>1, <1>4, <2>1 DEF Hit, Fresh, Age, Entry
  <2> QED BY <1>1, <1>4, <2>2, ServesRecord, QuietStep
          DEF Hit, data, invalidation
<1>5. CASE Miss(r)
  BY <1>1, <1>5, RunsRecord, QuietStep DEF Miss, data, invalidation
<1>6. CASE Claim(r)
  BY <1>1, <1>6, RunsRecord, QuietStep DEF Claim, data, invalidation
<1>7. CASE Ask(r)
  <2>1. PICK w \in Request : w = req[r] /\ GoodRequest(w)
    BY <1>1 DEF CacheInv
  <2>2. PICK n \in 0..MaxTime : n = now
    BY <1>1
  <2>3. PICK u : u = [w EXCEPT !.pc = "asking", !.since = n]
    OBVIOUS
  <2>4. /\ u \in Request /\ u.pc = "asking" /\ u.since = n
        /\ u.entry = w.entry /\ u.read = w.read /\ u.lag = w.lag
    BY <2>3 DEF Request
  <2>5. w.entry.there /\ n <= w.entry.storedAt + Ttl + Swr
    <3>1. w.entry \in Entry
      BY DEF Request
    <3> QED BY <1>7, <2>1, <2>2, <3>1 DEF Ask, Stale, Age, Entry
  <2>6. GoodRequest(u) /\ req' = [req EXCEPT ![r] = u]
    BY <1>7, <2>1, <2>2, <2>3, <2>4, <2>5 DEF Ask, GoodRequest, InTime
  <2> QED BY <1>1, <1>7, <2>4, <2>6, QuietStep DEF Ask, data, invalidation
<1>8. CASE TakeLock(r)
  <2>1. PICK w \in Request : w = req[r] /\ GoodRequest(w)
    BY <1>1 DEF CacheInv
  <2>2. PICK p \in {"claimed", "refused"} : req' = [req EXCEPT ![r].pc = p]
    BY <1>8 DEF TakeLock, Replies
  <2>3. PICK u : u = [w EXCEPT !.pc = p]
    OBVIOUS
  <2>4. /\ u \in Request /\ u.pc = p /\ u.since = w.since
        /\ u.entry = w.entry /\ u.read = w.read /\ u.lag = w.lag
    BY <2>3 DEF Request
  <2>5. GoodRequest(u) /\ req' = [req EXCEPT ![r] = u] /\ w.pc = "asking"
    BY <1>8, <2>1, <2>2, <2>3, <2>4 DEF TakeLock, GoodRequest, InTime
  <2>6. lock' \in [Keys -> Nat] /\ faults' \in 0..MaxFaults
    <3>1. PICK n \in Nat : n = now + LockTtl
      BY <1>1
    <3>2. lock' = lock \/ lock' = [lock EXCEPT ![req[r].key] = n]
      BY <1>8, <3>1 DEF TakeLock, Locked
    <3>3. faults' = faults \/ Fault
      BY <1>8 DEF TakeLock
    <3> QED BY <1>1, <3>2, <3>3 DEF Fault
  <2> QED BY <1>8, <2>4, <2>5, <2>6, QuietStep
          DEF TakeLock, data, invalidation
<1>9. CASE ServeStale(r)
  <2>1. PICK w \in Request : w = req[r] /\ GoodRequest(w)
    BY <1>1 DEF CacheInv
  <2>2. w.entry \in Entry /\ w.entry.storedAt \in Nat /\ w.since \in Nat
    BY DEF Request, Entry
  <2>3. w.pc = "refused" /\ now <= w.since + StoreTime
    BY <1>9, <2>1 DEF ServeStale, LockInv, Punctual, Awaiting
  <2>4. /\ req[r].entry.there
        /\ now <= req[r].entry.storedAt + Ttl + Swr + StoreTime
    BY <1>1, <2>1, <2>2, <2>3 DEF GoodRequest
  <2> QED BY <1>1, <1>9, <2>4, ServesRecord, QuietStep
          DEF ServeStale, data, invalidation
<1> QED BY <1>2, <1>3, <1>4, <1>5, <1>6, <1>7, <1>8, <1>9

LEMMA HandlerKeepsUp ==
  ASSUME LockInv, CacheInv, NEW r \in Requests,
         \/ ReadsData(r) \/ RespondAndStore(r) \/ Respond(r)
         \/ EndWithoutFinish(r)
  PROVE  CacheInv'
<1> USE CacheAssumption DEF CacheAssumption
<1>1. /\ lock \in [Keys -> Nat] /\ faults \in 0..MaxFaults /\ now \in 0..MaxTime
      /\ store \in [Keys -> Entry] /\ req \in [Requests -> Request]
      /\ version \in Versions
  BY DEF CacheInv, TypeOK
<1>2. PICK w \in Request : w = req[r]
  BY <1>1
<1>3. GoodRequest(w)
  BY <1>2 DEF CacheInv
<1>4. PICK n \in 0..MaxTime : n = now
  BY <1>1
<1>5. CASE ReadsData(r)
  <2>1. PICK v \in Versions : v = version
    BY <1>1
  <2>2. PICK u : u = [w EXCEPT !.read = TRUE, !.val = v]
    OBVIOUS
  <2>3. /\ u \in Request /\ u.pc = w.pc /\ u.since = w.since /\ u.val = v
        /\ u.key = w.key /\ u.lag = w.lag /\ u.entry = w.entry
    BY <2>2 DEF Request
  <2>4. req' = [req EXCEPT ![r] = u] /\ w.pc = "handler"
    BY <1>2, <1>5, <2>1, <2>2 DEF ReadsData
  <2>5. v <= version /\ v = version /\ ~(v < cleared[u.key])
    <3>1. u.key \in Keys
      BY <2>3 DEF Request
    <3>2. cleared[u.key] <= version /\ cleared[u.key] \in Nat /\ version \in Nat
      BY <1>1, <3>1 DEF CacheInv, TypeOK, Versions
    <3> QED BY <2>1, <3>2
  <2>6. GoodRequest(u)
    BY <1>3, <2>3, <2>4, <2>5 DEF GoodRequest, InTime
  <2> QED BY <1>1, <1>5, <2>3, <2>4, <2>6, QuietStep
          DEF ReadsData, data, invalidation
<1>6. CASE RespondAndStore(r)
  <2>1. PICK e : e = [there |-> TRUE, val |-> w.val, storedAt |-> n,
                      late |-> FALSE]
    OBVIOUS
  <2>2. /\ e \in Entry /\ e.there /\ e.val = w.val /\ e.storedAt = n
    BY <2>1 DEF Entry, Request
  <2>3. PICK u : u = [w EXCEPT !.pc = "finish", !.since = n, !.entry = e]
    OBVIOUS
  <2>4. /\ u \in Request /\ u.pc = "finish" /\ u.entry = e
        /\ u.key = w.key /\ u.late = w.late /\ u.lag = w.lag
    BY <2>2, <2>3 DEF Request
  <2>5. req' = [req EXCEPT ![r] = u] /\ w.pc = "handler" /\ w.read
    BY <1>2, <1>4, <1>6, <2>1, <2>3 DEF RespondAndStore
  <2>6. Dated(e) /\ (e.val < cleared[w.key] => w.late)
    <3>1. w.since \in Nat /\ w.val \in Versions /\ ended[w.val] \in Nat
      BY DEF Request, CacheInv, TypeOK
    <3>2. now <= w.since + HandlerTime
      BY <1>2, <2>5 DEF LockInv, Punctual
    <3>3. /\ w.val <= version
          /\ w.val # version => w.since <= ended[w.val]
          /\ w.val < cleared[w.key] => w.late
      BY <1>3, <2>5 DEF GoodRequest, InTime
    <3> QED BY <1>1, <1>4, <2>2, <3>1, <3>2, <3>3 DEF Dated
  <2>7. GoodRequest(u)
    BY <1>3, <2>4, <2>6 DEF GoodRequest, InTime
  <2> QED BY <1>1, <1>6, <2>4, <2>5, <2>7, QuietStep
          DEF RespondAndStore, data, invalidation
<1>7. CASE Respond(r) /\ req[r].refreshing
  <2>1. PICK u : u = [w EXCEPT !.pc = "finish", !.since = n]
    OBVIOUS
  <2>2. /\ u \in Request /\ u.pc = "finish" /\ u.entry = w.entry
        /\ u.key = w.key /\ u.late = w.late /\ u.lag = w.lag
    BY <2>1 DEF Request
  <2>3. req' = [req EXCEPT ![r] = u] /\ w.pc = "handler"
    BY <1>2, <1>4, <1>7, <2>1 DEF Respond
  <2>4. ~w.entry.there
    BY <1>3, <2>3 DEF GoodRequest
  <2>5. GoodRequest(u)
    BY <1>3, <2>2, <2>4 DEF GoodRequest, InTime
  <2> QED BY <1>1, <1>7, <2>2, <2>3, <2>5, QuietStep
          DEF Respond, data, invalidation
<1>8. CASE EndWithoutFinish(r) \/ (Respond(r) /\ ~req[r].refreshing)
  <2>1. /\ Done(r, 0)
        /\ UNCHANGED <<now, store, lock, data, invalidation, faults>>
    BY <1>8 DEF EndWithoutFinish, Respond
  <2> QED BY <1>1, <2>1, DoneRecord, QuietStep DEF data, invalidation
<1> QED BY <1>5, <1>6, <1>7, <1>8

\* What a response brings to the store is no older than the handler.
LEMMA FinishKeepsUp ==
  ASSUME CacheInv, NEW r \in Requests, Write(r) \/ Release(r)
  PROVE  CacheInv'
<1> USE CacheAssumption DEF CacheAssumption
<1>1. /\ lock \in [Keys -> Nat] /\ faults \in 0..MaxFaults
      /\ store \in [Keys -> Entry] /\ req \in [Requests -> Request]
  BY DEF CacheInv, TypeOK
<1>2. PICK w \in Request : w = req[r] /\ GoodRequest(w)
  BY <1>1 DEF CacheInv
<1>3. CASE Write(r)
  <2>1. w.pc = "finish" /\ w.entry.there /\ w.entry \in Entry /\ w.key \in Keys
    BY <1>2, <1>3 DEF Write, Request
  <2>2. PICK e : e = [w.entry EXCEPT !.late = w.late]
    OBVIOUS
  <2>3. /\ e \in Entry /\ e.there /\ e.val = w.entry.val /\ e.late = w.late
        /\ e.storedAt = w.entry.storedAt
    BY <2>1, <2>2 DEF Entry, Request
  <2>4. GoodEntry(w.key, e)
    BY <1>2, <2>1, <2>3 DEF GoodRequest, InTime, GoodEntry, Dated
  <2>5. store' = store \/ store' = [store EXCEPT ![w.key] = e]
    BY <1>2, <1>3, <2>2 DEF Write
  <2>6. store' \in [Keys -> Entry] /\ \A k \in Keys : GoodEntry(k, store'[k])
    BY <1>1, <2>1, <2>3, <2>4, <2>5 DEF CacheInv
  <2>7. PICK u \in Request : req' = [req EXCEPT ![r] = u] /\ GoodRequest(u)
    <3>1. CASE ~w.refreshing
      BY <1>2, <1>3, <3>1, DoneRecord DEF Write
    <3>2. CASE w.refreshing
      <4>1. NoEntry \in Entry /\ ~NoEntry.there
        BY DEF NoEntry, Entry, Versions
      <4>2. PICK u : u = [w EXCEPT !.entry = NoEntry]
        OBVIOUS
      <4>3. /\ u \in Request /\ u.pc = w.pc /\ ~u.entry.there
            /\ u.lag = w.lag
        BY <4>1, <4>2 DEF Request
      <4>4. GoodRequest(u) /\ req' = [req EXCEPT ![r] = u]
        BY <1>2, <1>3, <2>1, <3>2, <4>2, <4>3
           DEF Write, GoodRequest, InTime, Dated
      <4> QED BY <4>3, <4>4
    <3> QED BY <3>1, <3>2
  <2>8. faults' \in 0..MaxFaults
    BY <1>1, <1>3 DEF Write, Fault
  <2> QED BY <1>1, <1>3, <2>6, <2>7, <2>8, RequestStep
          DEF Write, data, invalidation
<1>4. CASE Release(r)
  <2>1. lock' \in [Keys -> Nat] /\ faults' \in 0..MaxFaults
    BY <1>1, <1>4 DEF Release, Fault
  <2>2. Done(r, 0)
    BY <1>4 DEF Release
  <2> QED BY <1>4, <2>1, <2>2, DoneRecord, QuietStep
          DEF Release, data, invalidation
<1> QED BY <1>3, <1>4

\* A change of the data ends the current version now, after all that has read
\* it or stored it.
LEMMA UpdateKeepsUp ==
  ASSUME LockInv, CacheInv, Update
  PROVE  CacheInv'
<1> USE CacheAssumption DEF CacheAssumption
<1>1. /\ version \in Versions /\ version < MaxVersion /\ version' = version + 1
      /\ ended' = [ended EXCEPT ![version] = now] /\ todo' = Keys
      /\ UNCHANGED <<now, store, lock, req, faults, cleared>>
      /\ now \in 0..MaxTime /\ ended \in [Versions -> 0..MaxTime]
  BY DEF Update, CacheInv, TypeOK
<1>2. version' \in Versions /\ version \in Nat
  BY <1>1 DEF Versions
<1>3. TypeOK'
  BY <1>1, <1>2 DEF CacheInv, TypeOK
<1>4. \A e \in Entry : Dated(e) => Dated(e)'
  BY <1>1, <1>2 DEF Dated, Entry, Versions
<1>5. \A q \in Request : q.since <= now /\ InTime(q) => InTime(q)'
  BY <1>1, <1>2 DEF InTime, Request, Versions
<1>6. \A r \in Requests : GoodRequest(req[r])'
  <2> TAKE r \in Requests
  <2>1. PICK w \in Request : w = req[r]
    BY DEF CacheInv, TypeOK
  <2>2. w.entry \in Entry
    BY DEF Request
  <2>3. w.since <= now
    BY <2>1 DEF LockInv, Punctual
  <2>4. GoodRequest(w)'
    BY <1>4, <1>5, <2>1, <2>2, <2>3 DEF CacheInv, GoodRequest
  <2> QED BY <1>1, <2>1, <2>4
<1>7. \A k \in Keys : cleared'[k] <= version' /\ GoodEntry(k, store[k])'
  <2> TAKE k \in Keys
  <2>1. PICK e \in Entry : e = store[k]
    BY DEF CacheInv, TypeOK
  <2>2. GoodEntry(k, e)'
    BY <1>1, <1>4, <2>1 DEF CacheInv, GoodEntry
  <2>3. cleared[k] <= version /\ cleared[k] \in Nat
    BY DEF CacheInv, TypeOK, Versions
  <2> QED BY <1>1, <1>2, <2>1, <2>2, <2>3
<1>8. \A v \in Versions : ended'[v] <= now'
  BY <1>1 DEF CacheInv
<1> QED BY <1>3, <1>6, <1>7, <1>8 DEF CacheInv

\* An invalidation marks the requests that will come too late.
LEMMA InvalidateKeepsUp ==
  ASSUME CacheInv, NEW k \in Keys, Invalidate(k)
  PROVE  CacheInv'
<1> USE CacheAssumption DEF CacheAssumption
<1>1. /\ todo' = todo \ {k} /\ store' = [store EXCEPT ![k] = NoEntry]
      /\ cleared' = [cleared EXCEPT ![k] = version] /\ req' = Overtaken(k)
      /\ UNCHANGED <<now, lock, version, ended, faults>>
  BY DEF Invalidate, data
<1>2. NoEntry \in Entry /\ ~NoEntry.there
  BY DEF NoEntry, Entry, Versions
<1>3. version \in Versions /\ version \in Nat
  BY DEF CacheInv, TypeOK, Versions
<1>4. \A r \in Requests :
        /\ req'[r] \in Request
        /\ req'[r].pc = req[r].pc /\ req'[r].entry = req[r].entry
        /\ req'[r].since = req[r].since /\ req'[r].read = req[r].read
        /\ req'[r].val = req[r].val /\ req'[r].key = req[r].key
        /\ req'[r].lag = req[r].lag
        /\ req[r].late => req'[r].late
        /\ req[r].pc \in {"handler", "finish"} /\ req[r].key = k =>
             req'[r].late
  <2> TAKE r \in Requests
  <2>1. PICK w \in Request : w = req[r]
    BY DEF CacheInv, TypeOK
  <2>2. PICK u : u = [w EXCEPT !.late = TRUE]
    OBVIOUS
  <2>3. u \in Request /\ u.pc = w.pc /\ u.entry = w.entry /\ u.since = w.since
        /\ u.read = w.read /\ u.val = w.val /\ u.key = w.key /\ u.lag = w.lag
        /\ u.late
    BY <2>2 DEF Request
  <2>4. req'[r] = IF w.key = k /\ w.pc \notin {"none", "done"} THEN u
                  ELSE w
    BY <1>1, <2>1, <2>2 DEF Overtaken
  <2> QED BY <2>1, <2>3, <2>4
<1>5. TypeOK'
  <2>1. req' \in [Requests -> Request]
    BY <1>1, <1>4 DEF Overtaken
  <2> QED BY <1>1, <1>2, <1>3, <2>1 DEF CacheInv, TypeOK
<1>6. \A e : Dated(e) => Dated(e)'
  BY <1>1 DEF Dated
<1>7. \A i \in Keys : cleared'[i] = IF i = k THEN version ELSE cleared[i]
  BY <1>1 DEF CacheInv, TypeOK
<1>8. \A r \in Requests : GoodRequest(req[r])'
  <2> TAKE r \in Requests
  <2>1. PICK u \in Request : u = req'[r]
    BY <1>4
  <2>2. GoodRequest(req[r]) /\ req[r].key \in Keys
    BY DEF CacheInv, TypeOK, Request
  <2>3. InTime(u)'
    BY <1>1, <1>4, <1>7, <2>1, <2>2 DEF GoodRequest, InTime
  <2>4. Dated(u.entry)'
    BY <1>4, <1>6, <2>1, <2>2 DEF GoodRequest
  <2>5. GoodRequest(u)'
    BY <1>4, <2>1, <2>2, <2>3, <2>4 DEF GoodRequest
  <2> QED BY <2>1, <2>5
<1>9. \A i \in Keys : cleared'[i] <= version' /\ GoodEntry(i, store[i])'
  <2> TAKE i \in Keys
  <2>1. PICK e : e = store'[i]
    OBVIOUS
  <2>2. CASE i = k
    <3>1. ~e.there
      BY <1>1, <1>2, <2>1, <2>2 DEF CacheInv, TypeOK
    <3>2. GoodEntry(i, e)'
      BY <3>1 DEF GoodEntry, Dated
    <3> QED BY <1>1, <1>3, <1>7, <2>1, <2>2, <3>2
  <2>3. CASE i # k
    <3>1. e = store[i] /\ cleared'[i] = cleared[i]
      BY <1>1, <1>7, <2>1, <2>3 DEF CacheInv, TypeOK
    <3>2. GoodEntry(i, e)'
      BY <1>6, <3>1 DEF CacheInv, GoodEntry
    <3> QED BY <1>1, <2>1, <3>1, <3>2 DEF CacheInv
  <2> QED BY <2>2, <2>3
<1>10. \A v \in Versions : ended'[v] <= now'
  BY <1>1 DEF CacheInv
<1> QED BY <1>5, <1>8, <1>9, <1>10 DEF CacheInv

LEMMA TickKeepsUp ==
  ASSUME CacheInv, Tick
  PROVE  CacheInv'
<1> USE CacheAssumption DEF CacheAssumption
<1>1. /\ now \in 0..MaxTime /\ now < MaxTime /\ now' = now + 1
      /\ UNCHANGED <<store, lock, req, version, ended, todo, cleared, faults>>
      /\ ended \in [Versions -> 0..MaxTime]
  BY DEF Tick, data, invalidation, CacheInv, TypeOK
<1>2. TypeOK'
  BY <1>1 DEF CacheInv, TypeOK
<1>3. \A e \in Entry : Dated(e) => Dated(e)'
  BY <1>1 DEF Dated, Entry
<1>4. \A r \in Requests : GoodRequest(req[r])'
  <2> TAKE r \in Requests
  <2>1. PICK w \in Request : w = req[r]
    BY DEF CacheInv, TypeOK
  <2>2. w.entry \in Entry /\ w.since \in Nat
    BY DEF Request
  <2>3. GoodRequest(w)
    BY <2>1 DEF CacheInv
  <2>4. InTime(w)'
    BY <1>1, <2>3 DEF GoodRequest, InTime
  <2>5. GoodRequest(w)'
    BY <1>3, <2>2, <2>3, <2>4 DEF GoodRequest
  <2> QED BY <1>1, <2>1, <2>5
<1>5. \A k \in Keys : cleared'[k] <= version' /\ GoodEntry(k, store[k])'
  <2> TAKE k \in Keys
  <2>1. PICK e \in Entry : e = store[k]
    BY DEF CacheInv, TypeOK
  <2>2. GoodEntry(k, e)'
    BY <1>1, <1>3, <2>1 DEF CacheInv, GoodEntry
  <2> QED BY <1>1, <2>1, <2>2 DEF CacheInv
<1>6. \A v \in Versions : ended'[v] <= now'
  BY <1>1 DEF CacheInv
<1> QED BY <1>2, <1>4, <1>5, <1>6 DEF CacheInv

LEMMA CacheNext == LockInv /\ CacheInv /\ [Next]_vars => CacheInv'
<1> SUFFICES ASSUME LockInv, CacheInv, [Next]_vars PROVE CacheInv'
  OBVIOUS
<1>1. CASE UNCHANGED vars
  BY <1>1 DEF vars, CacheInv, TypeOK, GoodEntry, GoodRequest, InTime, Dated
<1>2. CASE Next
  BY <1>2, HookKeepsUp, HandlerKeepsUp, FinishKeepsUp, UpdateKeepsUp, InvalidateKeepsUp,
     TickKeepsUp DEF Next
<1> QED BY <1>1, <1>2

\* Whatever overtakes what, for any lifetimes: a value that is served from the
\* cache is at most HandlerTime + Ttl + Swr + StoreTime out of date, and what
\* was there before invalidatePath() is stored again only by a request that was
\* under way at that time.
THEOREM CacheIsNeverTooStale == Spec => []CacheKeepsUp
BY LockAlways, CacheInit, CacheNext, CacheInvSafe, PTL DEF Spec

\* The entries, the claims and the requests keep their types.
THEOREM CacheTypes == Spec => []TypeOK
<1>1. CacheInv => TypeOK
  BY DEF CacheInv
<1> QED BY <1>1, LockAlways, CacheInit, CacheNext, PTL DEF Spec
=============================================================================
