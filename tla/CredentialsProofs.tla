-------------------------- MODULE CredentialsProofs --------------------------
(* What a server knows its clients by, for any number of requests, refreshes *)
(* and failures: DeadStaysDead and SessionsKept of Sessions, and RotationSafe *)
(* of RefreshTokens.                                                         *)
EXTENDS Sessions, RefreshTokens, TLAPS

\* A request whose session is not attached yet has done nothing.
Unattached(r) ==
  req[r].pc \in {"none", "expiring"} =>
    /\ req[r].hc = "idle" /\ req[r].id = 0 /\ saved[r] = 0
    /\ ~req[r].destroyed /\ ~req[r].dirty /\ ~req[r].wrote
    /\ ~req[r].cookieSet /\ ~req[r].sent
    /\ req[r].pc = "expiring" => req[r].given # 0

\* The ids of a request have been minted.
Minted(r) ==
  /\ req[r].given \in 0..minted
  /\ req[r].pc \notin {"none", "expiring"} => req[r].id \in 1..minted

\* It has something in its session that must not get lost.
Owes(r) == (req[r].wrote \/ saved[r] # 0) /\ ~req[r].destroyed

\* Its writes are in what it holds; until its end they are saved under the id
\* it holds or will be by persist(); from then on they are saved.
Saves(r) ==
  /\ Owes(r) => r \in req[r].data
  /\ Owes(r) /\ req[r].pc = "handler" /\ req[r].hc = "saving" =>
       saved[r] = req[r].id
  /\ Owes(r) /\ req[r].pc = "handler" /\ faults = 0 =>
       saved[r] = req[r].id \/ (req[r].dirty /\ ~req[r].persisted)
  /\ Owes(r) /\ req[r].pc \in {"post", "close", "done"} /\ faults = 0 =>
       saved[r] # 0 /\ (req[r].hc = "idle" => saved[r] = req[r].id)
  /\ req[r].hc = "failing" => faults # 0
  /\ req[r].hc = "destroying" => req[r].destroyed

\* The client knows the id, or nothing has to be saved under it.
Named(r) ==
  req[r].pc \notin {"none", "expiring"} /\ ~req[r].destroyed =>
    \/ req[r].id \in {req[r].given, req[r].cookie}
    \/ req[r].warned
    \/ /\ saved[r] = 0 /\ ~req[r].dirty /\ ~req[r].cookieSet
       /\ ~options.saveUninitialized

RequestInv(r) == Unattached(r) /\ Minted(r) /\ Saves(r) /\ Named(r)

\* Of the requests that can still write to a session nobody else held when it
\* was destroyed there are only those that have destroyed it themselves.
Buried ==
  \A id \in Ids : killed[id] = {} =>
    /\ id <= minted /\ ~store[id].there
    /\ \A q \in Holders(id) : req[q].destroyed

SessionInv == TypeOK /\ (\A r \in Requests : RequestInv(r)) /\ Buried

-----------------------------------------------------------------------------
\* Two sessions that differ in the cookie at most.
Alike(s, t) ==
  /\ s.pc = t.pc /\ s.hc = t.hc /\ s.awaits = t.awaits /\ s.given = t.given
  /\ s.id = t.id /\ s.data = t.data /\ s.isNew = t.isNew /\ s.dirty = t.dirty
  /\ s.touched = t.touched /\ s.destroyed = t.destroyed
  /\ s.persisted = t.persisted /\ s.sent = t.sent /\ s.wrote = t.wrote

\* setCookieNow() changes the cookie at most, and the client gets the id or
\* the warning is logged.
LEMMA WithCookieNames ==
  ASSUME NEW s \in Internal
  PROVE  /\ WithCookie(s) \in Internal
         /\ Alike(WithCookie(s), s)
         /\ WithCookie(s).cookie = s.id \/ WithCookie(s).warned
BY DEF WithCookie, Internal, Alike

LEMMA CookieOnceNames ==
  ASSUME NEW s \in Internal
  PROVE  /\ CookieOnce(s) \in Internal
         /\ Alike(CookieOnce(s), s)
         /\ \/ s.cookieSet /\ CookieOnce(s) = s
            \/ CookieOnce(s).cookie = s.id \/ CookieOnce(s).warned
BY WithCookieNames DEF CookieOnce, Alike

LEMMA RegeneratedNames ==
  ASSUME NEW s \in Internal, NEW id \in 0..MaxIds
  PROVE  LET t == Regenerated(s, id) IN
         /\ t \in Internal
         /\ Alike(t, [s EXCEPT !.id = id, !.dirty = TRUE, !.persisted = FALSE])
         /\ t.cookie = id \/ t.warned
<1> DEFINE u == [s EXCEPT !.id = id, !.dirty = TRUE, !.persisted = FALSE,
                          !.cookieSet = FALSE]
<1>1. u \in Internal
  BY DEF Internal
<1>2. Alike(u, [s EXCEPT !.id = id, !.dirty = TRUE, !.persisted = FALSE])
  BY DEF Internal, Alike
<1>3. u.id = id
  BY DEF Internal
<1>4. Regenerated(s, id) = WithCookie(u)
  BY DEF Regenerated
<1> HIDE DEF u
<1>5. /\ WithCookie(u) \in Internal
      /\ Alike(WithCookie(u), u)
      /\ WithCookie(u).cookie = id \/ WithCookie(u).warned
  BY <1>1, <1>3, WithCookieNames
<1>6. Alike(WithCookie(u),
            [s EXCEPT !.id = id, !.dirty = TRUE, !.persisted = FALSE])
  BY <1>2, <1>5 DEF Alike
<1> QED BY <1>4, <1>5, <1>6

-----------------------------------------------------------------------------
\* What a step of one request leaves alone.
OnlyTouches(r, s) ==
  /\ s \in Internal
  /\ req' = [req EXCEPT ![r] = s]
  /\ options' = options
  /\ minted' \in 0..MaxIds /\ minted <= minted'
  /\ faults' \in 0..MaxFaults /\ faults <= faults'
  /\ calls' \in 0..MaxCalls
  /\ saved' \in [Requests -> 0..MaxIds]
  /\ \A q \in Requests \ {r} : saved'[q] = saved[q]

\* The other requests keep their part of the invariant.
LEMMA OthersKeep ==
  ASSUME SessionsAssumption, SessionInv, NEW r \in Requests, NEW s,
         OnlyTouches(r, s), NEW q \in Requests \ {r}
  PROVE  RequestInv(q)'
<1>1. req'[q] = req[q] /\ saved'[q] = saved[q] /\ options' = options
  BY DEF OnlyTouches, SessionInv, TypeOK
<1>2. minted \in Nat /\ minted' \in Nat /\ minted <= minted'
  BY DEF OnlyTouches, SessionInv, TypeOK
<1>3. faults \in Nat /\ faults' \in Nat /\ (faults' = 0 => faults = 0)
  BY DEF OnlyTouches, SessionInv, TypeOK
<1>4. RequestInv(q)
  BY DEF SessionInv
<1>5. Unattached(q)'
  BY <1>1, <1>4 DEF RequestInv, Unattached
<1>6. Minted(q)'
  BY <1>1, <1>2, <1>4 DEF RequestInv, Minted
<1>7. Saves(q)'
  BY <1>1, <1>3, <1>4 DEF RequestInv, Saves, Owes
<1>8. Named(q)'
  BY <1>1, <1>4 DEF RequestInv, Named
<1> QED BY <1>5, <1>6, <1>7, <1>8 DEF RequestInv

\* It can still write to its session.
Holding(r) == req[r].pc # "done" \/ req[r].hc # "idle"

\* A request comes to hold no session that is buried: it keeps the one it
\* holds, or takes a new one or one that is stored.
Takes(r, s) ==
  \/ s.id = req[r].id /\ Holding(r) /\ (req[r].destroyed => s.destroyed)
  \/ s.id = 0 \/ s.id > minted
  \/ s.id \in Ids /\ store[s.id].there

\* What a step by which a request gets s may do to the store: nothing, save
\* the session the request holds, or destroy one that it then leaves.
Effect(r, s) ==
  \/ StoreUnchanged
  \/ \E t \in Internal :
       Set(r, t) /\ t.id = req[r].id /\ Holding(r) /\ ~req[r].destroyed
  \/ \E id \in 1..minted : Destroy(r, id) /\ (s.id # id \/ s.destroyed)

\* The store stays well-typed, and nothing that is buried comes back.
LEMMA BuriedKeeps ==
  ASSUME SessionsAssumption, SessionInv, NEW r \in Requests, NEW s,
         OnlyTouches(r, s), Takes(r, s), Effect(r, s)
  PROVE  TypeOK' /\ Buried'
<1> USE SessionsAssumption
<1>0. TypeOK /\ Buried /\ minted \in 0..MaxIds
  BY DEF SessionInv, TypeOK
<1>1. /\ s \in Internal /\ req' = [req EXCEPT ![r] = s]
      /\ req' \in [Requests -> Internal]
      /\ minted' \in 0..MaxIds /\ minted <= minted'
  BY <1>0 DEF OnlyTouches, TypeOK
<1>2. \A id \in Ids : Holders(id)' \subseteq Holders(id) \cup {r}
  BY <1>0, <1>1 DEF Holders, TypeOK
<1>3. \A q \in Requests \ {r} : req'[q] = req[q]
  BY <1>0, <1>1 DEF TypeOK
<1>4. \A id \in Ids : killed[id] = {} /\ r \in Holders(id)' => s.destroyed
  <2> SUFFICES ASSUME NEW id \in Ids, killed[id] = {}, r \in Holders(id)'
               PROVE  s.destroyed
    OBVIOUS
  <2>1. s.id = id /\ id \in Nat /\ id # 0 /\ id <= minted /\ ~store[id].there
    BY <1>0, <1>1 DEF Holders, Buried, TypeOK, Ids
  <2>2. s.id = req[r].id /\ Holding(r) /\ (req[r].destroyed => s.destroyed)
    BY <1>0, <2>1 DEF Takes
  <2>3. r \in Holders(id)
    BY <2>1, <2>2 DEF Holders, Holding
  <2> QED BY <1>0, <2>2, <2>3 DEF Buried
<1>5. CASE StoreUnchanged
  <2>1. TypeOK'
    BY <1>0, <1>1, <1>5 DEF TypeOK, OnlyTouches, StoreUnchanged
  <2>2. Buried'
    BY <1>0, <1>1, <1>2, <1>3, <1>4, <1>5 DEF Buried, StoreUnchanged, Ids
  <2> QED BY <2>1, <2>2
<1>6. ASSUME NEW t \in Internal, Set(r, t), t.id = req[r].id, Holding(r),
             ~req[r].destroyed
      PROVE  TypeOK' /\ Buried'
  <2>1. TypeOK'
    BY <1>0, <1>1, <1>6 DEF TypeOK, OnlyTouches, Set, Internal
  <2>2. \A id \in Ids : killed[id] = {} => store'[id] = store[id]
    <3> SUFFICES ASSUME NEW id \in Ids, killed[id] = {}, t.id = id
                 PROVE  FALSE
      BY <1>0, <1>6 DEF TypeOK, Set
    <3>1. r \in Holders(id)
      BY <1>6 DEF Holders, Holding
    <3> QED BY <1>0, <1>6, <3>1 DEF Buried
  <2>3. Buried'
    BY <1>0, <1>1, <1>2, <1>3, <1>4, <1>6, <2>2 DEF Buried, Set, Ids
  <2> QED BY <2>1, <2>3
<1>7. ASSUME NEW id \in 1..minted, Destroy(r, id), s.id # id \/ s.destroyed
      PROVE  TypeOK' /\ Buried'
  <2>0. id \in Ids
    BY <1>0 DEF Ids
  <2>1. TypeOK'
    BY <1>0, <1>1, <1>7, <2>0
       DEF TypeOK, OnlyTouches, Destroy, Absent, Holders
  <2>2. /\ \A i \in Ids \ {id} : killed'[i] = killed[i] /\ store'[i] = store[i]
        /\ killed'[id] = Holders(id) \ {r} /\ ~store'[id].there
    BY <1>0, <1>7, <2>0 DEF TypeOK, Destroy, Absent
  <2>3. \A q \in Holders(id)' : killed'[id] = {} => req'[q].destroyed
    <3> SUFFICES ASSUME NEW q \in Holders(id)', killed'[id] = {}
                 PROVE  req'[q].destroyed
      OBVIOUS
    <3>1. q = r /\ q \in Requests
      BY <1>2, <2>0, <2>2 DEF Holders
    <3>2. req'[q] = s /\ s.id = id
      BY <1>0, <1>1, <3>1 DEF Holders, TypeOK
    <3> QED BY <1>7, <3>2
  <2>4. \A i \in Ids \ {id} : killed[i] = {} =>
          \A q \in Holders(i)' : req'[q].destroyed
    BY <1>0, <1>1, <1>2, <1>3, <1>4 DEF Buried, Holders, TypeOK
  <2>5. Buried'
    BY <1>0, <1>1, <2>0, <2>2, <2>3, <2>4 DEF Buried, Ids
  <2> QED BY <2>1, <2>5
<1> QED BY <1>5, <1>6, <1>7 DEF Effect

\* One step of one request: what has to be shown of it.
LEMMA StepKeeps ==
  ASSUME SessionsAssumption, SessionInv, NEW r \in Requests, NEW s,
         OnlyTouches(r, s), Takes(r, s), Effect(r, s), RequestInv(r)'
  PROVE  SessionInv'
<1>1. \A q \in Requests : RequestInv(q)'
  BY OthersKeep
<1> QED BY <1>1, BuriedKeeps DEF SessionInv

-----------------------------------------------------------------------------
(* The hook onRequest.                                                       *)

\* The client gets the id of a new session at once when it is to be saved
\* whatever happens.
LEMMA AttachedNames ==
  ASSUME NEW s \in Internal, NEW id \in 0..MaxIds, NEW isNew \in BOOLEAN,
         NEW data \in SUBSET Requests
  PROVE  LET u == Attached(s, id, isNew, data) IN
         /\ u \in Internal
         /\ u.pc = "handler" /\ u.hc = "run" /\ u.id = id
         /\ u.given = s.given /\ u.dirty = s.dirty /\ u.wrote = s.wrote
         /\ u.destroyed = s.destroyed
         /\ \/ u.cookie = id \/ u.warned
            \/ ~isNew
            \/ ~options.saveUninitialized /\ u.cookieSet = s.cookieSet
<1> DEFINE t == [s EXCEPT !.pc = "handler", !.hc = "run", !.id = id,
                          !.isNew = isNew, !.data = data]
<1>1. /\ t \in Internal
      /\ t.pc = "handler" /\ t.hc = "run" /\ t.id = id
      /\ t.given = s.given /\ t.dirty = s.dirty /\ t.wrote = s.wrote
      /\ t.destroyed = s.destroyed /\ t.cookieSet = s.cookieSet
  BY DEF Internal
<1>2. Attached(s, id, isNew, data) =
        IF (isNew /\ options.saveUninitialized) \/ (~isNew /\ options.rolling)
        THEN WithCookie(t) ELSE t
  BY DEF Attached
<1> HIDE DEF t
<1>3. /\ WithCookie(t) \in Internal
      /\ Alike(WithCookie(t), t)
      /\ WithCookie(t).cookie = id \/ WithCookie(t).warned
  BY <1>1, WithCookieNames
<1> QED BY <1>1, <1>2, <1>3 DEF Alike

\* A request that takes a session keeps its part of the invariant.
LEMMA AttachingKeeps ==
  ASSUME SessionsAssumption, SessionInv, NEW r \in Requests,
         req[r].pc \in {"none", "expiring"},
         NEW s \in Internal, NEW id \in Ids, NEW isNew \in BOOLEAN,
         NEW data \in SUBSET Requests,
         s.dirty = req[r].dirty, s.wrote = req[r].wrote,
         s.destroyed = req[r].destroyed, s.cookieSet = req[r].cookieSet,
         s.given \in 0..minted,
         \/ isNew /\ id = minted + 1 /\ minted' = minted + 1
         \/ ~isNew /\ id = s.given /\ minted' = minted /\ store[id].there,
         req' = [req EXCEPT ![r] = Attached(s, id, isNew, data)],
         saved' = saved, options' = options, faults' = faults, calls' = calls
  PROVE  LET u == Attached(s, id, isNew, data) IN
         OnlyTouches(r, u) /\ Takes(r, u) /\ RequestInv(r)' /\ u.id = id
<1> USE SessionsAssumption
<1> DEFINE u == Attached(s, id, isNew, data)
<1>1. /\ req[r] \in Internal /\ minted \in Nat
      /\ req[r].hc = "idle" /\ saved[r] = 0 /\ ~req[r].destroyed
      /\ ~req[r].dirty /\ ~req[r].wrote /\ ~req[r].cookieSet
  BY DEF SessionInv, TypeOK, RequestInv, Unattached
<1>2. ~s.dirty /\ ~s.wrote /\ ~s.destroyed
  BY <1>1
<1>3. /\ u \in Internal
      /\ u.pc = "handler" /\ u.hc = "run" /\ u.id = id
      /\ u.given = s.given /\ ~u.dirty /\ ~u.wrote /\ ~u.destroyed
      /\ \/ u.cookie = id \/ u.warned
         \/ ~isNew
         \/ ~options.saveUninitialized /\ ~u.cookieSet
  BY <1>1, <1>2, AttachedNames DEF Ids
<1> HIDE DEF u
<1>4. id \in 1..minted' /\ minted' \in 0..MaxIds /\ minted <= minted'
  BY <1>1 DEF Ids, SessionInv, TypeOK
<1>5. req'[r] = u /\ req' = [req EXCEPT ![r] = u]
  BY DEF SessionInv, TypeOK, u
<1>6. OnlyTouches(r, u)
  BY <1>3, <1>4, <1>5 DEF OnlyTouches, SessionInv, TypeOK
<1>7. Takes(r, u)
  BY <1>1, <1>3, <1>4 DEF Takes
<1>8. RequestInv(r)'
  <2>1. Unattached(r)'
    BY <1>3, <1>5 DEF Unattached
  <2>2. Minted(r)'
    BY <1>1, <1>3, <1>4, <1>5 DEF Minted
  <2>3. Saves(r)'
    BY <1>1, <1>3, <1>5 DEF Saves, Owes
  <2>4. Named(r)'
    BY <1>1, <1>3, <1>5 DEF Named
  <2> QED BY <2>1, <2>2, <2>3, <2>4 DEF RequestInv
<1> QED BY <1>3, <1>6, <1>7, <1>8 DEF u

LEMMA AttachKeeps ==
  ASSUME SessionsAssumption, SessionInv, NEW r \in Requests,
         NEW asked \in 0..minted, Attach(r, asked)
  PROVE  SessionInv'
<1> USE SessionsAssumption
<1> DEFINE s == [req[r] EXCEPT !.given = asked]
<1>1. /\ req \in [Requests -> Internal] /\ req[r] \in Internal
      /\ minted \in 0..MaxIds /\ RequestInv(r) /\ req[r].pc = "none"
  BY DEF SessionInv, TypeOK, Attach
<1>2. /\ s \in Internal /\ s.given = asked
      /\ Alike(s, [req[r] EXCEPT !.given = asked])
      /\ s.dirty = req[r].dirty /\ s.wrote = req[r].wrote
      /\ s.destroyed = req[r].destroyed /\ s.cookieSet = req[r].cookieSet
  BY <1>1 DEF Internal, Alike
<1> HIDE DEF s
<1>3. /\ UNCHANGED <<options, calls, faults>> /\ StoreUnchanged
      /\ saved' = saved
  BY DEF Attach, StoreUnchanged
<1>4. CASE asked = 0 \/ ~store[asked].there
  <2>1. /\ minted < MaxIds /\ minted' = minted + 1
        /\ req' = [req EXCEPT ![r] = Attached(s, minted + 1, TRUE, {})]
    BY <1>4 DEF Attach, Fresh, s
  <2> PICK id \in Ids : id = minted + 1
    BY <1>1, <2>1 DEF Ids
  <2>2. TRUE \in BOOLEAN /\ {} \in SUBSET Requests
    OBVIOUS
  <2>3. LET u == Attached(s, id, TRUE, {}) IN
        OnlyTouches(r, u) /\ Takes(r, u) /\ RequestInv(r)'
    BY <1>1, <1>2, <1>3, <2>1, <2>2, AttachingKeeps
  <2>4. Effect(r, Attached(s, id, TRUE, {}))
    BY <1>3 DEF Effect
  <2> QED BY <2>3, <2>4, StepKeeps
<1>5. CASE asked # 0 /\ store[asked].there /\ ~store[asked].old
  <2>1. /\ minted' = minted
        /\ req' = [req EXCEPT ![r] =
                     Attached(s, asked, FALSE, store[asked].data)]
    BY <1>5 DEF Attach, s
  <2>2. asked \in Ids /\ store[asked].data \in SUBSET Requests
    BY <1>1, <1>5 DEF Ids, SessionInv, TypeOK
  <2>3. LET u == Attached(s, asked, FALSE, store[asked].data) IN
        OnlyTouches(r, u) /\ Takes(r, u) /\ RequestInv(r)'
    BY <1>1, <1>2, <1>3, <1>5, <2>1, <2>2, AttachingKeeps
  <2>4. Effect(r, Attached(s, asked, FALSE, store[asked].data))
    BY <1>3 DEF Effect
  <2> QED BY <2>3, <2>4, StepKeeps
<1>6. CASE asked # 0 /\ store[asked].there /\ store[asked].old
  <2> DEFINE u == [s EXCEPT !.pc = "expiring"]
  <2>1. req' = [req EXCEPT ![r] = u] /\ minted' = minted
    BY <1>6 DEF Attach, s
  <2>2. /\ u \in Internal /\ u.pc = "expiring" /\ u.given = asked
        /\ u.hc = req[r].hc /\ u.id = req[r].id /\ u.data = req[r].data
        /\ u.dirty = req[r].dirty /\ u.destroyed = req[r].destroyed
        /\ u.wrote = req[r].wrote /\ u.cookieSet = req[r].cookieSet
        /\ u.sent = req[r].sent
    BY <1>1, <1>2 DEF Internal, Alike
  <2> HIDE DEF u
  <2>3. req'[r] = u
    BY <1>1, <2>1
  <2>4. OnlyTouches(r, u) /\ Effect(r, u)
    BY <1>1, <1>3, <2>1, <2>2 DEF OnlyTouches, Effect, SessionInv, TypeOK
  <2>5. Takes(r, u)
    BY <1>1, <2>2 DEF Takes, Holding
  <2>6. RequestInv(r)'
    BY <1>1, <1>3, <1>6, <2>1, <2>2, <2>3
       DEF RequestInv, Unattached, Minted, Saves, Owes, Named
  <2> QED BY <2>1, <2>4, <2>5, <2>6, StepKeeps
<1> QED BY <1>4, <1>5, <1>6

LEMMA ExpireKeeps ==
  ASSUME SessionsAssumption, SessionInv, NEW r \in Requests, Expire(r)
  PROVE  SessionInv'
<1> USE SessionsAssumption
<1>1. /\ req \in [Requests -> Internal] /\ req[r] \in Internal
      /\ minted \in 0..MaxIds /\ RequestInv(r)
      /\ req[r].pc = "expiring" /\ req[r].given \in 1..minted
  BY DEF SessionInv, TypeOK, Expire, RequestInv, Unattached, Minted
<1>2. /\ minted < MaxIds /\ minted' = minted + 1
      /\ req' = [req EXCEPT ![r] = Attached(req[r], minted + 1, TRUE, {})]
      /\ options' = options /\ calls' = calls /\ faults' = faults
      /\ saved' = saved /\ Destroy(r, req[r].given)
  BY DEF Expire, Fresh, Destroy
<1> PICK id \in Ids : id = minted + 1
  BY <1>1, <1>2 DEF Ids
<1> PICK s \in Internal : s = req[r]
  BY <1>1
<1> DEFINE u == Attached(s, id, TRUE, {})
<1>3. TRUE \in BOOLEAN /\ {} \in SUBSET Requests
  OBVIOUS
<1>4. /\ s.dirty = req[r].dirty /\ s.wrote = req[r].wrote
      /\ s.destroyed = req[r].destroyed /\ s.given \in 0..minted
  BY <1>1
<1>5. /\ req[r].pc \in {"none", "expiring"}
      /\ s.cookieSet = req[r].cookieSet /\ id = minted + 1
      /\ req' = [req EXCEPT ![r] = Attached(s, id, TRUE, {})]
      /\ minted' = minted + 1 /\ saved' = saved /\ options' = options
      /\ faults' = faults /\ calls' = calls
  BY <1>1, <1>2
<1>6. OnlyTouches(r, u) /\ Takes(r, u) /\ RequestInv(r)' /\ u.id = minted + 1
  BY <1>3, <1>4, <1>5, AttachingKeeps
<1> HIDE DEF u
<1>7. Effect(r, u)
  BY <1>1, <1>2, <1>6 DEF Effect
<1> QED BY <1>6, <1>7, StepKeeps

-----------------------------------------------------------------------------
(* The handler.                                                              *)

\* What is known of a request whose handler acts.
Acts(r) ==
  /\ req \in [Requests -> Internal] /\ req[r] \in Internal
  /\ req[r].hc = "run" /\ ~req[r].destroyed /\ Holding(r)
  /\ req[r].pc \in {"handler", "post", "close", "done"}
  /\ req[r].id \in 1..minted /\ req[r].id \in Ids /\ req[r].id # 0
  /\ req[r].given \in 0..minted
  /\ minted \in 0..MaxIds /\ faults \in 0..MaxFaults
  /\ saved \in [Requests -> 0..MaxIds]
  /\ Saves(r) /\ Named(r) /\ SessionsAssumption

LEMMA Acting ==
  ASSUME SessionInv, NEW r \in Requests, NEW s, Handler(r, s)
  PROVE  /\ Acts(r)
         /\ req' = [req EXCEPT ![r] = s] /\ req'[r] = s
         /\ options' = options /\ calls' \in 0..MaxCalls
BY SessionsAssumption
   DEF SessionInv, TypeOK, Handler, RequestInv, Unattached, Minted, Holding,
       Internal, Ids, Acts

\* A call that sees to the cookie leaves the session named.
LEMMA CookieOnceKeeps ==
  ASSUME SessionInv, NEW r \in Requests, Named(r),
         req[r].pc \notin {"none", "expiring"}, ~req[r].destroyed,
         NEW s \in Internal, s.id = req[r].id, s.given = req[r].given,
         s.cookie = req[r].cookie, s.warned = req[r].warned,
         s.cookieSet = req[r].cookieSet
  PROVE  LET u == CookieOnce(s) IN
         u.id \in {u.given, u.cookie} \/ u.warned
<1> DEFINE u == CookieOnce(s)
<1>1. /\ u.id = s.id /\ u.given = s.given
      /\ (s.cookieSet /\ u = s) \/ u.cookie = s.id \/ u.warned
  BY CookieOnceNames DEF Alike
<1> HIDE DEF u
<1>2. u.id \in {u.given, u.cookie} \/ u.warned
  BY <1>1 DEF Named
<1> QED BY <1>2 DEF u

LEMMA WriteKeeps ==
  ASSUME SessionInv, NEW r \in Requests, Write(r)
  PROVE  SessionInv'
<1> DEFINE v == [req[r] EXCEPT !.data = @ \cup {r},
                               !.wrote = @ \/ req[r].pc = "handler"]
           s == [v EXCEPT !.dirty = TRUE, !.persisted = FALSE]
           u == CookieOnce(s)
<1>1. /\ Handler(r, u) /\ UNCHANGED <<minted, faults>> /\ StoreUnchanged
      /\ saved' = saved
  BY DEF Write, MarkDirty, StoreUnchanged
<1>a. /\ Acts(r) /\ req' = [req EXCEPT ![r] = u] /\ req'[r] = u
      /\ options' = options /\ calls' \in 0..MaxCalls
  BY <1>1, Acting
<1>b. /\ v \in Internal
      /\ v.pc = req[r].pc /\ v.hc = "run" /\ v.id = req[r].id
      /\ v.given = req[r].given /\ v.data = req[r].data \cup {r}
      /\ v.wrote => req[r].wrote \/ req[r].pc = "handler"
      /\ v.cookie = req[r].cookie /\ v.warned = req[r].warned
      /\ v.cookieSet = req[r].cookieSet /\ ~v.destroyed
  <2>1. req[r].data \cup {r} \in SUBSET Requests
    BY <1>a DEF Internal, Acts
  <2>2. (req[r].wrote \/ req[r].pc = "handler") \in BOOLEAN
    OBVIOUS
  <2> QED BY <1>a, <2>1, <2>2 DEF Internal, Acts
<1> HIDE DEF v
<1>2. /\ s \in Internal
      /\ s.pc = req[r].pc /\ s.hc = "run" /\ s.id = req[r].id
      /\ s.given = req[r].given /\ s.data = req[r].data \cup {r}
      /\ s.dirty /\ ~s.persisted /\ ~s.destroyed
      /\ s.wrote => req[r].wrote \/ req[r].pc = "handler"
      /\ s.cookie = req[r].cookie /\ s.warned = req[r].warned
      /\ s.cookieSet = req[r].cookieSet
  BY <1>a, <1>b DEF Internal, Acts
<1> HIDE DEF s
<1>3. u \in Internal /\ Alike(u, s)
  BY <1>2, CookieOnceNames
<1>4. u.id \in {u.given, u.cookie} \/ u.warned
  BY <1>a, <1>2, CookieOnceKeeps DEF Acts
<1> HIDE DEF u
<1>5. OnlyTouches(r, u) /\ Takes(r, u) /\ Effect(r, u)
  BY <1>1, <1>2, <1>3, <1>a DEF Acts, OnlyTouches, Takes, Effect, Alike
<1>6. Unattached(r)' /\ Minted(r)'
  BY <1>1, <1>2, <1>3, <1>a DEF Acts, Unattached, Minted, Alike
<1>7. Saves(r)'
  BY <1>1, <1>2, <1>3, <1>a DEF Acts, Saves, Owes, Alike
<1>8. Named(r)'
  BY <1>1, <1>4, <1>a DEF Acts, Named
<1> QED BY <1>a, <1>5, <1>6, <1>7, <1>8, StepKeeps DEF Acts, RequestInv

LEMMA TouchKeeps ==
  ASSUME SessionInv, NEW r \in Requests, Touch(r)
  PROVE  SessionInv'
<1> DEFINE s == [req[r] EXCEPT !.touched = TRUE, !.persisted = FALSE]
           u == CookieOnce(s)
<1>1. /\ Handler(r, u) /\ UNCHANGED <<minted, faults>> /\ StoreUnchanged
      /\ saved' = saved
  BY DEF Touch, StoreUnchanged
<1>a. /\ Acts(r) /\ req' = [req EXCEPT ![r] = u] /\ req'[r] = u
      /\ options' = options /\ calls' \in 0..MaxCalls
  BY <1>1, Acting
<1>2. /\ s \in Internal
      /\ s.pc = req[r].pc /\ s.hc = "run" /\ s.id = req[r].id
      /\ s.given = req[r].given /\ s.data = req[r].data
      /\ s.dirty = req[r].dirty /\ ~s.persisted /\ ~s.destroyed
      /\ s.wrote = req[r].wrote
      /\ s.cookie = req[r].cookie /\ s.warned = req[r].warned
      /\ s.cookieSet = req[r].cookieSet
  BY <1>a DEF Internal, Acts
<1> HIDE DEF s
<1>3. u \in Internal /\ Alike(u, s)
  BY <1>2, CookieOnceNames
<1>4. u.id \in {u.given, u.cookie} \/ u.warned
  BY <1>a, <1>2, CookieOnceKeeps DEF Acts
<1> HIDE DEF u
<1>5. OnlyTouches(r, u) /\ Takes(r, u) /\ Effect(r, u)
  BY <1>1, <1>2, <1>3, <1>a DEF Acts, OnlyTouches, Takes, Effect, Alike
<1>6. Unattached(r)' /\ Minted(r)'
  BY <1>1, <1>2, <1>3, <1>a DEF Acts, Unattached, Minted, Alike
<1>7. Saves(r)'
  BY <1>1, <1>2, <1>3, <1>a DEF Acts, Saves, Owes, Alike
<1>8. Named(r)'
  BY <1>1, <1>4, <1>a DEF Acts, Named
<1> QED BY <1>a, <1>5, <1>6, <1>7, <1>8, StepKeeps DEF Acts, RequestInv

\* A call of the store that the handler makes: it acts as it should, or fails.
LEMMA Calling ==
  ASSUME SessionInv, NEW r \in Requests, NEW s \in Internal, NEW phase,
         NEW effect \in BOOLEAN, Calls(r, s, phase, effect)
  PROVE  \E u : /\ Acts(r) /\ req' = [req EXCEPT ![r] = u] /\ req'[r] = u
                /\ options' = options /\ calls' \in 0..MaxCalls
                /\ \/ u = [s EXCEPT !.hc = phase] /\ effect /\ faults' = faults
                   \/ /\ u = [s EXCEPT !.hc = "failing"] /\ StoreUnchanged
                      /\ faults' \in 1..MaxFaults /\ faults <= faults'
<1>1. CASE Handler(r, [s EXCEPT !.hc = phase]) /\ effect /\ UNCHANGED faults
  BY <1>1, Acting
<1>2. CASE Handler(r, [s EXCEPT !.hc = "failing"]) /\ StoreUnchanged /\ Fault
  <2>1. Acts(r) /\ faults' = faults + 1 /\ faults < MaxFaults
    BY <1>2, Acting DEF Fault
  <2>2. faults' \in 1..MaxFaults /\ faults <= faults'
    BY <2>1 DEF Acts
  <2> QED BY <1>2, <2>2, Acting
<1> QED BY <1>1, <1>2 DEF Calls

LEMMA SaveKeeps ==
  ASSUME SessionInv, NEW r \in Requests, Save(r)
  PROVE  SessionInv'
<1> DEFINE s == CookieOnce(req[r])
<1>1. Calls(r, s, "saving", Set(r, req[r])) /\ minted' = minted
  BY DEF Save
<1>2. req[r] \in Internal
  BY DEF SessionInv, TypeOK
<1>3. s \in Internal /\ Alike(s, req[r])
  BY <1>2, CookieOnceNames
<1>4. PICK u : /\ Acts(r) /\ req' = [req EXCEPT ![r] = u] /\ req'[r] = u
               /\ options' = options /\ calls' \in 0..MaxCalls
               /\ \/ /\ u = [s EXCEPT !.hc = "saving"] /\ Set(r, req[r])
                     /\ faults' = faults
                  \/ /\ u = [s EXCEPT !.hc = "failing"] /\ StoreUnchanged
                     /\ faults' \in 1..MaxFaults /\ faults <= faults'
  <2> HIDE DEF s
  <2> DEFINE e == Set(r, req[r])
  <2>1. e \in BOOLEAN
    BY DEF Set
  <2> HIDE DEF e
  <2>2. Calls(r, s, "saving", e)
    BY <1>1 DEF e
  <2> QED BY <1>3, <2>1, <2>2, Calling DEF e
<1>5. s.id \in {s.given, s.cookie} \/ s.warned
  BY <1>2, <1>4, CookieOnceKeeps DEF Acts
<1> HIDE DEF s
<1>6. /\ u \in Internal /\ u.pc = req[r].pc /\ u.id = req[r].id
      /\ u.given = req[r].given /\ u.data = req[r].data
      /\ u.dirty = req[r].dirty /\ u.persisted = req[r].persisted
      /\ u.wrote = req[r].wrote /\ ~u.destroyed
      /\ u.id \in {u.given, u.cookie} \/ u.warned
      /\ u.hc \in {"saving", "failing"}
  BY <1>3, <1>4, <1>5 DEF Internal, Alike, Acts
<1>7. OnlyTouches(r, u) /\ Takes(r, u) /\ Effect(r, u)
  <2>1. CASE faults' = faults /\ Set(r, req[r])
    <3>1. saved' = [saved EXCEPT ![r] =
                      IF r \in req[r].data THEN req[r].id ELSE @]
      BY <2>1 DEF Set
    <3>2. saved' \in [Requests -> 0..MaxIds]
      BY <3>1, <1>4 DEF Acts, Ids
    <3> QED BY <1>1, <1>2, <1>4, <1>6, <2>1, <3>1, <3>2
            DEF OnlyTouches, Takes, Effect, Acts
  <2>2. CASE StoreUnchanged /\ faults' \in 1..MaxFaults /\ faults <= faults'
    BY <1>1, <1>4, <1>6, <2>2
       DEF OnlyTouches, Takes, Effect, StoreUnchanged, Acts
  <2> QED BY <1>4, <2>1, <2>2
<1>8. Unattached(r)' /\ Minted(r)'
  BY <1>1, <1>4, <1>6 DEF Unattached, Minted, Acts
<1>9. Saves(r)'
  <2>1. CASE /\ u = [s EXCEPT !.hc = "saving"]
             /\ faults' = faults /\ Set(r, req[r])
    <3>1. saved'[r] = IF r \in req[r].data THEN req[r].id ELSE saved[r]
      BY <1>4, <2>1 DEF Set, Acts
    <3>2. u.hc = "saving"
      BY <1>3, <2>1 DEF Internal
    <3> QED BY <1>4, <1>6, <2>1, <3>1, <3>2 DEF Saves, Owes, Acts
  <2>2. CASE /\ u = [s EXCEPT !.hc = "failing"] /\ StoreUnchanged
             /\ faults' \in 1..MaxFaults
    <3>1. u.hc = "failing"
      BY <1>3, <2>2 DEF Internal
    <3> QED BY <1>4, <1>6, <2>2, <3>1 DEF Saves, Owes, StoreUnchanged, Acts
  <2> QED BY <1>4, <2>1, <2>2
<1>10. Named(r)'
  BY <1>4, <1>6 DEF Named
<1> QED BY <1>4, <1>7, <1>8, <1>9, <1>10, StepKeeps DEF RequestInv, Acts

LEMMA DestroySessionKeeps ==
  ASSUME SessionInv, NEW r \in Requests, DestroySession(r)
  PROVE  SessionInv'
<1> DEFINE s == [req[r] EXCEPT !.destroyed = TRUE, !.data = {}]
<1>1. Calls(r, s, "destroying", Destroy(r, req[r].id)) /\ minted' = minted
  BY DEF DestroySession
<1>2. req[r] \in Internal
  BY DEF SessionInv, TypeOK
<1>3. /\ s \in Internal /\ s.pc = req[r].pc /\ s.id = req[r].id
      /\ s.given = req[r].given /\ s.destroyed
  BY <1>2 DEF Internal
<1> HIDE DEF s
<1>4. PICK u : /\ Acts(r) /\ req' = [req EXCEPT ![r] = u] /\ req'[r] = u
               /\ options' = options /\ calls' \in 0..MaxCalls
               /\ \/ /\ u = [s EXCEPT !.hc = "destroying"]
                     /\ Destroy(r, req[r].id) /\ faults' = faults
                  \/ /\ u = [s EXCEPT !.hc = "failing"] /\ StoreUnchanged
                     /\ faults' \in 1..MaxFaults /\ faults <= faults'
  <2> DEFINE e == Destroy(r, req[r].id)
  <2>1. e \in BOOLEAN
    BY DEF Destroy
  <2> HIDE DEF e
  <2>2. Calls(r, s, "destroying", e)
    BY <1>1 DEF e
  <2> QED BY <1>3, <2>1, <2>2, Calling DEF e
<1>5. /\ u \in Internal /\ u.pc = req[r].pc /\ u.id = req[r].id
      /\ u.given = req[r].given /\ u.destroyed
      /\ u.hc = "failing" => faults' # 0
  BY <1>3, <1>4 DEF Internal
<1>6. saved' = saved
  BY <1>4 DEF StoreUnchanged, Destroy
<1>7. OnlyTouches(r, u) /\ Takes(r, u) /\ Effect(r, u)
  BY <1>1, <1>4, <1>5, <1>6 DEF OnlyTouches, Takes, Effect, Acts
<1>8. Unattached(r)' /\ Minted(r)' /\ Named(r)'
  BY <1>1, <1>4, <1>5 DEF Unattached, Minted, Named, Acts
<1>9. Saves(r)'
  BY <1>4, <1>5 DEF Saves, Owes, Acts
<1> QED BY <1>4, <1>7, <1>8, <1>9, StepKeeps DEF RequestInv, Acts

\* The id a session leaves behind when it is regenerated is destroyed, or was
\* never stored; its writes go with it, to be saved under the new one.
LEMMA RegenerateKeeps ==
  ASSUME SessionInv, NEW r \in Requests, Regenerate(r)
  PROVE  SessionInv'
<1> DEFINE s == Regenerated(req[r], minted + 1)
<1>1. minted < MaxIds /\ minted' = minted + 1
  BY DEF Regenerate
<1>2. req[r] \in Internal /\ minted \in 0..MaxIds /\ SessionsAssumption
  BY SessionsAssumption DEF SessionInv, TypeOK
<1>3. PICK id \in 0..MaxIds : id = minted + 1
  BY <1>1, <1>2 DEF SessionsAssumption
<1>4. PICK w \in Internal : w = req[r]
  BY <1>2
<1>5. /\ s \in Internal /\ s.pc = w.pc /\ s.hc = w.hc /\ s.id = id
      /\ s.given = w.given /\ s.data = w.data /\ s.dirty /\ ~s.persisted
      /\ s.wrote = w.wrote /\ s.destroyed = w.destroyed
      /\ s.cookie = id \/ s.warned
  <2> DEFINE t == [w EXCEPT !.id = id, !.dirty = TRUE, !.persisted = FALSE]
  <2>1. /\ t.pc = w.pc /\ t.hc = w.hc /\ t.id = id
        /\ t.given = w.given /\ t.data = w.data /\ t.dirty /\ ~t.persisted
        /\ t.wrote = w.wrote /\ t.destroyed = w.destroyed
    BY DEF Internal
  <2>2. /\ Regenerated(w, id) \in Internal
        /\ Alike(Regenerated(w, id), t)
        /\ Regenerated(w, id).cookie = id \/ Regenerated(w, id).warned
    BY RegeneratedNames
  <2> HIDE DEF t
  <2> QED BY <1>3, <1>4, <2>1, <2>2 DEF Alike
<1>6. \/ Handler(r, s) /\ StoreUnchanged /\ UNCHANGED faults
      \/ Calls(r, s, "regenerating", Destroy(r, req[r].id))
  BY DEF Regenerate
<1> HIDE DEF s
<1>7. PICK u : /\ Acts(r) /\ req' = [req EXCEPT ![r] = u] /\ req'[r] = u
               /\ options' = options /\ calls' \in 0..MaxCalls
               /\ \/ u = s /\ StoreUnchanged /\ faults' = faults
                  \/ /\ u = [s EXCEPT !.hc = "regenerating"]
                     /\ Destroy(r, req[r].id) /\ faults' = faults
                  \/ /\ u = [s EXCEPT !.hc = "failing"] /\ StoreUnchanged
                     /\ faults' \in 1..MaxFaults /\ faults <= faults'
  <2>1. CASE Handler(r, s) /\ StoreUnchanged /\ UNCHANGED faults
    BY <2>1, Acting
  <2>2. CASE Calls(r, s, "regenerating", Destroy(r, req[r].id))
    <3> DEFINE e == Destroy(r, req[r].id)
    <3>1. e \in BOOLEAN
      BY DEF Destroy
    <3> HIDE DEF e
    <3>2. Calls(r, s, "regenerating", e)
      BY <2>2 DEF e
    <3> QED BY <1>5, <3>1, <3>2, Calling DEF e
  <2> QED BY <1>6, <2>1, <2>2
<1>8. /\ u \in Internal /\ u.pc = req[r].pc /\ u.id = minted + 1
      /\ u.given = req[r].given /\ u.data = req[r].data
      /\ u.dirty /\ ~u.persisted /\ u.wrote = req[r].wrote /\ ~u.destroyed
      /\ u.cookie = u.id \/ u.warned
      /\ u.hc \in {"run", "regenerating", "failing"}
      /\ u.hc = "failing" => faults' # 0
  BY <1>3, <1>4, <1>5, <1>7 DEF Internal, Acts
<1>9. saved' = saved
  BY <1>7 DEF StoreUnchanged, Destroy
<1>10. OnlyTouches(r, u)
  BY <1>1, <1>2, <1>7, <1>8, <1>9 DEF OnlyTouches, Acts, SessionsAssumption
<1>11. Takes(r, u) /\ Effect(r, u)
  BY <1>2, <1>7, <1>8 DEF Takes, Effect, Acts
<1>12. Unattached(r)' /\ Minted(r)' /\ Named(r)'
  BY <1>1, <1>7, <1>8 DEF Unattached, Minted, Named, Acts
<1>13. Saves(r)'
  BY <1>7, <1>8, <1>9 DEF Saves, Owes, Acts
<1> QED BY <1>7, <1>10, <1>11, <1>12, <1>13, StepKeeps DEF RequestInv, Acts

\* The answer to saveNow() makes its session clean: what it holds is saved.
LEMMA AnsweredKeeps ==
  ASSUME SessionInv, NEW r \in Requests, Answered(r)
  PROVE  SessionInv'
<1>1. PICK w \in Internal : w = req[r]
  BY DEF SessionInv, TypeOK
<1> DEFINE saving == [w EXCEPT !.hc = "run", !.dirty = FALSE,
                               !.touched = FALSE, !.persisted = TRUE,
                               !.isNew = FALSE]
           destroying == [w EXCEPT !.hc = "run",
                                   !.cookie = IF w.sent THEN @ ELSE 0]
           other == [w EXCEPT !.hc = "run"]
<1>2. /\ w.hc \in {"saving", "destroying", "regenerating"}
      /\ UNCHANGED <<options, minted, calls, faults>> /\ StoreUnchanged
      /\ saved' = saved
  BY <1>1 DEF Answered, StoreUnchanged
<1>3. \/ w.hc = "saving" /\ req' = [req EXCEPT ![r] = saving]
      \/ w.hc = "destroying" /\ req' = [req EXCEPT ![r] = destroying]
      \/ w.hc = "regenerating" /\ req' = [req EXCEPT ![r] = other]
  BY <1>1, <1>2 DEF Answered
<1> DEFINE Freed(u) ==
      /\ u \in Internal
      /\ u.pc = w.pc /\ u.hc = "run" /\ u.id = w.id /\ u.given = w.given
      /\ u.data = w.data /\ u.wrote = w.wrote /\ u.destroyed = w.destroyed
      /\ u.warned = w.warned /\ u.cookieSet = w.cookieSet
<1>4. PICK u :
        /\ req' = [req EXCEPT ![r] = u]
        /\ Freed(u)
        /\ u.cookie = w.cookie \/ w.hc = "destroying"
        /\ w.hc = "saving" => ~u.dirty /\ u.persisted
        /\ w.hc # "saving" => u.dirty = w.dirty /\ u.persisted = w.persisted
  <2>1. /\ Freed(saving) /\ saving.cookie = w.cookie
        /\ ~saving.dirty /\ saving.persisted
    BY DEF Internal
  <2>2. /\ Freed(destroying)
        /\ destroying.dirty = w.dirty /\ destroying.persisted = w.persisted
    <3>1. (IF w.sent THEN w.cookie ELSE 0) \in 0..MaxIds
      BY SessionsAssumption DEF Internal, SessionsAssumption
    <3>2. PICK c \in 0..MaxIds : c = IF w.sent THEN w.cookie ELSE 0
      BY <3>1
    <3>3. destroying = [w EXCEPT !.hc = "run", !.cookie = c]
      BY <3>2
    <3> QED BY <3>3 DEF Internal
  <2>3. /\ Freed(other) /\ other.cookie = w.cookie
        /\ other.dirty = w.dirty /\ other.persisted = w.persisted
    BY DEF Internal
  <2> HIDE DEF saving, destroying, other, Freed
  <2> QED BY <1>3, <2>1, <2>2, <2>3
<1> HIDE DEF saving, destroying, other
<1>5. /\ req \in [Requests -> Internal] /\ RequestInv(r) /\ req'[r] = u
      /\ w.pc \notin {"none", "expiring"} /\ minted \in Nat
  BY <1>1, <1>2, <1>4 DEF SessionInv, TypeOK, RequestInv, Unattached
<1>6. OnlyTouches(r, u) /\ Takes(r, u) /\ Effect(r, u)
  BY <1>1, <1>2, <1>4
     DEF OnlyTouches, Takes, Effect, Holding, SessionInv, TypeOK
<1>7. Unattached(r)' /\ Minted(r)'
  BY <1>1, <1>2, <1>4, <1>5 DEF RequestInv, Unattached, Minted
<1>8. Named(r)'
  BY <1>1, <1>2, <1>4, <1>5 DEF RequestInv, Named, Saves
<1>9. Saves(r)'
  BY <1>1, <1>2, <1>4, <1>5 DEF RequestInv, Saves, Owes
<1> QED BY <1>6, <1>7, <1>8, <1>9, SessionsAssumption, StepKeeps DEF RequestInv

LEMMA CallFailsKeeps ==
  ASSUME SessionInv, NEW r \in Requests, CallFails(r)
  PROVE  SessionInv'
<1>1. PICK w \in Internal : w = req[r]
  BY DEF SessionInv, TypeOK
<1> DEFINE u == [w EXCEPT !.hc = "idle"]
<1>2. /\ req' = [req EXCEPT ![r] = u]
      /\ w.hc \in {"failing", "saving", "destroying", "regenerating"}
      /\ UNCHANGED <<options, minted, calls>> /\ StoreUnchanged
      /\ saved' = saved
  BY <1>1 DEF CallFails, StoreUnchanged
<1>3. faults' # 0 /\ faults' \in 0..MaxFaults /\ faults <= faults'
  <2>1. faults \in 0..MaxFaults /\ RequestInv(r) /\ MaxFaults \in Nat
    BY SessionsAssumption DEF SessionInv, TypeOK, SessionsAssumption
  <2> QED BY <2>1 DEF CallFails, Fault, RequestInv, Saves
<1>4. /\ u \in Internal
      /\ u.pc = w.pc /\ u.hc = "idle" /\ u.id = w.id /\ u.given = w.given
      /\ u.data = w.data /\ u.wrote = w.wrote /\ u.destroyed = w.destroyed
      /\ u.warned = w.warned /\ u.cookieSet = w.cookieSet
      /\ u.cookie = w.cookie /\ u.dirty = w.dirty
  BY DEF Internal
<1> HIDE DEF u
<1>5. /\ req \in [Requests -> Internal] /\ RequestInv(r) /\ req'[r] = u
      /\ w.pc \notin {"none", "expiring"}
  BY <1>1, <1>2, <1>4 DEF SessionInv, TypeOK, RequestInv, Unattached
<1>6. OnlyTouches(r, u) /\ Takes(r, u) /\ Effect(r, u)
  BY <1>1, <1>2, <1>3, <1>4
     DEF OnlyTouches, Takes, Effect, Holding, SessionInv, TypeOK
<1>7. Unattached(r)' /\ Minted(r)' /\ Named(r)'
  BY <1>1, <1>2, <1>4, <1>5 DEF RequestInv, Unattached, Minted, Named
<1>8. Saves(r)'
  BY <1>1, <1>2, <1>3, <1>4, <1>5 DEF RequestInv, Saves, Owes
<1> QED BY <1>6, <1>7, <1>8, SessionsAssumption, StepKeeps DEF RequestInv

LEMMA SendsKeeps ==
  ASSUME SessionInv, NEW r \in Requests, Sends(r)
  PROVE  SessionInv'
<1>1. PICK w \in Internal : w = req[r]
  BY DEF SessionInv, TypeOK
<1> DEFINE u == [w EXCEPT !.sent = TRUE]
<1>2. /\ req' = [req EXCEPT ![r] = u] /\ w.pc = "handler" /\ w.hc = "run"
      /\ UNCHANGED <<options, minted, calls, faults>> /\ StoreUnchanged
      /\ saved' = saved
  BY <1>1 DEF Sends, StoreUnchanged
<1>3. /\ u \in Internal
      /\ u.pc = w.pc /\ u.hc = w.hc /\ u.id = w.id /\ u.given = w.given
      /\ u.data = w.data /\ u.wrote = w.wrote /\ u.destroyed = w.destroyed
      /\ u.warned = w.warned /\ u.cookieSet = w.cookieSet
      /\ u.cookie = w.cookie /\ u.dirty = w.dirty /\ u.persisted = w.persisted
  BY DEF Internal
<1> HIDE DEF u
<1>4. req \in [Requests -> Internal] /\ RequestInv(r) /\ req'[r] = u
  BY <1>1, <1>2, <1>3 DEF SessionInv, TypeOK
<1>5. OnlyTouches(r, u) /\ Takes(r, u) /\ Effect(r, u)
  BY <1>1, <1>2, <1>3
     DEF OnlyTouches, Takes, Effect, Holding, SessionInv, TypeOK
<1>6. RequestInv(r)'
  BY <1>1, <1>2, <1>3, <1>4
     DEF RequestInv, Unattached, Minted, Named, Saves, Owes
<1> QED BY <1>5, <1>6, SessionsAssumption, StepKeeps

-----------------------------------------------------------------------------
(* The hooks at the end.                                                     *)

\* persist() of a session that is as the request holds it, or whose last save
\* has been answered: whatever it owes is saved when it returns, unless the
\* store fails.
LEMMA PersistKeeps ==
  ASSUME SessionInv, NEW r \in Requests,
         NEW phase \in {"post", "close"}, NEW s \in Internal,
         Persist(r, phase, s),
         req[r].pc \in {"handler", "post"},
         s.hc \in {req[r].hc, "idle"}, s.id = req[r].id,
         s.given = req[r].given, s.data = req[r].data,
         s.wrote = req[r].wrote, s.destroyed = req[r].destroyed,
         s.cookie = req[r].cookie, s.warned = req[r].warned,
         s.cookieSet = req[r].cookieSet, s.dirty => req[r].dirty,
         Owes(r) /\ faults = 0 =>
           \/ saved[r] = s.id \/ (s.dirty /\ ~s.persisted)
           \/ saved[r] # 0 /\ s.hc # "idle"
  PROVE  SessionInv'
<1> DEFINE t == [s EXCEPT !.pc = phase, !.persisted = @ \/ ~Skips(s)]
           done == [t EXCEPT !.awaits = Asks(s)]
           failed == [t EXCEPT !.awaits = "failure"]
           Ended(u) ==
             /\ u \in Internal /\ u.pc = phase /\ u.hc = s.hc /\ u.id = s.id
             /\ u.given = s.given /\ u.data = s.data /\ u.wrote = s.wrote
             /\ u.destroyed = s.destroyed /\ u.cookie = s.cookie
             /\ u.warned = s.warned /\ u.cookieSet = s.cookieSet
             /\ u.dirty = s.dirty
<1>1. Ended(done) /\ Ended(failed)
  <2>1. (s.persisted \/ ~Skips(s)) \in BOOLEAN
    OBVIOUS
  <2>2. t \in Internal /\ t.pc = phase /\ t.hc = s.hc /\ t.id = s.id
             /\ t.given = s.given /\ t.data = s.data /\ t.wrote = s.wrote
             /\ t.destroyed = s.destroyed /\ t.cookie = s.cookie
             /\ t.warned = s.warned /\ t.cookieSet = s.cookieSet
             /\ t.dirty = s.dirty
    BY <2>1 DEF Internal
  <2> HIDE DEF t
  <2>3. Asks(s) \in {"nothing", "set", "touch"}
    BY DEF Asks
  <2> QED BY <2>2, <2>3 DEF Internal
<1>2. /\ \/ /\ req' = [req EXCEPT ![r] = done] /\ faults' = faults
            /\ IF Asks(s) = "set" THEN Set(r, s) ELSE StoreUnchanged
         \/ /\ req' = [req EXCEPT ![r] = failed] /\ Fault /\ StoreUnchanged
      /\ UNCHANGED <<options, minted, calls>>
  BY DEF Persist
<1> HIDE DEF done, failed, t
<1>3. PICK u :
        /\ Ended(u) /\ req' = [req EXCEPT ![r] = u]
        /\ \/ Asks(s) = "set" /\ Set(r, s) /\ faults' = faults
           \/ Asks(s) # "set" /\ StoreUnchanged /\ faults' = faults
           \/ StoreUnchanged /\ faults' \in 1..MaxFaults /\ faults <= faults'
  <2>1. CASE req' = [req EXCEPT ![r] = failed] /\ Fault /\ StoreUnchanged
    <3>1. faults' \in 1..MaxFaults /\ faults <= faults'
      BY <2>1, SessionsAssumption
         DEF Fault, SessionInv, TypeOK, SessionsAssumption
    <3> HIDE DEF Ended
    <3> QED BY <1>1, <2>1, <3>1
  <2>2. CASE /\ req' = [req EXCEPT ![r] = done] /\ faults' = faults
             /\ IF Asks(s) = "set" THEN Set(r, s) ELSE StoreUnchanged
    <3> HIDE DEF Ended
    <3> QED BY <1>1, <2>2
  <2> QED BY <1>2, <2>1, <2>2
<1>4. /\ req \in [Requests -> Internal] /\ saved \in [Requests -> 0..MaxIds]
      /\ RequestInv(r) /\ req'[r] = u /\ minted \in 0..MaxIds
      /\ faults \in 0..MaxFaults /\ calls \in 0..MaxCalls
      /\ req[r].id \in 1..minted /\ req[r].id # 0 /\ Holding(r)
  BY <1>3 DEF SessionInv, TypeOK, RequestInv, Minted, Holding
<1>5. Asks(s) = "set" => ~s.destroyed /\ (s.dirty \/ options.saveUninitialized)
  BY DEF Asks, Skips
<1>6. ~s.destroyed /\ s.dirty /\ ~s.persisted => Asks(s) = "set"
  BY DEF Asks, Skips
<1>7. /\ faults' \in 0..MaxFaults /\ faults <= faults'
      /\ options' = options /\ minted' = minted /\ calls' = calls
  BY <1>2, <1>3, <1>4, SessionsAssumption DEF SessionsAssumption
<1>8. /\ saved' \in [Requests -> 0..MaxIds]
      /\ \A q \in Requests \ {r} : saved'[q] = saved[q]
      /\ saved'[r] # saved[r] => saved'[r] = s.id /\ Asks(s) = "set"
      /\ Set(r, s) /\ r \in s.data => saved'[r] = s.id
  <2>1. CASE Asks(s) = "set" /\ Set(r, s)
    <3>1. saved' = [saved EXCEPT ![r] = IF r \in s.data THEN s.id ELSE @]
      BY <2>1 DEF Set
    <3>2. s.id \in 0..MaxIds
      BY DEF Internal
    <3> QED BY <1>4, <2>1, <3>1, <3>2
  <2>2. CASE StoreUnchanged
    BY <1>4, <2>2 DEF StoreUnchanged, Set
  <2> QED BY <1>3, <2>1, <2>2
<1>9. OnlyTouches(r, u)
  BY <1>3, <1>4, <1>7, <1>8 DEF OnlyTouches
<1>10. Takes(r, u) /\ Effect(r, u)
  BY <1>3, <1>4, <1>5 DEF Takes, Effect
<1>11. Unattached(r)' /\ Minted(r)'
  BY <1>3, <1>4, <1>7 DEF Unattached, Minted, RequestInv
<1>12. Named(r)'
  BY <1>3, <1>4, <1>5, <1>7, <1>8 DEF Named, RequestInv
<1>13. Saves(r)'
  <2>1. Owes(r)' => r \in s.data /\ ~s.destroyed
    <3>1. CASE Asks(s) = "set" /\ Set(r, s)
      BY <1>3, <1>4, <3>1 DEF Owes, Set, RequestInv, Saves
    <3>2. CASE StoreUnchanged
      BY <1>3, <1>4, <3>2 DEF Owes, StoreUnchanged, RequestInv, Saves
    <3> QED BY <1>3, <3>1, <3>2
  <2>2. Owes(r)' /\ faults' = 0 =>
          saved'[r] # 0 /\ (s.hc = "idle" => saved'[r] = s.id)
    <3> SUFFICES ASSUME Owes(r)', faults' = 0
                 PROVE  saved'[r] # 0 /\ (s.hc = "idle" => saved'[r] = s.id)
      OBVIOUS
    <3>1. CASE Asks(s) = "set" /\ Set(r, s)
      BY <1>4, <1>8, <2>1, <3>1
    <3>2. CASE Asks(s) # "set" /\ StoreUnchanged /\ faults' = faults
      <4>1. saved'[r] = saved[r] /\ Owes(r) /\ faults = 0
        BY <1>3, <1>4, <3>2 DEF StoreUnchanged, Owes
      <4> QED BY <1>4, <1>6, <2>1, <3>2, <4>1
    <3> QED BY <1>3, <3>1, <3>2
  <2>3. /\ u.hc = "failing" => faults' # 0
        /\ u.hc = "destroying" => u.destroyed
    BY <1>3, <1>4, <1>7, SessionsAssumption
       DEF RequestInv, Saves, SessionsAssumption
  <2> QED BY <1>3, <1>4, <2>1, <2>2, <2>3 DEF Saves, Owes
<1> QED BY <1>9, <1>10, <1>11, <1>12, <1>13, SessionsAssumption, StepKeeps
        DEF RequestInv

\* The handler is through: the hooks persist what it has left.
LEMMA HandlerEndKeeps ==
  ASSUME SessionInv, NEW r \in Requests,
         Returns(r) \/ Throws(r) \/ TimesOut(r)
  PROVE  SessionInv'
<1>1. PICK w \in Internal : w = req[r]
  BY DEF SessionInv, TypeOK
<1> DEFINE returned == [w EXCEPT !.hc = "idle"]
           thrown == [w EXCEPT !.hc = "idle", !.sent = TRUE]
           timedOut == [w EXCEPT !.sent = TRUE]
           Left(s) ==
             /\ s \in Internal /\ s.id = w.id /\ s.given = w.given
             /\ s.data = w.data /\ s.wrote = w.wrote
             /\ s.destroyed = w.destroyed /\ s.cookie = w.cookie
             /\ s.warned = w.warned /\ s.cookieSet = w.cookieSet
             /\ s.dirty = w.dirty /\ s.persisted = w.persisted
             /\ s.hc \in {w.hc, "idle"}
<1>2. Left(returned) /\ Left(thrown) /\ Left(timedOut)
  BY DEF Internal
<1>3. /\ w.pc = "handler"
      /\ \/ Persist(r, "post", returned)
         \/ Persist(r, "close", thrown) \/ Persist(r, "close", timedOut)
  BY <1>1 DEF Returns, Throws, TimesOut
<1> HIDE DEF returned, thrown, timedOut
<1>4. PICK s, phase : /\ phase \in {"post", "close"} /\ Persist(r, phase, s)
                      /\ Left(s)
  <2> HIDE DEF Left
  <2> QED BY <1>2, <1>3
<1>5. Owes(r) /\ faults = 0 =>
        saved[r] = s.id \/ (s.dirty /\ ~s.persisted)
  BY <1>1, <1>3, <1>4 DEF SessionInv, RequestInv, Saves
<1> QED BY <1>1, <1>3, <1>4, <1>5, PersistKeeps

\* The second persist() finds what the first has left.
LEMMA PostDoneKeeps ==
  ASSUME SessionInv, NEW r \in Requests, PostDone(r)
  PROVE  SessionInv'
<1>1. PICK w \in Internal : w = req[r]
  BY DEF SessionInv, TypeOK
<1> DEFINE s == Persisted(w)
<1>2. /\ s \in Internal /\ s.id = w.id /\ s.given = w.given
      /\ s.data = w.data /\ s.wrote = w.wrote
      /\ s.destroyed = w.destroyed /\ s.cookie = w.cookie
      /\ s.warned = w.warned /\ s.cookieSet = w.cookieSet
      /\ s.dirty => w.dirty
      /\ s.hc = w.hc
  BY DEF Persisted, Internal
<1>3. w.pc = "post" /\ Persist(r, "close", s)
  BY <1>1 DEF PostDone
<1> HIDE DEF s
<1>4. Owes(r) /\ faults = 0 =>
        saved[r] = s.id \/ (saved[r] # 0 /\ s.hc # "idle")
  BY <1>1, <1>2, <1>3 DEF SessionInv, RequestInv, Saves
<1> QED BY <1>1, <1>2, <1>3, <1>4, PersistKeeps

LEMMA CloseDoneKeeps ==
  ASSUME SessionInv, NEW r \in Requests, CloseDone(r)
  PROVE  SessionInv'
<1>1. PICK w \in Internal : w = req[r]
  BY DEF SessionInv, TypeOK
<1> DEFINE s == Persisted(w)
           u == [s EXCEPT !.pc = "done", !.awaits = "nothing"]
<1>2. /\ s \in Internal /\ s.id = w.id /\ s.given = w.given
      /\ s.data = w.data /\ s.wrote = w.wrote
      /\ s.destroyed = w.destroyed /\ s.cookie = w.cookie
      /\ s.warned = w.warned /\ s.cookieSet = w.cookieSet
      /\ s.dirty => w.dirty
      /\ s.hc = w.hc
  BY DEF Persisted, Internal
<1>3. /\ w.pc = "close" /\ req' = [req EXCEPT ![r] = u]
      /\ UNCHANGED <<options, minted, calls, faults>> /\ StoreUnchanged
      /\ saved' = saved
  BY <1>1 DEF CloseDone, StoreUnchanged
<1> HIDE DEF s
<1>4. /\ u \in Internal /\ u.pc = "done" /\ u.id = w.id /\ u.given = w.given
      /\ u.data = w.data /\ u.wrote = w.wrote
      /\ u.destroyed = w.destroyed /\ u.cookie = w.cookie
      /\ u.warned = w.warned /\ u.cookieSet = w.cookieSet
      /\ u.dirty => w.dirty
      /\ u.hc = w.hc
  BY <1>2 DEF Internal
<1> HIDE DEF u
<1>5. req \in [Requests -> Internal] /\ RequestInv(r) /\ req'[r] = u
  BY <1>1, <1>3, <1>4 DEF SessionInv, TypeOK
<1>6. OnlyTouches(r, u) /\ Takes(r, u) /\ Effect(r, u)
  BY <1>1, <1>3, <1>4
     DEF OnlyTouches, Takes, Effect, Holding, SessionInv, TypeOK
<1>7. RequestInv(r)'
  BY <1>1, <1>3, <1>4, <1>5
     DEF RequestInv, Unattached, Minted, Named, Saves, Owes
<1> QED BY <1>6, <1>7, SessionsAssumption, StepKeeps

-----------------------------------------------------------------------------
LEMMA AgesKeeps ==
  ASSUME SessionInv, NEW id \in Ids, Ages(id)
  PROVE  SessionInv'
<1>1. /\ UNCHANGED <<options, minted, req, calls, killed, saved>>
      /\ store[id].there /\ faults' = faults + 1 /\ faults < MaxFaults
  BY DEF Ages, Fault
<1>2. faults' # 0 /\ faults' \in 0..MaxFaults
  BY <1>1, SessionsAssumption
     DEF SessionInv, TypeOK, SessionsAssumption
<1>3. TypeOK'
  <2>1. store' \in [Ids -> [there : BOOLEAN, data : SUBSET Requests,
                           old : BOOLEAN]]
    <3>1. CASE store' = [store EXCEPT ![id] = Absent]
      BY <3>1 DEF SessionInv, TypeOK, Absent
    <3>2. CASE store' = [store EXCEPT ![id].old = TRUE]
      BY <3>2 DEF SessionInv, TypeOK
    <3> QED BY <3>1, <3>2 DEF Ages
  <2> QED BY <1>1, <1>2, <2>1 DEF SessionInv, TypeOK
<1>4. \A i \in Ids : killed[i] = {} => store'[i] = store[i]
  BY <1>1 DEF SessionInv, TypeOK, Buried, Ages
<1>5. Buried'
  BY <1>1, <1>4 DEF SessionInv, Buried, Holders
<1>6. \A r \in Requests : RequestInv(r)'
  BY <1>1, <1>2
     DEF SessionInv, RequestInv, Unattached, Minted, Named, Saves, Owes
<1> QED BY <1>3, <1>5, <1>6 DEF SessionInv

LEMMA SessionInit == Init => SessionInv
<1> SUFFICES ASSUME Init PROVE SessionInv
  OBVIOUS
<1> USE SessionsAssumption DEF SessionsAssumption, Init
<1>1. TypeOK
  <2>1. store \in [Ids -> [there : BOOLEAN, data : SUBSET Requests,
                          old : BOOLEAN]]
    BY DEF Stored, Absent
  <2>2. req \in [Requests -> Internal]
    BY DEF Internal
  <2>3. /\ killed \in [Ids -> (SUBSET Requests) \cup {NotKilled}]
        /\ saved \in [Requests -> 0..MaxIds]
    OBVIOUS
  <2> QED BY <2>1, <2>2, <2>3 DEF TypeOK
<1>2. \A r \in Requests : RequestInv(r)
  <2> TAKE r \in Requests
  <2>1. /\ req[r].pc = "none" /\ req[r].hc = "idle" /\ req[r].given = 0
        /\ req[r].id = 0 /\ ~req[r].dirty /\ ~req[r].destroyed
        /\ ~req[r].cookieSet /\ ~req[r].sent /\ ~req[r].wrote
        /\ saved[r] = 0 /\ minted = 1
    OBVIOUS
  <2> QED BY <2>1
          DEF RequestInv, Unattached, Minted, Named, Saves, Owes
<1>3. Buried
  BY DEF Buried, NotKilled
<1> QED BY <1>1, <1>2, <1>3 DEF SessionInv

LEMMA SessionNext == SessionInv /\ [Next]_vars => SessionInv'
<1> SUFFICES ASSUME SessionInv, [Next]_vars PROVE SessionInv'
  OBVIOUS
<1>1. CASE UNCHANGED vars
  BY <1>1 DEF vars, SessionInv, TypeOK, RequestInv, Unattached, Minted, Named,
              Saves, Owes, Buried, Holders
<1>2. ASSUME NEW r \in Requests, NEW asked \in 0..minted, Attach(r, asked)
      PROVE  SessionInv'
  BY <1>2, AttachKeeps, SessionsAssumption
<1>3. ASSUME NEW r \in Requests,
             \/ Expire(r)
             \/ Write(r) \/ Touch(r) \/ Save(r) \/ DestroySession(r)
             \/ Regenerate(r)
             \/ Answered(r) \/ CallFails(r) \/ Sends(r)
             \/ Returns(r) \/ Throws(r) \/ TimesOut(r) \/ PostDone(r)
             \/ CloseDone(r)
      PROVE  SessionInv'
  BY <1>3, SessionsAssumption, ExpireKeeps, WriteKeeps, TouchKeeps, SaveKeeps,
     DestroySessionKeeps, RegenerateKeeps, AnsweredKeeps, CallFailsKeeps,
     SendsKeeps, HandlerEndKeeps, PostDoneKeeps, CloseDoneKeeps
<1>4. ASSUME NEW id \in Ids, Ages(id) PROVE SessionInv'
  BY <1>4, AgesKeeps
<1> QED BY <1>1, <1>2, <1>3, <1>4 DEF Next

LEMMA SessionInvSafe == SessionInv => DeadStaysDead /\ SessionsKept
<1> SUFFICES ASSUME SessionInv PROVE DeadStaysDead /\ SessionsKept
  OBVIOUS
<1>1. DeadStaysDead
  BY DEF SessionInv, Buried, DeadStaysDead
<1>2. WritesKept
  BY DEF SessionInv, RequestInv, Saves, Owes, Over, WritesKept
<1>3. CookieNamesSession
  BY DEF SessionInv, RequestInv, Saves, Owes, Named, Over, CookieNamesSession
<1> QED BY <1>1, <1>2, <1>3 DEF SessionsKept

LEMMA SessionInvAlways == Spec => []SessionInv
BY SessionInit, SessionNext, PTL DEF Spec

\* destroySession(), regenerateSession() and the absolute timeout are final as
\* far as the requests that know of them go: however requests, hooks and
\* handlers that run on overlap, and whatever calls fail and records run out, a
\* destroyed id is in the store again only if another request held it then.
THEOREM LoggedOutStaysOut == Spec => []DeadStaysDead
BY SessionInvAlways, SessionInvSafe, PTL

\* What handlers write reaches the store at least once, be it by the hooks at
\* the end, under an id the client has been told or with a warning: for any
\* number of requests. That it stays there is not claimed.
THEOREM NoSessionIsLost == Spec => []SessionsKept
BY SessionInvAlways, SessionInvSafe, PTL

\* SessionInternal, the records of the store and the bounds keep their types.
THEOREM SessionTypes == Spec => []TypeOK
BY SessionInvAlways, PTL DEF SessionInv

-----------------------------------------------------------------------------
(* Refresh tokens.                                                           *)

\* The calls that have made up a token and not sent it yet.
Carrying(c) == step[c] \in {"save", "revoke", "send"}

\* Where the token of a call is: unknown to the client and to all other calls
\* until it is sent, and in the store from the moment it is saved.
NextInv ==
  /\ known \subseteq 1..issued
  /\ \A c \in Refreshes : step[c] # "none" => given[c] \in known
  /\ \A c \in Refreshes :
       Carrying(c) => next[c] \in 1..issued /\ next[c] \notin known
  /\ \A c, d \in Refreshes :
       Carrying(c) /\ Carrying(d) /\ c # d => next[c] # next[d]
  /\ \A c \in Refreshes :
       step[c] \in {"revoke", "send"} => next[c] \in valid

\* Why a token the client knows is not valid, and who may have revoked it.
RevokedInv ==
  /\ \A t \in known : t \in valid \cup loggedOut \/ revokers[t] # {}
  /\ \A t \in Tokens : \A c \in revokers[t] :
       step[c] = "send" \/ answer[c] \in {200, 408}
  /\ \A c \in Refreshes : step[c] = "send" => c \in revokers[given[c]]
  /\ \A c \in Refreshes : answer[c] \notin {0, 408} => step[c] = "done"
  /\ \A c \in Refreshes : step[c] = "none" => answer[c] = 0
  /\ \A c \in Refreshes :
       errors = 0 /\ (step[c] = "send" \/ answer[c] = 200)
         => given[c] \notin valid

\* Who revokes a token carries another one, or deprives the client of both.
KeptInv == NeverLockedOut \/ Deprived

RotationInv == RTypeOK /\ NextInv /\ RevokedInv /\ KeptInv

-----------------------------------------------------------------------------
LEMMA RotationInit == RInit => RotationInv
BY TokensAssumption
   DEF RInit, RotationInv, RTypeOK, Tokens, NextInv, Carrying, RevokedInv,
       KeptInv, NeverLockedOut, Deprived

LEMMA ExistsKeeps ==
  ASSUME RotationInv, NEW c \in Refreshes, NEW t \in known, Exists(c, t)
  PROVE  RotationInv'
<1> USE TokensAssumption
        DEF RotationInv, Exists, Error, Answers, Goes
<1>1. RTypeOK'
  <2>1. PICK code \in {0, 401, 503}, to \in {"sign", "done"} :
          answer' = [answer EXCEPT ![c] = code] /\ step' = [step EXCEPT ![c] = to]
    BY DEF RTypeOK, RevokedInv
  <2>2. errors' \in 0..MaxStoreErrors
    BY DEF RTypeOK
  <2> QED BY <2>1, <2>2 DEF RTypeOK
<1>2. NextInv'
  BY DEF RTypeOK, NextInv, Carrying
<1>3. RevokedInv'
  BY DEF RTypeOK, RevokedInv
<1>4. KeptInv'
  <2>1. step[c] = "none" /\ answer[c] = 0
    BY DEF RevokedInv
  <2>2. \A d \in Refreshes \ {c} :
          /\ step'[d] = step[d] /\ answer'[d] = answer[d]
          /\ given'[d] = given[d]
    BY DEF RTypeOK
  <2>3. UNCHANGED <<valid, known, next, loggedOut, revokers>>
    OBVIOUS
  <2>4. NeverLockedOut => NeverLockedOut'
    BY <2>1, <2>2, <2>3 DEF NeverLockedOut
  <2>5. Deprived => Deprived'
    BY <2>1, <2>2, <2>3 DEF Deprived
  <2> QED BY <2>4, <2>5 DEF KeptInv
<1> QED BY <1>1, <1>2, <1>3, <1>4

LEMMA SignKeeps ==
  ASSUME RotationInv, NEW c \in Refreshes, Sign(c)
  PROVE  RotationInv'
<1> USE TokensAssumption
        DEF RotationInv, Sign, Error, Answers, Goes
<1>0. issued + 1 \in Tokens /\ issued \in Nat
  BY DEF RTypeOK, Tokens
<1>1. RTypeOK'
  BY <1>0 DEF RTypeOK
<1>2. NextInv'
  BY <1>0 DEF RTypeOK, NextInv, Carrying
<1>3. RevokedInv'
  BY DEF RTypeOK, RevokedInv
<1>4. KeptInv'
  BY DEF RTypeOK, KeptInv, NeverLockedOut, Deprived
<1> QED BY <1>1, <1>2, <1>3, <1>4

\* The token that is saved is no token the client knows.
LEMMA SaveNextKeeps ==
  ASSUME RotationInv, NEW c \in Refreshes, SaveNext(c)
  PROVE  RotationInv'
<1> USE TokensAssumption
        DEF RotationInv, SaveNext, Error, Answers, Goes
<1>0. next[c] \in Tokens
  BY DEF RTypeOK, Tokens, NextInv, Carrying
<1>1. RTypeOK'
  BY <1>0 DEF RTypeOK
<1>2. NextInv'
  BY DEF RTypeOK, NextInv, Carrying
<1>3. RevokedInv'
  BY DEF RTypeOK, RevokedInv, NextInv, Carrying
<1>4. KeptInv'
  BY DEF RTypeOK, KeptInv, NeverLockedOut, Deprived
<1> QED BY <1>1, <1>2, <1>3, <1>4

\* What is revoked is known, so it is not the token of any call; the call's
\* own token is the one the client will be able to use.
LEMMA RevokeKeeps ==
  ASSUME RotationInv, NEW c \in Refreshes, Revoke(c)
  PROVE  RotationInv'
<1> USE TokensAssumption
        DEF RotationInv, Revoke, Error, Goes
<1>0. given[c] \in Tokens
  BY DEF RTypeOK, NextInv
<1>1. RTypeOK'
  BY <1>0 DEF RTypeOK
<1>2. NextInv'
  BY DEF RTypeOK, NextInv, Carrying
<1>3. RevokedInv'
  BY DEF RTypeOK, RevokedInv, NextInv
<1>4. KeptInv'
  <2>1. next'[c] \in valid' /\ step'[c] = "send"
    BY DEF RTypeOK, NextInv, Carrying
  <2>2. c \in revokers'[given'[c]]
    BY <1>0 DEF RTypeOK
  <2>3. answer'[c] \in {0, 408}
    BY DEF RTypeOK, RevokedInv
  <2> QED BY <2>1, <2>2, <2>3 DEF KeptInv, NeverLockedOut, Deprived
<1> QED BY <1>1, <1>2, <1>3, <1>4

LEMMA SendKeeps ==
  ASSUME RotationInv, NEW c \in Refreshes, Send(c)
  PROVE  RotationInv'
<1> USE TokensAssumption
        DEF RotationInv, Send, Answers
<1>0. next[c] \in Tokens
  BY DEF RTypeOK, Tokens, NextInv, Carrying
<1>1. RTypeOK'
  BY <1>0 DEF RTypeOK
<1>2. NextInv'
  <2>1. next[c] \in 1..issued /\ \A d \in Refreshes \ {c} :
          Carrying(d) => next[d] # next[c]
    BY DEF NextInv, Carrying
  <2>2. ~Carrying(c)' /\ \A d \in Refreshes \ {c} : step'[d] = step[d]
    BY DEF RTypeOK, Carrying
  <2>3. known' \subseteq 1..issued
    BY <2>1 DEF NextInv
  <2>4. \A d \in Refreshes : step'[d] # "none" => given[d] \in known'
    BY <2>2 DEF NextInv
  <2>5. \A d \in Refreshes :
          Carrying(d)' => next[d] \in 1..issued /\ next[d] \notin known'
    BY <2>1, <2>2 DEF NextInv, Carrying
  <2>6. \A d \in Refreshes :
          step'[d] \in {"revoke", "send"} => next[d] \in valid
    BY <2>2 DEF NextInv, Carrying
  <2>7. \A d, e \in Refreshes :
          Carrying(d)' /\ Carrying(e)' /\ d # e => next[d] # next[e]
    BY <2>2 DEF NextInv, Carrying
  <2> QED BY <2>3, <2>4, <2>5, <2>6, <2>7 DEF NextInv, Carrying
<1>3. RevokedInv'
  BY DEF RTypeOK, RevokedInv, NextInv
<1>4. KeptInv'
  BY DEF RTypeOK, KeptInv, NeverLockedOut, Deprived, NextInv
<1> QED BY <1>1, <1>2, <1>3, <1>4

\* The client loses the token that was about to be sent, the old one having
\* been revoked: it is deprived.
LEMMA CutOffKeeps ==
  ASSUME RotationInv, NEW c \in Refreshes, CutOff(c)
  PROVE  RotationInv'
<1> USE DEF RotationInv, CutOff
<1>1. RTypeOK'
  BY DEF RTypeOK
<1>2. NextInv'
  BY DEF NextInv, Carrying
<1>3. RevokedInv'
  BY DEF RTypeOK, RevokedInv
<1>4. KeptInv'
  <2>1. CASE step[c] = "send"
    <3>1. answer'[c] = 408 /\ c \in revokers'[given'[c]]
      BY <2>1 DEF RTypeOK, RevokedInv
    <3> QED BY <3>1 DEF KeptInv, Deprived
  <2>2. CASE step[c] # "send"
    BY <2>2 DEF RTypeOK, KeptInv, NeverLockedOut, Deprived
  <2> QED BY <2>1, <2>2
<1> QED BY <1>1, <1>2, <1>3, <1>4

LEMMA LogOutKeeps ==
  ASSUME RotationInv, NEW t \in known, LogOut(t)
  PROVE  RotationInv'
<1> USE DEF RotationInv, LogOut
<1>1. RTypeOK'
  BY DEF RTypeOK
<1>2. NextInv'
  BY DEF NextInv, Carrying
<1>3. RevokedInv'
  BY DEF RevokedInv
<1>4. KeptInv'
  BY DEF KeptInv, NeverLockedOut, Deprived
<1> QED BY <1>1, <1>2, <1>3, <1>4

LEMMA RotationNext == RotationInv /\ [RNext]_tokens => RotationInv'
<1> SUFFICES ASSUME RotationInv, [RNext]_tokens PROVE RotationInv'
  OBVIOUS
<1>1. CASE UNCHANGED tokens
  BY <1>1 DEF tokens, RotationInv, RTypeOK, NextInv, Carrying, RevokedInv,
              KeptInv, NeverLockedOut, Deprived
<1>2. CASE RNext
  BY <1>2, ExistsKeeps, SignKeeps, SaveNextKeeps, RevokeKeeps, SendKeeps,
     CutOffKeeps, LogOutKeeps DEF RNext
<1> QED BY <1>1, <1>2

LEMMA RotationInvSafe == RotationInv => RotationSafe
<1> SUFFICES ASSUME RotationInv PROVE RotationSafe
  OBVIOUS
<1> USE DEF RotationInv
<1>1. RetryIsSafe
  <2> SUFFICES ASSUME NEW c \in Refreshes, answer[c] \in {500, 503},
                      given[c] \notin valid \cup loggedOut
               PROVE  revokers[given[c]] \ {c} # {}
    BY DEF RetryIsSafe
  <2>1. given[c] \in known /\ given[c] \in Tokens
    BY DEF RTypeOK, NextInv, RevokedInv
  <2>2. revokers[given[c]] # {} /\ c \notin revokers[given[c]]
    BY <2>1 DEF RevokedInv
  <2> QED BY <2>2
<1>2. UsedOnce
  BY DEF UsedOnce, RevokedInv
<1> QED BY <1>1, <1>2 DEF RotationSafe, KeptInv

-----------------------------------------------------------------------------
\* However the refreshes of createRefreshHandler() overlap, whatever calls of
\* the store fail and whoever logs out: the client keeps a token that works,
\* unless the answer of a refresh that had revoked one was cut off; an error
\* of the handler has cost it nothing, and an exchanged token is dead.
THEOREM RotationIsSafe == RSpec => []RotationSafe
<1>1. RSpec => []RotationInv
  BY RotationInit, RotationNext, PTL DEF RSpec
<1> QED BY <1>1, RotationInvSafe, PTL
=============================================================================
