------------------------------ MODULE Sessions ------------------------------
(* @axiomify/session (packages/session/src/session.ts) over a SessionStore   *)
(* that all processes share: requests load a session in an onRequest hook,   *)
(* change it in their handlers and persist it in onPostHandler and onClose   *)
(* hooks. A call of the store takes effect in one step and its reply comes   *)
(* in a later one, or the call fails. A handler awaits what it calls, but    *)
(* one that has timed out runs on beside the hooks at the end.               *)
EXTENDS Naturals

CONSTANTS
  Requests,      \* the requests of a behaviour
  MaxIds,        \* bound: session ids that are minted
  MaxCalls,      \* bound: what the handlers do with their sessions
  MaxFaults      \* bound: calls of the store that fail, records that run out

ASSUME SessionsAssumption ==
  MaxIds \in Nat \ {0} /\ MaxCalls \in Nat /\ MaxFaults \in Nat

VARIABLES
  options,       \* saveUninitialized and rolling
  store,         \* id -> record, by the SessionStore
  minted,        \* ids minted so far: 1..minted
  req,           \* SessionInternal of each request, and where its hooks are
  calls,         \* what the handlers have done so far
  faults,        \* calls that have failed, and records that have run out
  killed,        \* history: id -> who else held it when it was destroyed
  saved          \* history: the id under which a request saved last its writes

vars == <<options, store, minted, req, calls, faults, killed, saved>>

Ids == 1..MaxIds

\* A record holds the writes of these requests; an old one has passed the
\* absolute timeout.
Absent == [there |-> FALSE, data |-> {}, old |-> FALSE]
Stored == [there |-> TRUE, data |-> {}, old |-> FALSE]

NotKilled == {"never"}

Internal ==
  [pc : {"none", "expiring", "handler", "post", "close", "done"},
   hc : {"idle", "run", "saving", "destroying", "regenerating", "failing"},
   awaits : {"nothing", "set", "touch", "failure"},   \* of persist()
   given : 0..MaxIds,          \* the id the client has sent, 0 for none
   id : 0..MaxIds, data : SUBSET Requests,
   cookie : 0..MaxIds,         \* the Set-Cookie of the response, 0 for none
   isNew : BOOLEAN, dirty : BOOLEAN, touched : BOOLEAN, destroyed : BOOLEAN,
   persisted : BOOLEAN, cookieSet : BOOLEAN,
   warned : BOOLEAN,           \* warnedHeadersSent
   sent : BOOLEAN,             \* res.headersSent
   wrote : BOOLEAN]            \* history: the handler wrote before its end

TypeOK ==
  /\ options \in [saveUninitialized : BOOLEAN, rolling : BOOLEAN]
  /\ store \in [Ids -> [there : BOOLEAN, data : SUBSET Requests, old : BOOLEAN]]
  /\ minted \in 0..MaxIds
  /\ req \in [Requests -> Internal]
  /\ calls \in 0..MaxCalls /\ faults \in 0..MaxFaults
  /\ killed \in [Ids -> (SUBSET Requests) \cup {NotKilled}]
  /\ saved \in [Requests -> 0..MaxIds]

\* Session 1 is there from an earlier visit.
Init ==
  /\ options \in [saveUninitialized : BOOLEAN, rolling : BOOLEAN]
  /\ store = [i \in Ids |-> IF i = 1 THEN Stored ELSE Absent]
  /\ minted = 1
  /\ req = [r \in Requests |->
       [pc |-> "none", hc |-> "idle", awaits |-> "nothing", given |-> 0,
        id |-> 0, data |-> {}, cookie |-> 0, isNew |-> FALSE, dirty |-> FALSE, touched |-> FALSE,
        destroyed |-> FALSE, persisted |-> FALSE, cookieSet |-> FALSE,
        warned |-> FALSE, sent |-> FALSE, wrote |-> FALSE]]
  /\ calls = 0 /\ faults = 0
  /\ killed = [i \in Ids |-> NotKilled]
  /\ saved = [r \in Requests |-> 0]

Fault == faults < MaxFaults /\ faults' = faults + 1

-----------------------------------------------------------------------------
(* The store.                                                                *)

StoreUnchanged == UNCHANGED <<store, killed, saved>>

\* set() writes the session with the time of its creation.
Set(r, s) ==
  /\ store' = [store EXCEPT
                 ![s.id] = [there |-> TRUE, data |-> s.data, old |-> @.old]]
  /\ saved' = [saved EXCEPT ![r] = IF r \in s.data THEN s.id ELSE @]
  /\ UNCHANGED killed

\* A handler that runs on may still save what it holds.
Holders(id) ==
  {q \in Requests : req[q].id = id /\ (req[q].pc # "done" \/ req[q].hc # "idle")}

Destroy(r, id) ==
  /\ store' = [store EXCEPT ![id] = Absent]
  /\ killed' = [killed EXCEPT ![id] = Holders(id) \ {r}]
  /\ UNCHANGED saved

\* A record passes its absolute timeout, or the store drops an idle one.
Ages(id) ==
  /\ store[id].there /\ Fault
  /\ \/ ~store[id].old /\ store' = [store EXCEPT ![id].old = TRUE]
     \/ store' = [store EXCEPT ![id] = Absent]
  /\ UNCHANGED <<options, minted, req, calls, killed, saved>>

-----------------------------------------------------------------------------
(* SessionInternal: what a call makes of the fields of s.                    *)

\* setCookieNow()
WithCookie(s) ==
  IF s.sent THEN [s EXCEPT !.warned = TRUE]
  ELSE [s EXCEPT !.cookie = s.id, !.cookieSet = TRUE]

CookieOnce(s) == IF s.cookieSet THEN s ELSE WithCookie(s)

\* Mutant of MarkDirty: a session that was saved stays so.
MarkDirtySaved(s) == CookieOnce([s EXCEPT !.dirty = TRUE])

\* markDirty()
MarkDirty(s) == CookieOnce([s EXCEPT !.dirty = TRUE, !.persisted = FALSE])

\* What regenerateSession() changes before it awaits.
Regenerated(s, id) ==
  WithCookie([s EXCEPT !.id = id, !.dirty = TRUE, !.persisted = FALSE,
                       !.cookieSet = FALSE])

\* attachSession() with a record, or without one.
Attached(s, id, isNew, data) ==
  LET t == [s EXCEPT !.pc = "handler", !.hc = "run", !.id = id,
                     !.isNew = isNew, !.data = data]
  IN  IF (isNew /\ options.saveUninitialized) \/ (~isNew /\ options.rolling)
      THEN WithCookie(t) ELSE t

Fresh(r, s) ==
  /\ minted < MaxIds
  /\ minted' = minted + 1
  /\ req' = [req EXCEPT ![r] = Attached(s, minted + 1, TRUE, {})]

-----------------------------------------------------------------------------
(* The hook onRequest.                                                       *)

\* The client sends an id the server has minted, or none. An id that is not
\* in the store is not adopted.
Attach(r, given) ==
  LET s == [req[r] EXCEPT !.given = given] IN
  /\ req[r].pc = "none"
  /\ IF given = 0 \/ ~store[given].there THEN Fresh(r, s)
     ELSE /\ req' = [req EXCEPT ![r] =
                       IF store[given].old THEN [s EXCEPT !.pc = "expiring"]
                       ELSE Attached(s, given, FALSE, store[given].data)]
          /\ UNCHANGED minted
  /\ UNCHANGED <<options, calls, faults>> /\ StoreUnchanged

\* Past the absolute timeout the record is destroyed.
Expire(r) ==
  /\ req[r].pc = "expiring"
  /\ Destroy(r, req[r].given)
  /\ Fresh(r, req[r])
  /\ UNCHANGED <<options, calls, faults>>

-----------------------------------------------------------------------------
(* The handler.                                                              *)

Handler(r, s) ==
  /\ req[r].hc = "run" /\ ~req[r].destroyed /\ calls < MaxCalls
  /\ calls' = calls + 1
  /\ req' = [req EXCEPT ![r] = s]
  /\ UNCHANGED options

\* The handler calls the store, which does what it is asked to, or fails.
Calls(r, s, phase, Effect) ==
  \/ Handler(r, [s EXCEPT !.hc = phase]) /\ Effect /\ UNCHANGED faults
  \/ Handler(r, [s EXCEPT !.hc = "failing"]) /\ StoreUnchanged /\ Fault

\* An assignment to the session; one to a destroyed session throws.
Write(r) ==
  LET s == [req[r] EXCEPT !.data = @ \cup {r},
                          !.wrote = @ \/ req[r].pc = "handler"]
  IN /\ Handler(r, MarkDirty(s))
     /\ UNCHANGED <<minted, faults>> /\ StoreUnchanged

\* touchSession()
Touch(r) ==
  /\ Handler(r, CookieOnce([req[r] EXCEPT !.touched = TRUE, !.persisted = FALSE]))
  /\ UNCHANGED <<minted, faults>> /\ StoreUnchanged

\* saveNow()
Save(r) ==
  /\ Calls(r, CookieOnce(req[r]), "saving", Set(r, req[r]))
  /\ UNCHANGED minted

\* destroySession(): the cookie is cleared once the store has answered.
DestroySession(r) ==
  /\ Calls(r, [req[r] EXCEPT !.destroyed = TRUE, !.data = {}], "destroying",
           Destroy(r, req[r].id))
  /\ UNCHANGED minted

\* regenerateSession(): only an id that was stored is destroyed.
Regenerate(r) ==
  LET s == Regenerated(req[r], minted + 1) IN
  /\ minted < MaxIds
  /\ minted' = minted + 1
  /\ IF req[r].isNew THEN Handler(r, s) /\ StoreUnchanged /\ UNCHANGED faults
     ELSE Calls(r, s, "regenerating", Destroy(r, req[r].id))

\* The store has answered.
Answered(r) ==
  LET s == req[r] IN
  /\ req' = [req EXCEPT ![r] =
       CASE s.hc = "saving" ->
              [s EXCEPT !.hc = "run", !.dirty = FALSE, !.touched = FALSE,
                        !.persisted = TRUE, !.isNew = FALSE]
         [] s.hc = "destroying" ->
              [s EXCEPT !.hc = "run", !.cookie = IF s.sent THEN @ ELSE 0]
         [] OTHER -> [s EXCEPT !.hc = "run"]]
  /\ s.hc \in {"saving", "destroying", "regenerating"}
  /\ UNCHANGED <<options, minted, calls, faults>> /\ StoreUnchanged

\* The call has failed, or its answer is lost: the handler throws.
CallFails(r) ==
  /\ \/ req[r].hc = "failing" /\ UNCHANGED faults
     \/ req[r].hc \in {"saving", "destroying", "regenerating"} /\ Fault
  /\ req' = [req EXCEPT ![r].hc = "idle"]
  /\ UNCHANGED <<options, minted, calls>> /\ StoreUnchanged

\* The handler sends the response.
Sends(r) ==
  /\ req[r].pc = "handler" /\ req[r].hc = "run" /\ ~req[r].sent
  /\ req' = [req EXCEPT ![r].sent = TRUE]
  /\ UNCHANGED <<options, minted, calls, faults>> /\ StoreUnchanged

-----------------------------------------------------------------------------
(* The hooks at the end.                                                     *)

\* Mutant of Skips: a destroyed session is persisted like any other.
SkipsPersisted(s) == s.persisted

Skips(s) == s.destroyed \/ s.persisted

\* What persist() asks of the store.
Asks(s) ==
  CASE Skips(s) -> "nothing"
    [] ~Skips(s) /\ (s.dirty \/ (s.isNew /\ options.saveUninitialized)) -> "set"
    [] ~Skips(s) /\ ~s.dirty /\ ~s.isNew /\ (s.touched \/ options.rolling) -> "touch"
    [] OTHER -> "nothing"

\* persist() of s by the hook of a phase, up to its await. The store may
\* fail; its touch() changes no record.
Persist(r, phase, s) ==
  LET t == [s EXCEPT !.pc = phase, !.persisted = @ \/ ~Skips(s)] IN
  /\ \/ /\ req' = [req EXCEPT ![r] = [t EXCEPT !.awaits = Asks(s)]]
        /\ IF Asks(s) = "set" THEN Set(r, s) ELSE StoreUnchanged
        /\ UNCHANGED faults
     \/ /\ req' = [req EXCEPT ![r] = [t EXCEPT !.awaits = "failure"]]
        /\ Asks(s) # "nothing" /\ Fault
        /\ StoreUnchanged
  /\ UNCHANGED <<options, minted, calls>>

\* persist() after its await.
Persisted(s) ==
  CASE s.awaits = "set" -> [s EXCEPT !.dirty = FALSE, !.isNew = FALSE]
    [] s.awaits = "touch" -> [s EXCEPT !.touched = FALSE]
    [] OTHER -> s

\* The handler returns.
Returns(r) ==
  /\ req[r].pc = "handler" /\ req[r].hc = "run"
  /\ Persist(r, "post", [req[r] EXCEPT !.hc = "idle"])

\* It has thrown, or there is no route: the error is sent, and onPostHandler
\* does not run.
Throws(r) ==
  /\ req[r].pc = "handler" /\ req[r].hc \in {"run", "idle"}
  /\ Persist(r, "close", [req[r] EXCEPT !.hc = "idle", !.sent = TRUE])

\* It times out, and runs on.
TimesOut(r) ==
  /\ req[r].pc = "handler" /\ req[r].hc # "idle"
  /\ Persist(r, "close", [req[r] EXCEPT !.sent = TRUE])

\* onPostHandler is through, or has thrown; onClose begins.
PostDone(r) ==
  /\ req[r].pc = "post"
  /\ Persist(r, "close", Persisted(req[r]))

CloseDone(r) ==
  /\ req[r].pc = "close"
  /\ req' = [req EXCEPT ![r] = [Persisted(req[r]) EXCEPT
                                  !.pc = "done", !.awaits = "nothing"]]
  /\ UNCHANGED <<options, minted, calls, faults>> /\ StoreUnchanged

Next ==
  \/ \E r \in Requests :
       \/ \E given \in 0..minted : Attach(r, given)
       \/ Expire(r)
       \/ Write(r) \/ Touch(r) \/ Save(r) \/ DestroySession(r) \/ Regenerate(r)
       \/ Answered(r) \/ CallFails(r) \/ Sends(r)
       \/ Returns(r) \/ Throws(r) \/ TimesOut(r) \/ PostDone(r) \/ CloseDone(r)
  \/ \E id \in Ids : Ages(id)

Spec == Init /\ [][Next]_vars

-----------------------------------------------------------------------------
\* Logging out and regenerating are final: an id that was destroyed is in the
\* store again only if some other request held it when it was destroyed; then
\* it may be that one's doing. Where nobody else did, neither the request that
\* destroyed it, by whatever hook or handler that runs on, nor those that come
\* with it afterwards bring it back.
DeadStaysDead ==
  \A id \in Ids : store[id].there => killed[id] # {}

\* A request that is over, the store having answered all its calls.
Over(r) == req[r].pc = "done" /\ faults = 0 /\ ~req[r].destroyed

\* What a handler writes in time is written to the store once, whether it
\* saves in between, regenerates, touches, throws or times out: under the id
\* its session has in the end, unless it still runs on. Another request with
\* the same session may overwrite it later.
WritesKept ==
  \A r \in Requests :
    Over(r) /\ req[r].wrote =>
      saved[r] # 0 /\ (req[r].hc = "idle" => saved[r] = req[r].id)

\* No session is orphaned in silence: the id under which writes were saved is
\* the one the client has sent, or has got with the response, or the warning
\* was logged.
CookieNamesSession ==
  \A r \in Requests :
    Over(r) /\ saved[r] # 0 /\ req[r].hc = "idle" =>
      saved[r] \in {req[r].given, req[r].cookie} \/ req[r].warned

SessionsKept == WritesKept /\ CookieNamesSession
=============================================================================
