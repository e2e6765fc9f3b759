----------------------------- MODULE HttpServer -----------------------------
(* The life of requests in one server process, from the adapter that         *)
(* receives them (packages/native/src/index.ts for uWebSockets.js, http2.ts  *)
(* for node:http2) through the hooks and the pipeline of the dispatcher      *)
(* (packages/core/src/dispatcher.ts, lifecycle.ts, registry.ts) to the end   *)
(* of the response (response.ts), and the graceful shutdown of the process.  *)
(* One action is one callback of the event loop: what the code does between  *)
(* two awaits. Hooks, plugins and handlers are the application's: each may   *)
(* answer, start a stream, throw, return or take for ever.                   *)
EXTENDS Naturals, FiniteSets

CONSTANTS
  Requests       \* the requests a behaviour is about

VARIABLES
  adapter,       \* "uws" or "h2", the adapter in use
  pc,            \* what the code of a request is awaiting
  kind,          \* "plain", "schema" (a response schema) or "head" (a HEAD)
  sent,          \* res.headersSent
  writes,        \* responses begun on the connection
  aborted,       \* req.signal.aborted, and res.aborted
  timer,         \* the timer of requestTimeout is set
  detached,      \* the handler has timed out and runs on
  streaming,     \* res.isStreaming
  stream,        \* the body that is being streamed
  callback,      \* res.onStreamClose is set
  closes,        \* runs of the onClose hooks
  inflight,      \* adapter._inflight
  stage,         \* where drain() stands
  atSignal,      \* history: the requests in flight when drain() began
  exit           \* exit code of the process, 2 while it runs

response == <<sent, writes, timer>>
body     == <<streaming, stream>>
drain    == <<stage, atSignal, exit>>
vars == <<adapter, pc, kind, sent, writes, aborted, timer, detached, streaming,
          stream, callback, closes, inflight, stage, atSignal, exit>>

Kinds == {"plain", "schema", "head"}

\* Awaiting the hooks and steps that see the route's wrapper of the response.
InRoute == {"plugin", "handler", "onPostHandler"}

\* Awaiting a hook, the answer to a request without a route, or such a step.
InHooks == InRoute \cup {"onRequest", "noRoute", "onPreHandler", "onError"}

InFlight == {r \in Requests : pc[r] \notin {"none", "done"}}

TypeOK ==
  /\ adapter \in {"uws", "h2"}
  /\ pc \in [Requests -> InHooks \cup {"none", "body", "onClose", "done"}]
  /\ kind \in [Requests -> Kinds]
  /\ {sent, aborted, timer, detached, streaming, callback}
       \subseteq [Requests -> BOOLEAN]
  /\ writes \in [Requests -> Nat] /\ closes \in [Requests -> Nat]
  /\ stream \in [Requests -> {"none", "open", "sse", "closed", "cut"}]
  /\ inflight \in Nat
  /\ stage \in {"serving", "waiting", "bridges", "onShutdown"}
  /\ atSignal \subseteq Requests
  /\ exit \in 0..2

Init ==
  /\ adapter \in {"uws", "h2"}
  /\ pc = [r \in Requests |-> "none"]
  /\ kind = [r \in Requests |-> "plain"]
  /\ sent = [r \in Requests |-> FALSE]
  /\ writes = [r \in Requests |-> 0]
  /\ aborted = [r \in Requests |-> FALSE]
  /\ timer = [r \in Requests |-> FALSE]
  /\ detached = [r \in Requests |-> FALSE]
  /\ streaming = [r \in Requests |-> FALSE]
  /\ stream = [r \in Requests |-> "none"]
  /\ callback = [r \in Requests |-> FALSE]
  /\ closes = [r \in Requests |-> 0]
  /\ inflight = 0
  /\ stage = "serving" /\ atSignal = {} /\ exit = 2

-----------------------------------------------------------------------------
(* The adapter.                                                              *)

\* Mutant of Finish: any request that ends wakes drain().
FinishEarly(r) ==
  /\ pc' = [pc EXCEPT ![r] = "done"]
  /\ inflight' = inflight - 1
  /\ stage' = IF stage = "waiting" THEN "bridges" ELSE stage
  /\ UNCHANGED <<atSignal, exit>>

\* The promise of a request has settled: finally() counts down, and the last
\* request wakes drain(), which goes on in the same turn of the event loop.
Finish(r) ==
  /\ pc' = [pc EXCEPT ![r] = "done"]
  /\ inflight' = inflight - 1
  /\ stage' = IF inflight = 1 /\ stage = "waiting" THEN "bridges" ELSE stage
  /\ UNCHANGED <<atSignal, exit>>

\* A request comes in, with a body to be read or without. Connections that
\* were accepted go on serving when the listen socket is closed.
Arrive(r, k, hasBody) ==
  /\ pc[r] = "none"
  /\ kind' = [kind EXCEPT ![r] = k]
  /\ pc' = [pc EXCEPT ![r] = IF hasBody THEN "body" ELSE "onRequest"]
  /\ timer' = [timer EXCEPT ![r] = TRUE]
  /\ inflight' = inflight + 1
  /\ UNCHANGED <<adapter, sent, writes, aborted, detached, body, callback,
                 closes, drain>>

\* The whole body is there; if the timer has answered meanwhile, nothing is
\* dispatched.
BodyRead(r) ==
  /\ pc[r] = "body"
  /\ \/ aborted[r] /\ Finish(r) /\ timer' = [timer EXCEPT ![r] = FALSE]
     \/ /\ ~aborted[r]
        /\ pc' = [pc EXCEPT ![r] = "onRequest"]
        /\ UNCHANGED <<inflight, timer, drain>>
  /\ UNCHANGED <<adapter, kind, sent, writes, aborted, detached, body,
                 callback, closes>>

\* Mutant of BodyTooLarge: answers 413 to a request that was answered 504.
BodyTooLargeAnyway(r) ==
  /\ pc[r] = "body"
  /\ writes' = [writes EXCEPT ![r] = @ + 1]
  /\ Finish(r)
  /\ timer' = [timer EXCEPT ![r] = FALSE]
  /\ UNCHANGED <<adapter, kind, sent, aborted, detached, body, callback, closes>>

\* More than maxBodySize has come in: 413 past the response object, unless
\* the timer has answered.
BodyTooLarge(r) ==
  /\ pc[r] = "body"
  /\ writes' = [writes EXCEPT ![r] = IF aborted[r] THEN @ ELSE @ + 1]
  /\ Finish(r)
  /\ timer' = [timer EXCEPT ![r] = FALSE]
  /\ UNCHANGED <<adapter, kind, sent, aborted, detached, body, callback, closes>>

\* requestTimeout has passed on uWS: 504 through sendRaw().
TimeoutUws(r) ==
  /\ adapter = "uws"
  /\ timer[r] /\ ~aborted[r] /\ ~sent[r]
  /\ aborted' = [aborted EXCEPT ![r] = TRUE]
  /\ sent' = [sent EXCEPT ![r] = TRUE]
  /\ writes' = [writes EXCEPT ![r] = @ + 1]
  /\ timer' = [timer EXCEPT ![r] = FALSE]
  /\ UNCHANGED <<adapter, pc, kind, detached, body, callback, closes, inflight,
                 drain>>

\* The same on HTTP/2: 504 past the response object, headersSent stays false.
TimeoutH2(r) ==
  /\ adapter = "h2"
  /\ timer[r] /\ ~aborted[r] /\ ~sent[r]
  /\ aborted' = [aborted EXCEPT ![r] = TRUE]
  /\ writes' = [writes EXCEPT ![r] = @ + 1]
  /\ timer' = [timer EXCEPT ![r] = FALSE]
  /\ UNCHANGED <<adapter, pc, kind, sent, detached, body, callback, closes,
                 inflight, drain>>

\* The client is gone before its response was ended. A body that is being
\* read settles; an SSE response is closed, and its onClose hooks run.
ClientAborts(r) ==
  /\ pc[r] # "none" /\ ~aborted[r]
  /\ writes[r] = 0 \/ stream[r] \in {"open", "sse"}
  /\ aborted' = [aborted EXCEPT ![r] = TRUE]
  /\ timer' = [timer EXCEPT ![r] = FALSE]
  /\ stream' = [stream EXCEPT ![r] = IF @ = "sse" THEN "closed" ELSE @]
  /\ closes' = [closes EXCEPT
                  ![r] = IF stream[r] = "sse" /\ callback[r] THEN @ + 1 ELSE @]
  /\ IF pc[r] = "body" THEN Finish(r) ELSE UNCHANGED <<pc, inflight, drain>>
  /\ UNCHANGED <<adapter, kind, sent, writes, detached, streaming, callback>>

-----------------------------------------------------------------------------
(* The response.                                                             *)

\* What send(), sendRaw(), stream() and sseInit() do first: headersSent is
\* set and the timer of requestTimeout cleared.
Commit(r) ==
  /\ ~sent[r] /\ ~aborted[r]
  /\ sent' = [sent EXCEPT ![r] = TRUE]
  /\ timer' = [timer EXCEPT ![r] = FALSE]

\* Then the payload is serialized, and only then a response written: nothing
\* after the first, nothing after an abort.
Respond(r) ==
  \/ (sent[r] \/ aborted[r]) /\ UNCHANGED response
  \/ Commit(r) /\ writes' = [writes EXCEPT ![r] = @ + 1]

\* serialize() or JSON.stringify() has thrown, or node:http2 has refused the
\* head: nothing was written.
RespondThrows(r) == Commit(r) /\ UNCHANGED writes

\* Hooks, steps of the pipeline and handlers that run on may answer.
UserSends(r) ==
  /\ pc[r] \in InHooks \/ detached[r]
  /\ Respond(r)
  /\ UNCHANGED <<adapter, pc, kind, aborted, detached, body, callback, closes,
                 inflight, drain>>

\* The exception is the caller's, who may throw it on; a stream() that fails
\* on HTTP/2 has already set isStreaming.
UserSendThrows(r) ==
  /\ pc[r] \in InHooks \/ detached[r]
  /\ RespondThrows(r)
  /\ \/ UNCHANGED streaming
     \/ adapter = "h2" /\ streaming' = [streaming EXCEPT ![r] = TRUE]
  /\ UNCHANGED <<adapter, pc, kind, aborted, detached, stream, callback, closes,
                 inflight, drain>>

\* The route's steps get a wrapper when there is a schema or no body may be
\* sent; it sets isStreaming before it knows whether there will be a stream.
Wrapped(r) == kind[r] # "plain" /\ (pc[r] \in InRoute \/ detached[r])

\* stream(): uWS ends the answer to a HEAD at once and destroys the source.
UserStreams(r, wrapped) ==
  /\ pc[r] \in InHooks \/ detached[r]
  /\ IF wrapped THEN Wrapped(r)
     ELSE kind[r] = "plain" \/ pc[r] \in InHooks \ InRoute
  /\ LET runs    == ~sent[r] /\ ~aborted[r]
         without == adapter = "uws" /\ kind[r] = "head"
     IN  /\ streaming' = [streaming EXCEPT
                            ![r] = @ \/ wrapped \/ (runs /\ ~without)]
         /\ stream' = [stream EXCEPT
                         ![r] = IF ~runs THEN @
                                ELSE IF without THEN "cut" ELSE "open"]
  /\ Respond(r)
  /\ UNCHANGED <<adapter, pc, kind, aborted, detached, callback, closes,
                 inflight, drain>>

\* sseInit(), called by sseSend() too: open until the client leaves.
UserStartsSse(r) ==
  /\ pc[r] \in InHooks \/ detached[r]
  /\ ~sent[r] /\ ~aborted[r]
  /\ streaming' = [streaming EXCEPT ![r] = TRUE]
  /\ stream' = [stream EXCEPT ![r] = "sse"]
  /\ Respond(r)
  /\ UNCHANGED <<adapter, pc, kind, aborted, detached, callback, closes,
                 inflight, drain>>

\* sseSend() of more than a slow client takes: the response is ended, and
\* nobody hears of it.
SseOverflows(r) ==
  /\ stream[r] = "sse"
  /\ stream' = [stream EXCEPT ![r] = "cut"]
  /\ UNCHANGED <<adapter, pc, kind, response, aborted, detached, streaming,
                 callback, closes, inflight, drain>>

\* The source has emitted 'close': at its end, on an error, or destroyed.
StreamCloses(r) ==
  /\ stream[r] = "open"
  /\ stream' = [stream EXCEPT ![r] = "closed"]
  /\ closes' = [closes EXCEPT ![r] = IF callback[r] THEN @ + 1 ELSE @]
  /\ UNCHANGED <<adapter, pc, kind, response, aborted, detached, streaming,
                 callback, inflight, drain>>

-----------------------------------------------------------------------------
(* The dispatcher.                                                           *)

\* Mutant of Finally: runs the hooks at once and at the end of a stream.
FinallyTwice(r) ==
  /\ pc' = [pc EXCEPT ![r] = "onClose"]
  /\ closes' = [closes EXCEPT ![r] = @ + 1]
  /\ callback' = [callback EXCEPT ![r] = streaming[r]]
  /\ UNCHANGED <<inflight, drain>>

\* The finally block: the onClose hooks run now, or at the end of the stream,
\* for which nobody waits.
Finally(r) ==
  IF streaming[r]
  THEN /\ callback' = [callback EXCEPT ![r] = TRUE]
       /\ Finish(r)
       /\ UNCHANGED closes
  ELSE /\ pc' = [pc EXCEPT ![r] = "onClose"]
       /\ closes' = [closes EXCEPT ![r] = @ + 1]
       /\ UNCHANGED <<callback, inflight, drain>>

\* The request goes on with its next phase.
Goto(r, phase) ==
  /\ pc' = [pc EXCEPT ![r] = phase]
  /\ UNCHANGED <<callback, closes, inflight, drain>>

Untouched == UNCHANGED <<adapter, kind, aborted, body>>

\* The onRequest hooks are through; one of them may have answered.
OnRequestDone(r) ==
  /\ pc[r] = "onRequest"
  /\ IF sent[r] THEN Finally(r) ELSE Goto(r, "onPreHandler")
  /\ UNCHANGED <<response, detached>> /\ Untouched

\* HTTP/2 routes in handle(): without a route, or one with this method, it
\* awaits a handler, the default one (404, 405) or the application's.
NoRoute(r) ==
  /\ adapter = "h2" /\ pc[r] = "onRequest" /\ ~sent[r]
  /\ Goto(r, "noRoute")
  /\ UNCHANGED <<response, detached>> /\ Untouched

NoRouteDone(r) ==
  /\ pc[r] = "noRoute"
  /\ Finally(r)
  /\ UNCHANGED <<response, detached>> /\ Untouched

\* An aborted request skips the pipeline, not the hooks after it.
OnPreHandlerDone(r) ==
  /\ pc[r] = "onPreHandler"
  /\ IF sent[r] THEN Finally(r)
     ELSE Goto(r, IF aborted[r] THEN "onPostHandler" ELSE "plugin")
  /\ UNCHANGED <<response, detached>> /\ Untouched

\* A step of the pipeline before the handler: a plugin, or the validation.
PluginDone(r) ==
  /\ pc[r] = "plugin"
  /\ Goto(r, IF sent[r] \/ aborted[r] THEN "onPostHandler" ELSE "handler")
  /\ UNCHANGED <<response, detached>> /\ Untouched

HandlerDone(r) ==
  /\ pc[r] = "handler"
  /\ Goto(r, "onPostHandler")
  /\ UNCHANGED <<response, detached>> /\ Untouched

\* The timeout of the route: Promise.race rejects, the handler runs on.
HandlerTimesOut(r) ==
  /\ pc[r] = "handler"
  /\ Goto(r, "onError")
  /\ detached' = [detached EXCEPT ![r] = TRUE]
  /\ UNCHANGED response /\ Untouched

\* A handler that nobody waits for comes to its end.
DetachedEnds(r) ==
  /\ detached[r]
  /\ detached' = [detached EXCEPT ![r] = FALSE]
  /\ UNCHANGED <<adapter, pc, kind, response, aborted, body, callback, closes,
                 inflight, drain>>

OnPostHandlerDone(r) ==
  /\ pc[r] = "onPostHandler"
  /\ Finally(r)
  /\ UNCHANGED <<response, detached>> /\ Untouched

\* A hook, a step or the handler throws; onError and onClose hooks that throw
\* are logged.
Throws(r) ==
  /\ pc[r] \in InHooks \ {"onError"}
  /\ Goto(r, "onError")
  /\ UNCHANGED <<response, detached>> /\ Untouched

\* handleError(): after the hooks an answer, unless headersSent says there was
\* one. If this answer throws, the adapter's catch finds headersSent set.
OnErrorDone(r) ==
  /\ pc[r] = "onError"
  /\ Respond(r) \/ RespondThrows(r)
  /\ Finally(r)
  /\ UNCHANGED detached /\ Untouched

OnCloseDone(r) ==
  /\ pc[r] = "onClose"
  /\ Finish(r)
  /\ timer' = [timer EXCEPT ![r] = FALSE]
  /\ UNCHANGED <<sent, writes, callback, closes, detached>> /\ Untouched

-----------------------------------------------------------------------------
(* Graceful shutdown.                                                        *)

StillServing == UNCHANGED <<adapter, pc, kind, response, aborted, detached,
                            body, callback, closes, inflight>>

\* SIGTERM or SIGINT: the listen socket is closed, the force timer set, and
\* drain() waits unless nothing is in flight. Later signals are ignored.
Signal ==
  /\ stage = "serving"
  /\ stage' = IF inflight = 0 THEN "bridges" ELSE "waiting"
  /\ atSignal' = InFlight
  /\ UNCHANGED exit /\ StillServing

\* Callbacks registered by plugins come before onShutdown; those that throw
\* are logged. HTTP/2 has none.
BridgesDone ==
  /\ stage = "bridges"
  /\ stage' = "onShutdown"
  /\ UNCHANGED <<atSignal, exit>> /\ StillServing

OnShutdownDone ==
  /\ stage = "onShutdown"
  /\ \E code \in {0, 1} : exit' = code
  /\ UNCHANGED <<stage, atSignal>> /\ StillServing

\* timeoutMs has passed; the timer is cleared only by the exit.
ForceExit ==
  /\ stage # "serving"
  /\ exit' = 1
  /\ UNCHANGED <<stage, atSignal>> /\ StillServing

-----------------------------------------------------------------------------
RequestStep(r) ==
  \/ \E k \in Kinds, b \in BOOLEAN : Arrive(r, k, b)
  \/ BodyRead(r) \/ BodyTooLarge(r)
  \/ TimeoutUws(r) \/ TimeoutH2(r) \/ ClientAborts(r)
  \/ UserSends(r) \/ UserSendThrows(r)
  \/ (\E wrapped \in BOOLEAN : UserStreams(r, wrapped))
  \/ UserStartsSse(r) \/ SseOverflows(r) \/ StreamCloses(r)
  \/ OnRequestDone(r) \/ NoRoute(r) \/ NoRouteDone(r)
  \/ OnPreHandlerDone(r) \/ PluginDone(r)
  \/ HandlerDone(r) \/ HandlerTimesOut(r) \/ DetachedEnds(r)
  \/ OnPostHandlerDone(r) \/ Throws(r) \/ OnErrorDone(r) \/ OnCloseDone(r)

Shutdown == Signal \/ BridgesDone \/ OnShutdownDone \/ ForceExit

Next == exit = 2 /\ ((\E r \in Requests : RequestStep(r)) \/ Shutdown)

Spec == Init /\ [][Next]_vars

-----------------------------------------------------------------------------
\* Several parties may answer a request: hooks, the handler, a handler that
\* has timed out, the error path, the timer and the size limit. At most one
\* of them does: no connection carries two responses.
OneResponse == \A r \in Requests : writes[r] <= 1

\* requestTimeout is documented to answer with 504 when no headers are sent in
\* time: while a request has neither an answer nor been given up by its
\* client, the timer is there to see to it.
TimeoutArmed ==
  \A r \in InFlight : timer[r] \/ writes[r] = 1 \/ aborted[r]

\* The onClose hooks run at most once, whoever ends the request, and never
\* while its body is still being streamed: they may release what it needs.
CloseHooksOnce ==
  \A r \in Requests :
    /\ closes[r] <= 1
    /\ closes[r] = 1 => stream[r] # "open"

\* What plugins and the application close on shutdown is used by no request
\* that was in flight when the signal came, and drain() sleeps only while
\* there is a request that will wake it.
DrainedBeforeShutdown ==
  /\ inflight = Cardinality(InFlight)
  /\ stage = "waiting" => inflight > 0
  /\ stage \in {"bridges", "onShutdown"} => atSignal \cap InFlight = {}
=============================================================================
