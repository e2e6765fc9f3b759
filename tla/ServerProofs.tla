---------------------------- MODULE ServerProofs ----------------------------
(* One response, onClose hooks once and the drain, for any requests; and the *)
(* places of a cluster, for any workers, restarts and failures.              *)
EXTENDS HttpServer, Cluster, FiniteSetTheorems, SequenceTheorems, TLAPS

Phases == InHooks \cup {"none", "body", "onClose", "done"}

\* The state of one request is well typed.
RequestTyped ==
  /\ pc \in [Requests -> Phases]
  /\ kind \in [Requests -> Kinds]
  /\ sent \in [Requests -> BOOLEAN] /\ aborted \in [Requests -> BOOLEAN]
  /\ timer \in [Requests -> BOOLEAN] /\ detached \in [Requests -> BOOLEAN]
  /\ streaming \in [Requests -> BOOLEAN] /\ callback \in [Requests -> BOOLEAN]
  /\ writes \in [Requests -> Nat] /\ closes \in [Requests -> Nat]
  /\ stream \in [Requests -> {"none", "open", "sse", "closed", "cut"}]

\* Who has answered. A response that headersSent does not know of was written
\* past it, by the timer of HTTP/2, which sets aborted, or by the size limit,
\* after which nothing of the request is left.
AnswerInv(r) ==
  /\ writes[r] \in {0, 1}
  /\ \/ writes[r] = 0 \/ sent[r] \/ aborted[r]
     \/ pc[r] = "done" /\ ~detached[r] /\ ~timer[r]
  /\ pc[r] = "none" =>
       writes[r] = 0 /\ ~sent[r] /\ ~aborted[r] /\ ~timer[r]
  /\ pc[r] = "body" => (sent[r] => aborted[r])
  /\ detached[r] => pc[r] \in {"onError", "onClose", "done"}
  /\ detached[r] /\ pc[r] # "onError" => sent[r] \/ aborted[r]

\* Who runs the onClose hooks: the dispatcher, or the end of a stream that
\* was begun before.
CloseInv(r) ==
  /\ closes[r] \in {0, 1}
  /\ closes[r] = 1 => stream[r] # "open"
  /\ pc[r] \notin {"onClose", "done"} => closes[r] = 0 /\ ~callback[r]
  /\ callback[r] => pc[r] = "done"
  /\ callback[r] /\ stream[r] \in {"open", "sse"} => closes[r] = 0
  /\ stream[r] \in {"open", "sse"} => streaming[r] /\ sent[r]

RequestInv(r) == AnswerInv(r) /\ CloseInv(r)

ServerInv == RequestTyped /\ \A r \in Requests : RequestInv(r)

-----------------------------------------------------------------------------
LEMMA ServerInit == Init => ServerInv
BY DEF Init, ServerInv, RequestTyped, RequestInv, AnswerInv, CloseInv, Phases,
       Kinds

\* The requests of a process share no part of their state but the count.
Alone(r) ==
  \A q \in Requests \ {r} :
    /\ pc'[q] = pc[q] /\ sent'[q] = sent[q] /\ writes'[q] = writes[q]
    /\ aborted'[q] = aborted[q] /\ timer'[q] = timer[q]
    /\ detached'[q] = detached[q] /\ streaming'[q] = streaming[q]
    /\ stream'[q] = stream[q] /\ callback'[q] = callback[q]
    /\ closes'[q] = closes[q]

LEMMA AloneKeeps ==
  ASSUME ServerInv, RequestTyped', NEW r \in Requests, Alone(r), RequestInv(r)'
  PROVE  ServerInv'
<1> SUFFICES ASSUME NEW q \in Requests, q # r PROVE RequestInv(q)'
  BY DEF ServerInv
<1>1. RequestInv(q)
  BY DEF ServerInv
<1> QED BY <1>1 DEF Alone, RequestInv, AnswerInv, CloseInv

\* send() and the finally block, where most phases end, keep the types.
LEMMA RespondTyped ==
  ASSUME RequestTyped, NEW r \in Requests, Respond(r)
  PROVE  /\ sent' \in [Requests -> BOOLEAN]
         /\ timer' \in [Requests -> BOOLEAN]
         /\ writes' \in [Requests -> Nat]
<1>1. CASE UNCHANGED response
  BY <1>1 DEF RequestTyped, response
<1>2. CASE Commit(r) /\ writes' = [writes EXCEPT ![r] = @ + 1]
  <2>1. /\ sent' = [sent EXCEPT ![r] = TRUE]
        /\ writes' = [writes EXCEPT ![r] = @ + 1]
        /\ timer' = [timer EXCEPT ![r] = FALSE]
    BY <1>2, Zenon DEF Commit
  <2>2. sent' \in [Requests -> BOOLEAN] /\ timer' \in [Requests -> BOOLEAN]
    BY <2>1 DEF RequestTyped
  <2>3. writes' \in [Requests -> Nat]
    BY <2>1 DEF RequestTyped
  <2> QED BY <2>2, <2>3
<1> QED BY <1>1, <1>2 DEF Respond

LEMMA RespondThrowsTyped ==
  ASSUME RequestTyped, NEW r \in Requests, RespondThrows(r)
  PROVE  /\ sent' \in [Requests -> BOOLEAN]
         /\ timer' \in [Requests -> BOOLEAN]
         /\ writes' \in [Requests -> Nat]
BY DEF RespondThrows, Commit, RequestTyped

LEMMA FinallyTyped ==
  ASSUME RequestTyped, NEW r \in Requests, Finally(r)
  PROVE  /\ pc' \in [Requests -> Phases]
         /\ callback' \in [Requests -> BOOLEAN]
         /\ closes' \in [Requests -> Nat]
<1>1. CASE streaming[r]
  BY <1>1 DEF Finally, Finish, RequestTyped, Phases
<1>2. CASE ~streaming[r]
  BY <1>2 DEF Finally, RequestTyped, Phases
<1> QED BY <1>1, <1>2

LEMMA StepTyped ==
  ASSUME ServerInv, NEW r \in Requests, RequestStep(r)
  PROVE  RequestTyped'
<1> USE DEF ServerInv, RequestTyped, Phases, InHooks, InRoute, response, body,
            drain
<1>1. CASE \E k \in Kinds, b \in BOOLEAN : Arrive(r, k, b)
  BY <1>1 DEF Arrive
<1>2. CASE BodyRead(r)
  BY <1>2 DEF BodyRead, Finish
<1>3. CASE BodyTooLarge(r)
  BY <1>3 DEF BodyTooLarge, Finish
<1>4. CASE TimeoutUws(r)
  BY <1>4 DEF TimeoutUws
<1>5. CASE TimeoutH2(r)
  BY <1>5 DEF TimeoutH2
<1>6. CASE ClientAborts(r)
  BY <1>6 DEF ClientAborts, Finish
<1>7. CASE UserSends(r)
  BY <1>7, RespondTyped DEF UserSends
<1>8. ASSUME NEW w \in BOOLEAN, UserStreams(r, w) PROVE RequestTyped'
  <2>1. /\ streaming' \in [Requests -> BOOLEAN]
        /\ stream' \in [Requests -> {"none", "open", "sse", "closed", "cut"}]
    BY <1>8 DEF UserStreams
  <2> QED BY <1>8, <2>1, RespondTyped DEF UserStreams
<1>9. CASE UserStartsSse(r)
  BY <1>9, RespondTyped DEF UserStartsSse
<1>10. CASE SseOverflows(r)
  BY <1>10 DEF SseOverflows
<1>11. CASE StreamCloses(r)
  BY <1>11 DEF StreamCloses
<1>12. CASE OnRequestDone(r)
  <2>1. CASE sent[r]
    BY <1>12, <2>1, FinallyTyped DEF OnRequestDone, Untouched
  <2>2. CASE ~sent[r]
    BY <1>12, <2>2 DEF OnRequestDone, Goto, Untouched
  <2> QED BY <2>1, <2>2
<1>13. CASE NoRoute(r)
  BY <1>13 DEF NoRoute, Goto, Untouched
<1>14. CASE OnPreHandlerDone(r)
  <2>1. CASE sent[r]
    BY <1>14, <2>1, FinallyTyped DEF OnPreHandlerDone, Untouched
  <2>2. CASE ~sent[r]
    BY <1>14, <2>2 DEF OnPreHandlerDone, Goto, Untouched
  <2> QED BY <2>1, <2>2
<1>15. CASE PluginDone(r)
  BY <1>15 DEF PluginDone, Goto, Untouched
<1>16. CASE HandlerDone(r)
  BY <1>16 DEF HandlerDone, Goto, Untouched
<1>17. CASE HandlerTimesOut(r)
  BY <1>17 DEF HandlerTimesOut, Goto, Untouched
<1>18. CASE DetachedEnds(r)
  BY <1>18 DEF DetachedEnds
<1>19. CASE OnPostHandlerDone(r)
  BY <1>19, FinallyTyped DEF OnPostHandlerDone, Untouched
<1>20. CASE Throws(r)
  BY <1>20 DEF Throws, Goto, Untouched
<1>21. CASE OnErrorDone(r)
  BY <1>21, RespondTyped, RespondThrowsTyped, FinallyTyped
  DEF OnErrorDone, Untouched
<1>22. CASE OnCloseDone(r)
  BY <1>22 DEF OnCloseDone, Finish, Untouched
<1>23. CASE UserSendThrows(r)
  BY <1>23, RespondThrowsTyped DEF UserSendThrows
<1>24. CASE NoRouteDone(r)
  BY <1>24, FinallyTyped DEF NoRouteDone, Untouched
<1> QED BY <1>1, <1>2, <1>3, <1>4, <1>5, <1>6, <1>7, <1>8, <1>9, <1>10,
           <1>11, <1>12, <1>13, <1>14, <1>15, <1>16, <1>17, <1>18, <1>19,
           <1>20, <1>21, <1>22, <1>23, <1>24
           DEF RequestStep

LEMMA StepAlone ==
  ASSUME ServerInv, NEW r \in Requests, RequestStep(r)
  PROVE  Alone(r)
<1> USE DEF ServerInv, RequestTyped, Alone, response, body, drain
<1>1. CASE \E k \in Kinds, b \in BOOLEAN : Arrive(r, k, b)
  BY <1>1 DEF Arrive
<1>2. CASE BodyRead(r)
  BY <1>2 DEF BodyRead, Finish
<1>3. CASE BodyTooLarge(r)
  BY <1>3 DEF BodyTooLarge, Finish
<1>4. CASE TimeoutUws(r)
  BY <1>4 DEF TimeoutUws
<1>5. CASE TimeoutH2(r)
  BY <1>5 DEF TimeoutH2
<1>6. CASE ClientAborts(r)
  BY <1>6 DEF ClientAborts, Finish
<1>7. CASE UserSends(r)
  BY <1>7 DEF UserSends, Respond, Commit
<1>8. ASSUME NEW w \in BOOLEAN, UserStreams(r, w) PROVE Alone(r)
  BY <1>8 DEF UserStreams, Respond, Commit
<1>9. CASE UserStartsSse(r)
  BY <1>9 DEF UserStartsSse, Respond, Commit
<1>10. CASE SseOverflows(r)
  BY <1>10 DEF SseOverflows
<1>11. CASE StreamCloses(r)
  BY <1>11 DEF StreamCloses
<1>12. CASE OnRequestDone(r)
  BY <1>12 DEF OnRequestDone, Finally, Finish, Goto, Untouched
<1>13. CASE NoRoute(r)
  BY <1>13 DEF NoRoute, Goto, Untouched
<1>14. CASE OnPreHandlerDone(r)
  BY <1>14 DEF OnPreHandlerDone, Finally, Finish, Goto, Untouched
<1>15. CASE PluginDone(r)
  BY <1>15 DEF PluginDone, Goto, Untouched
<1>16. CASE HandlerDone(r)
  BY <1>16 DEF HandlerDone, Goto, Untouched
<1>17. CASE HandlerTimesOut(r)
  BY <1>17 DEF HandlerTimesOut, Goto, Untouched
<1>18. CASE DetachedEnds(r)
  BY <1>18 DEF DetachedEnds
<1>19. CASE OnPostHandlerDone(r)
  BY <1>19 DEF OnPostHandlerDone, Finally, Finish, Untouched
<1>20. CASE Throws(r)
  BY <1>20 DEF Throws, Goto, Untouched
<1>21. CASE OnErrorDone(r)
  BY <1>21 DEF OnErrorDone, Finally, Finish, Untouched, Respond,
               RespondThrows, Commit
<1>22. CASE OnCloseDone(r)
  BY <1>22 DEF OnCloseDone, Finish, Untouched
<1>23. CASE UserSendThrows(r)
  BY <1>23 DEF UserSendThrows, RespondThrows, Commit
<1>24. CASE NoRouteDone(r)
  BY <1>24 DEF NoRouteDone, Finally, Finish, Untouched
<1> QED BY <1>1, <1>2, <1>3, <1>4, <1>5, <1>6, <1>7, <1>8, <1>9, <1>10,
           <1>11, <1>12, <1>13, <1>14, <1>15, <1>16, <1>17, <1>18, <1>19,
           <1>20, <1>21, <1>22, <1>23, <1>24
           DEF RequestStep

LEMMA StepKeeps ==
  ASSUME ServerInv, NEW r \in Requests, RequestStep(r)
  PROVE  RequestInv(r)'
<1> USE DEF ServerInv, RequestTyped, RequestInv, AnswerInv, CloseInv, InHooks,
            InRoute, response, body, drain
<1>1. CASE \E k \in Kinds, b \in BOOLEAN : Arrive(r, k, b)
  BY <1>1 DEF Arrive
<1>2. CASE BodyRead(r)
  BY <1>2 DEF BodyRead, Finish
<1>3. CASE BodyTooLarge(r)
  BY <1>3 DEF BodyTooLarge, Finish
<1>4. CASE TimeoutUws(r)
  <2>1. writes[r] = 0 /\ pc[r] # "none"
    BY <1>4 DEF TimeoutUws
  <2> QED BY <1>4, <2>1 DEF TimeoutUws
<1>5. CASE TimeoutH2(r)
  <2>1. writes[r] = 0 /\ pc[r] # "none"
    BY <1>5 DEF TimeoutH2
  <2> QED BY <1>5, <2>1 DEF TimeoutH2
<1>6. CASE ClientAborts(r)
  BY <1>6 DEF ClientAborts, Finish
<1>7. CASE UserSends(r)
  BY <1>7 DEF UserSends, Respond, Commit
<1>8. ASSUME NEW w \in BOOLEAN, UserStreams(r, w) PROVE RequestInv(r)'
  <2>1. CASE sent[r] \/ aborted[r]
    BY <1>8, <2>1 DEF UserStreams, Respond, Commit
  <2>2. CASE ~sent[r] /\ ~aborted[r]
    <3>1. writes[r] = 0 /\ closes[r] = 0 /\ ~callback[r]
      BY <1>8, <2>2 DEF UserStreams
    <3>2. sent'[r] /\ writes'[r] = 1 /\ ~timer'[r]
      <4>1. /\ sent' = [sent EXCEPT ![r] = TRUE]
            /\ writes' = [writes EXCEPT ![r] = @ + 1]
            /\ timer' = [timer EXCEPT ![r] = FALSE]
        BY <1>8, <2>2 DEF UserStreams, Respond, Commit, response
      <4> QED BY <3>1, <4>1
    <3>3. /\ stream'[r] \in {"open", "cut"}
          /\ stream'[r] = "open" => streaming'[r]
      BY <1>8, <2>2 DEF UserStreams
    <3> QED BY <1>8, <2>2, <3>1, <3>2, <3>3 DEF UserStreams
  <2> QED BY <2>1, <2>2
<1>9. CASE UserStartsSse(r)
  BY <1>9 DEF UserStartsSse, Respond, Commit
<1>10. CASE SseOverflows(r)
  BY <1>10 DEF SseOverflows
<1>11. CASE StreamCloses(r)
  BY <1>11 DEF StreamCloses
<1>12. CASE OnRequestDone(r)
  BY <1>12 DEF OnRequestDone, Finally, Finish, Goto, Untouched
<1>13. CASE NoRoute(r)
  BY <1>13 DEF NoRoute, Goto, Untouched
<1>14. CASE OnPreHandlerDone(r)
  BY <1>14 DEF OnPreHandlerDone, Finally, Finish, Goto, Untouched
<1>15. CASE PluginDone(r)
  BY <1>15 DEF PluginDone, Goto, Untouched
<1>16. CASE HandlerDone(r)
  BY <1>16 DEF HandlerDone, Goto, Untouched
<1>17. CASE HandlerTimesOut(r)
  BY <1>17 DEF HandlerTimesOut, Goto, Untouched
<1>18. CASE DetachedEnds(r)
  BY <1>18 DEF DetachedEnds
<1>19. CASE OnPostHandlerDone(r)
  BY <1>19 DEF OnPostHandlerDone, Finally, Finish, Untouched
<1>20. CASE Throws(r)
  BY <1>20 DEF Throws, Goto, Untouched
<1>21. CASE OnErrorDone(r)
  BY <1>21 DEF OnErrorDone, Finally, Finish, Untouched, Respond,
               RespondThrows, Commit
<1>22. CASE OnCloseDone(r)
  BY <1>22 DEF OnCloseDone, Finish, Untouched
<1>23. CASE UserSendThrows(r)
  BY <1>23 DEF UserSendThrows, RespondThrows, Commit
<1>24. CASE NoRouteDone(r)
  BY <1>24 DEF NoRouteDone, Finally, Finish, Untouched
<1> QED BY <1>1, <1>2, <1>3, <1>4, <1>5, <1>6, <1>7, <1>8, <1>9, <1>10,
           <1>11, <1>12, <1>13, <1>14, <1>15, <1>16, <1>17, <1>18, <1>19,
           <1>20, <1>21, <1>22, <1>23, <1>24
           DEF RequestStep

LEMMA ServerNext == ServerInv /\ [Next]_vars => ServerInv'
<1> SUFFICES ASSUME ServerInv, [Next]_vars PROVE ServerInv'
  OBVIOUS
<1>1. CASE UNCHANGED <<pc, kind, sent, writes, aborted, timer, detached,
                       streaming, stream, callback, closes>>
  BY <1>1 DEF ServerInv, RequestTyped, RequestInv, AnswerInv, CloseInv
<1>2. ASSUME NEW r \in Requests, RequestStep(r) PROVE ServerInv'
  BY <1>2, StepTyped, StepAlone, StepKeeps, AloneKeeps
<1>3. CASE Shutdown
  BY <1>1, <1>3 DEF Shutdown, Signal, BridgesDone, OnShutdownDone, ForceExit,
                    StillServing, response, body
<1> QED BY <1>1, <1>2, <1>3 DEF Next, vars

\* However many parties try, a request of either adapter gets at most one
\* response.
THEOREM ServerAnswersOnce == Spec => []OneResponse
<1>1. ServerInv => OneResponse
  BY DEF ServerInv, RequestInv, AnswerInv, OneResponse
<1> QED BY <1>1, ServerInit, ServerNext, PTL DEF Spec

\* The onClose hooks of a request run at most once, be it from the finally
\* block or from the end of a stream, and under no open stream.
THEOREM ServerClosesOnce == Spec => []CloseHooksOnce
<1>1. ServerInv => CloseHooksOnce
  BY DEF ServerInv, RequestInv, CloseInv, CloseHooksOnce
<1> QED BY <1>1, ServerInit, ServerNext, PTL DEF Spec

-----------------------------------------------------------------------------
(* The drain.                                                                *)

Running(p) == p \notin {"none", "done"}

\* What a step does to the count: the request comes in, goes on or ends.
Enters(r) ==
  /\ pc[r] = "none" /\ Running(pc'[r])
  /\ inflight' = inflight + 1
  /\ UNCHANGED <<stage, atSignal>>

Moves(r) ==
  /\ pc'[r] = pc[r] \/ (Running(pc[r]) /\ Running(pc'[r]))
  /\ UNCHANGED <<inflight, stage, atSignal>>

Leaves(r) == Running(pc[r]) /\ Finish(r)

\* _inflight is the number of requests whose promise has not settled; those
\* of the time of the signal have arrived before it, and do so only once.
CountInv ==
  /\ IsFiniteSet(InFlight) /\ inflight = Cardinality(InFlight)
  /\ stage = "waiting" => inflight > 0
  /\ stage \in {"bridges", "onShutdown"} => atSignal \cap InFlight = {}
  /\ atSignal \subseteq {r \in Requests : pc[r] # "none"}

LEMMA StepCounts ==
  ASSUME ServerInv, NEW r \in Requests, RequestStep(r)
  PROVE  Enters(r) \/ Moves(r) \/ Leaves(r)
<1> USE DEF ServerInv, RequestTyped, Phases, InHooks, InRoute, Enters, Moves,
            Leaves, Running, drain
<1>1. CASE \E k \in Kinds, b \in BOOLEAN : Arrive(r, k, b)
  BY <1>1 DEF Arrive
<1>2. CASE BodyRead(r)
  BY <1>2 DEF BodyRead
<1>3. CASE BodyTooLarge(r)
  BY <1>3 DEF BodyTooLarge
<1>4. CASE TimeoutUws(r)
  BY <1>4 DEF TimeoutUws
<1>5. CASE TimeoutH2(r)
  BY <1>5 DEF TimeoutH2
<1>6. CASE ClientAborts(r)
  BY <1>6 DEF ClientAborts
<1>7. CASE UserSends(r)
  BY <1>7 DEF UserSends
<1>8. ASSUME NEW w \in BOOLEAN, UserStreams(r, w)
      PROVE  Enters(r) \/ Moves(r) \/ Leaves(r)
  BY <1>8 DEF UserStreams
<1>9. CASE UserStartsSse(r)
  BY <1>9 DEF UserStartsSse
<1>10. CASE SseOverflows(r)
  BY <1>10 DEF SseOverflows
<1>11. CASE StreamCloses(r)
  BY <1>11 DEF StreamCloses
<1>12. CASE OnRequestDone(r)
  BY <1>12 DEF OnRequestDone, Finally, Goto
<1>13. CASE NoRoute(r)
  BY <1>13 DEF NoRoute, Goto
<1>14. CASE OnPreHandlerDone(r)
  BY <1>14 DEF OnPreHandlerDone, Finally, Goto
<1>15. CASE PluginDone(r)
  BY <1>15 DEF PluginDone, Goto
<1>16. CASE HandlerDone(r)
  BY <1>16 DEF HandlerDone, Goto
<1>17. CASE HandlerTimesOut(r)
  BY <1>17 DEF HandlerTimesOut, Goto
<1>18. CASE DetachedEnds(r)
  BY <1>18 DEF DetachedEnds
<1>19. CASE OnPostHandlerDone(r)
  BY <1>19 DEF OnPostHandlerDone, Finally
<1>20. CASE Throws(r)
  BY <1>20 DEF Throws, Goto
<1>21. CASE OnErrorDone(r)
  BY <1>21 DEF OnErrorDone, Finally
<1>22. CASE OnCloseDone(r)
  BY <1>22 DEF OnCloseDone
<1>23. CASE UserSendThrows(r)
  BY <1>23 DEF UserSendThrows
<1>24. CASE NoRouteDone(r)
  BY <1>24 DEF NoRouteDone, Finally
<1> QED BY <1>1, <1>2, <1>3, <1>4, <1>5, <1>6, <1>7, <1>8, <1>9, <1>10,
           <1>11, <1>12, <1>13, <1>14, <1>15, <1>16, <1>17, <1>18, <1>19,
           <1>20, <1>21, <1>22, <1>23, <1>24
           DEF RequestStep

LEMMA EntersKeepsCount ==
  ASSUME RequestTyped, NEW r \in Requests, Alone(r), Enters(r), CountInv
  PROVE  CountInv'
<1>1. InFlight' = InFlight \cup {r} /\ r \notin InFlight
  BY DEF InFlight, Alone, Enters, Running
<1>2. /\ IsFiniteSet(InFlight')
      /\ Cardinality(InFlight') = Cardinality(InFlight) + 1
  BY <1>1, FS_AddElement DEF CountInv
<1>3. Cardinality(InFlight) \in Nat
  BY FS_CardinalityType DEF CountInv
<1>4. /\ atSignal' \subseteq {q \in Requests : pc'[q] # "none"}
      /\ r \notin atSignal
  BY DEF CountInv, Alone, Enters, Running
<1>5. stage' = "waiting" => inflight' > 0
  BY <1>3 DEF CountInv, Enters
<1>6. stage' \in {"bridges", "onShutdown"} => atSignal' \cap InFlight' = {}
  BY <1>1, <1>4 DEF CountInv, Enters
<1> QED BY <1>2, <1>4, <1>5, <1>6 DEF CountInv, Enters

LEMMA MovesKeepsCount ==
  ASSUME RequestTyped, NEW r \in Requests, Alone(r), Moves(r), CountInv
  PROVE  CountInv'
<1>1. InFlight' = InFlight
  BY DEF InFlight, Alone, Moves, Running
<1>2. atSignal' \subseteq {q \in Requests : pc'[q] # "none"}
  BY DEF CountInv, Alone, Moves, Running
<1> QED BY <1>1, <1>2 DEF CountInv, Moves

\* The request that brings the count to zero is the only one in flight.
LEMMA LeavesKeepsCount ==
  ASSUME RequestTyped, NEW r \in Requests, Alone(r), Leaves(r), CountInv
  PROVE  CountInv'
<1>1. InFlight' = InFlight \ {r} /\ r \in InFlight
  BY DEF InFlight, Alone, Leaves, Finish, Running, RequestTyped
<1>2. /\ IsFiniteSet(InFlight')
      /\ Cardinality(InFlight') = Cardinality(InFlight) - 1
  BY <1>1, FS_RemoveElement DEF CountInv
<1>3. Cardinality(InFlight) \in Nat /\ Cardinality(InFlight') \in Nat
  BY <1>2, FS_CardinalityType DEF CountInv
<1>4. inflight' = inflight - 1 /\ atSignal' = atSignal
  BY DEF Leaves, Finish
<1>5. atSignal' \subseteq {q \in Requests : pc'[q] # "none"}
  BY <1>4 DEF CountInv, Alone, Leaves, Finish, RequestTyped
<1>6. CASE inflight = 1 /\ stage = "waiting"
  <2>1. InFlight' = {}
    BY <1>2, <1>6, FS_EmptySet DEF CountInv
  <2>2. stage' = "bridges"
    BY <1>6 DEF Leaves, Finish
  <2> QED BY <1>2, <1>4, <1>5, <2>1, <2>2 DEF CountInv
<1>7. CASE ~(inflight = 1 /\ stage = "waiting")
  <2>1. stage' = stage
    BY <1>7 DEF Leaves, Finish
  <2>2. stage' = "waiting" => inflight' > 0
    BY <1>3, <1>4, <1>7, <2>1 DEF CountInv
  <2>3. stage' \in {"bridges", "onShutdown"} => atSignal' \cap InFlight' = {}
    BY <1>1, <1>4, <2>1 DEF CountInv
  <2> QED BY <1>2, <1>4, <1>5, <2>2, <2>3 DEF CountInv
<1> QED BY <1>6, <1>7

LEMMA ShutdownKeepsCount ==
  ASSUME CountInv, Shutdown
  PROVE  CountInv'
<1>1. InFlight' = InFlight /\ inflight' = inflight /\ pc' = pc
  BY DEF Shutdown, Signal, BridgesDone, OnShutdownDone, ForceExit,
         StillServing, InFlight
<1>2. CASE Signal
  <2>1. inflight \in Nat /\ (inflight = 0 => InFlight = {})
    BY FS_CardinalityType, FS_EmptySet DEF CountInv
  <2>2. InFlight \subseteq {r \in Requests : pc[r] # "none"}
    BY DEF InFlight
  <2> QED BY <1>1, <1>2, <2>1, <2>2 DEF Signal, CountInv
<1>3. CASE BridgesDone
  BY <1>1, <1>3 DEF BridgesDone, CountInv
<1>4. CASE OnShutdownDone \/ ForceExit
  BY <1>1, <1>4 DEF OnShutdownDone, ForceExit, CountInv
<1> QED BY <1>2, <1>3, <1>4 DEF Shutdown

LEMMA CountNext == ServerInv /\ CountInv /\ [Next]_vars => CountInv'
<1> SUFFICES ASSUME ServerInv, CountInv, [Next]_vars PROVE CountInv'
  OBVIOUS
<1>1. CASE UNCHANGED vars
  BY <1>1 DEF vars, CountInv, InFlight
<1>2. ASSUME NEW r \in Requests, RequestStep(r) PROVE CountInv'
  BY <1>2, StepAlone, StepCounts, EntersKeepsCount, MovesKeepsCount,
     LeavesKeepsCount DEF ServerInv
<1> QED BY <1>1, <1>2, ShutdownKeepsCount DEF Next

\* drain() sleeps only while a request is there that will wake it, and the
\* callbacks of plugins and onShutdown run under no request that was in
\* flight when the signal came.
THEOREM ServerDrains == Spec => []DrainedBeforeShutdown
<1>1. Init => CountInv
  BY FS_EmptySet DEF Init, CountInv, InFlight
<1>2. CountInv => DrainedBeforeShutdown
  BY DEF CountInv, DrainedBeforeShutdown
<1> QED BY <1>1, <1>2, ServerInit, ServerNext, CountNext, PTL DEF Spec

-----------------------------------------------------------------------------
(* The cluster.                                                              *)

\* A record whose worker fills a place.
Counts(rec) ==
  \/ rec.state = "READY" /\ rec.signal # "TERM"
  \/ rec.state = "STARTING" /\ rec.listener = NoListener

\* A replacement that was told to drain before it was ready: when it reports,
\* its listener takes away one more worker.
Owes(rec) ==
  rec.state = "DRAINING" /\ ~rec.reported /\ rec.listener[1] # 0

Counted == {w \in Workers : Counts(worker[w])}
Owing == {w \in Workers : Owes(worker[w])}

\* What the primary knows of a worker agrees with what the worker has sent.
Sound(rec) ==
  /\ rec.state = "STARTING" => rec.signal = "none"
  /\ rec.state = "READY" => rec.reported

Restart == [pids : Seq(Nat), next : Nat \ {0}]

ClusterTyped ==
  /\ target \in Nat /\ parallelism \in Nat \ {0}
  /\ worker \in Seq(Record) /\ timers \in Nat
  /\ restart \in Seq(Restart)
  /\ \A w \in Workers :
       worker[w].listener[1] \in 0..Len(restart) /\ Sound(worker[w])

\* A replacement that owes a worker was itself replaced by one that counts.
PlacesInv ==
  primary = "running" =>
    Cardinality(Counted) + timers >= target + Cardinality(Owing)

ClusterInv == ClusterTyped /\ PlacesInv

-----------------------------------------------------------------------------
(* Counting.                                                                 *)

LEMMA OneLess ==
  ASSUME NEW A, NEW B, NEW x, IsFiniteSet(A), IsFiniteSet(B),
         A \ {x} \subseteq B
  PROVE  Cardinality(A) <= Cardinality(B) + 1
<1>1. IsFiniteSet(A \ {x})
  BY FS_RemoveElement
<1>2. /\ Cardinality(A) \in Nat /\ Cardinality(A \ {x}) \in Nat
      /\ Cardinality(B) \in Nat
  BY <1>1, FS_CardinalityType
<1>3. \/ Cardinality(A \ {x}) = Cardinality(A) - 1
      \/ Cardinality(A \ {x}) = Cardinality(A)
  BY FS_RemoveElement
<1>4. Cardinality(A \ {x}) <= Cardinality(B)
  BY FS_Subset
<1> QED BY <1>2, <1>3, <1>4

LEMMA OneMore ==
  ASSUME NEW A, NEW B, NEW y, IsFiniteSet(A), IsFiniteSet(B),
         A \subseteq B, y \in B, y \notin A
  PROVE  Cardinality(A) + 1 <= Cardinality(B)
<1>1. IsFiniteSet(A \cup {y}) /\ Cardinality(A \cup {y}) = Cardinality(A) + 1
  BY FS_AddElement
<1>2. Cardinality(A \cup {y}) <= Cardinality(B)
  BY FS_Subset
<1> QED BY <1>1, <1>2

LEMMA OneForOne ==
  ASSUME NEW A, NEW B, NEW x, NEW y, IsFiniteSet(A), IsFiniteSet(B),
         A \ {x} \subseteq B, y \in B, y \notin A
  PROVE  Cardinality(A) <= Cardinality(B)
<1>1. IsFiniteSet(A \ {x})
  BY FS_RemoveElement
<1>2. Cardinality(A \ {x}) + 1 <= Cardinality(B)
  BY <1>1, OneMore
<1>3. Cardinality(A) <= Cardinality(A \ {x}) + 1
  BY <1>1, OneLess
<1>4. /\ Cardinality(A) \in Nat /\ Cardinality(A \ {x}) \in Nat
      /\ Cardinality(B) \in Nat
  BY <1>1, FS_CardinalityType
<1> QED BY <1>2, <1>3, <1>4

LEMMA AllFinite ==
  ASSUME worker \in Seq(Record)
  PROVE  /\ IsFiniteSet(Counted) /\ IsFiniteSet(Owing) /\ IsFiniteSet(Live)
         /\ Cardinality(Counted) \in Nat /\ Cardinality(Owing) \in Nat
         /\ Cardinality(Live) \in Nat
<1>1. Workers = 1..Len(worker) /\ Len(worker) \in Nat
  BY DEF Workers
<1>2. IsFiniteSet(Workers)
  BY <1>1, FS_Interval
<1>3. IsFiniteSet(Counted) /\ IsFiniteSet(Owing) /\ IsFiniteSet(Live)
  BY <1>2, FS_Subset DEF Counted, Owing, Live
<1> QED BY <1>3, FS_CardinalityType

LEMMA AllFiniteNext ==
  ASSUME (worker \in Seq(Record))'
  PROVE  /\ IsFiniteSet(Counted') /\ IsFiniteSet(Owing')
         /\ Cardinality(Counted)' \in Nat /\ Cardinality(Owing)' \in Nat
<1>1. Workers' = 1..Len(worker') /\ Len(worker') \in Nat
  BY DEF Workers
<1>2. IsFiniteSet(Workers')
  BY <1>1, FS_Interval
<1>3. IsFiniteSet(Counted') /\ IsFiniteSet(Owing')
  BY <1>2, FS_Subset DEF Counted, Owing
<1> QED BY <1>3, FS_CardinalityType

-----------------------------------------------------------------------------
(* Records.                                                                  *)

LEMMA ForkedRecord ==
  ASSUME NEW l \in Nat \X Nat
  PROVE  /\ Forked(l) \in Record /\ Sound(Forked(l)) /\ ~Owes(Forked(l))
         /\ Forked(l).listener = l
         /\ Counts(Forked(l)) <=> l = NoListener
BY DEF Forked, Record, Sound, Owes, Counts

LEMMA GoneRecord ==
  /\ Gone \in Record /\ Sound(Gone) /\ ~Owes(Gone) /\ Gone.listener[1] = 0
<1>1. PICK f \in Record : f = Forked(NoListener) /\ f.listener = NoListener
  BY ForkedRecord DEF NoListener
<1>2. Gone = [f EXCEPT !.state = "gone"]
  BY <1>1 DEF Gone
<1>3. Gone \in Record /\ Gone.state = "gone" /\ Gone.listener = f.listener
  BY <1>2 DEF Record
<1> QED BY <1>1, <1>3 DEF Sound, Owes, NoListener

\* A worker that counts is reported or takes nobody's place, so it owes
\* nobody when it is told to drain.
LEMMA DrainedRecord ==
  ASSUME NEW rec \in Record, Sound(rec)
  PROVE  /\ Drained(rec) \in Record /\ Sound(Drained(rec))
         /\ Drained(rec).listener = rec.listener
         /\ Counts(rec) => ~Owes(Drained(rec))
         /\ rec.reported => ~Owes(Drained(rec))
<1>1. CASE rec.state = "gone"
  BY <1>1 DEF Drained, Owes, Counts
<1>2. CASE rec.state # "gone"
  <2> DEFINE sig == IF rec.signal = "KILL" THEN rec.signal ELSE "TERM"
             d == [rec EXCEPT !.state = "DRAINING", !.signal = sig]
  <2>1. Drained(rec) = d
    BY <1>2 DEF Drained
  <2>2. sig \in {"TERM", "KILL"}
    BY DEF Record
  <2> HIDE DEF sig
  <2>3. /\ d \in Record /\ d.state = "DRAINING" /\ d.listener = rec.listener
        /\ d.reported = rec.reported
    BY <2>2 DEF Record
  <2>4. rec.listener = NoListener => rec.listener[1] = 0
    BY DEF NoListener
  <2> HIDE DEF d
  <2> QED BY <2>1, <2>3, <2>4 DEF Sound, Owes, Counts
<1> QED BY <1>1, <1>2

\* The record of a worker that reports.
Reported(rec) ==
  [rec EXCEPT !.state = "READY", !.reported = TRUE, !.listener = NoListener]

LEMMA ReportedRecord ==
  ASSUME NEW rec \in Record, Sound(rec)
  PROVE  /\ Reported(rec) \in Record /\ Sound(Reported(rec))
         /\ Reported(rec).reported
         /\ Reported(rec).listener[1] = 0
         /\ ~Owes(Reported(rec))
         /\ Counts(rec) => Counts(Reported(rec))
         /\ rec.state = "STARTING" => Counts(Reported(rec))
<1>1. /\ Reported(rec) \in Record
      /\ Reported(rec).state = "READY" /\ Reported(rec).reported
      /\ Reported(rec).listener = NoListener
      /\ Reported(rec).signal = rec.signal
  BY DEF Reported, Record, NoListener
<1>2. NoListener[1] = 0
  BY DEF NoListener
<1>3. rec.state \in {"STARTING", "READY", "DRAINING", "gone"}
  BY DEF Record
<1> QED BY <1>1, <1>2, <1>3 DEF Sound, Owes, Counts

-----------------------------------------------------------------------------
(* Every step but that of a signal to the primary keeps the places.          *)

\* Records ws come after those of "worker": those of new workers are newly
\* forked, and count only if fresh.
Appended(ws, fresh) ==
  /\ ws \in Seq(Record) /\ Len(ws) >= Len(worker)
  /\ \A i \in 1..Len(ws) : i > Len(worker) =>
       \E l \in Nat \X Nat :
         /\ ws[i] = Forked(l) /\ l[1] \in 0..Len(restart')
         /\ fresh <=> l = NoListener

LEMMA AppendedRecords ==
  ASSUME ClusterTyped, NEW fresh \in BOOLEAN,
         Appended(worker', fresh),
         target' = target, parallelism' = parallelism, timers' \in Nat,
         restart' \in Seq(Restart), Len(restart') >= Len(restart),
         \A i \in Workers :
           /\ Sound(worker'[i])
           /\ worker'[i].listener[1] \in 0..Len(restart')
  PROVE  /\ ClusterTyped'
         /\ Workers \subseteq Workers'
         /\ \A i \in Workers' : i \notin Workers =>
              ~Owes(worker'[i]) /\ (Counts(worker'[i]) <=> fresh)
<1>1. /\ Workers = 1..Len(worker) /\ Workers' = 1..Len(worker')
      /\ Len(worker) \in Nat /\ Len(worker') \in Nat
  BY DEF ClusterTyped, Workers, Appended
<1>2. ASSUME NEW i \in Workers', i \notin Workers
      PROVE  /\ ~Owes(worker'[i]) /\ (Counts(worker'[i]) <=> fresh)
             /\ Sound(worker'[i])
             /\ worker'[i].listener[1] \in 0..Len(restart')
  <2>1. PICK l \in Nat \X Nat :
          /\ worker'[i] = Forked(l) /\ l[1] \in 0..Len(restart')
          /\ fresh <=> l = NoListener
    BY <1>1, <1>2 DEF Appended
  <2> QED BY <2>1, ForkedRecord
<1>3. \A i \in Workers' :
        worker'[i].listener[1] \in 0..Len(restart') /\ Sound(worker'[i])
  BY <1>1, <1>2
<1>4. \A i \in Workers' : (worker[i].listener[1] \in 0..Len(restart)
                            /\ Sound(worker[i]))'
  BY <1>3 DEF Sound
<1>5. ClusterTyped'
  BY <1>4 DEF ClusterTyped, Appended
<1>6. Workers \subseteq Workers'
  BY <1>1 DEF Appended
<1> QED BY <1>2, <1>5, <1>6, Zenon

\* The record of one worker changes.
LEMMA OneRecord ==
  ASSUME ClusterInv, NEW w \in Workers, NEW r \in Record, Sound(r),
         worker' = [worker EXCEPT ![w] = r],
         r.listener[1] \in 0..Len(restart),
         Owes(r) => Owes(worker[w]),
         UNCHANGED <<target, parallelism, restart>>,
         \/ timers' = timers /\ (Counts(worker[w]) => Counts(r))
         \/ timers' = timers + 1 \/ primary' # "running",
         timers' \in Nat,
         primary' = "running" => primary = "running"
  PROVE  ClusterInv'
<1>1. /\ Workers = 1..Len(worker) /\ Workers' = 1..Len(worker)
      /\ Len(worker') = Len(worker) /\ worker' \in Seq(Record)
      /\ Len(worker) \in Nat
  BY DEF ClusterInv, ClusterTyped, Workers
<1>2. \A i \in Workers : worker'[i] = IF i = w THEN r ELSE worker[i]
  BY DEF ClusterInv, ClusterTyped, Workers
<1>3. Appended(worker', FALSE)
  BY <1>1 DEF Appended
<1>4. ClusterTyped'
  <2>1. \A i \in Workers : /\ Sound(worker'[i])
                            /\ worker'[i].listener[1] \in 0..Len(restart')
    BY <1>2 DEF ClusterInv, ClusterTyped
  <2>2. /\ ClusterTyped /\ target' = target /\ parallelism' = parallelism
        /\ restart' \in Seq(Restart) /\ Len(restart') >= Len(restart)
    BY DEF ClusterInv, ClusterTyped
  <2> QED BY <1>3, <2>1, <2>2, AppendedRecords
<1>5. ASSUME primary' = "running"
      PROVE  Cardinality(Counted)' + timers' >= target' + Cardinality(Owing)'
  <2>1. /\ IsFiniteSet(Counted) /\ IsFiniteSet(Owing)
        /\ Cardinality(Counted) \in Nat /\ Cardinality(Owing) \in Nat
    BY AllFinite DEF ClusterInv, ClusterTyped
  <2>2. /\ IsFiniteSet(Counted') /\ IsFiniteSet(Owing')
        /\ Cardinality(Counted)' \in Nat /\ Cardinality(Owing)' \in Nat
    BY <1>1, AllFiniteNext
  <2>3. Owing' \subseteq Owing
    BY <1>1, <1>2 DEF Owing, Owes
  <2>4. Cardinality(Owing') <= Cardinality(Owing)
    BY <2>1, <2>3, FS_Subset
  <2>5. Counted \ {w} \subseteq Counted'
    BY <1>1, <1>2 DEF Counted, Counts
  <2>6. Cardinality(Counted) <= Cardinality(Counted') + 1
    BY <2>1, <2>2, <2>5, OneLess
  <2>7. ASSUME Counts(worker[w]) => Counts(r)
        PROVE  Cardinality(Counted) <= Cardinality(Counted')
    <3>1. Counted \subseteq Counted'
      BY <1>1, <1>2, <2>7 DEF Counted, Counts
    <3> QED BY <2>2, <3>1, FS_Subset
  <2>8. Cardinality(Counted) + timers >= target + Cardinality(Owing)
    BY <1>5 DEF ClusterInv, PlacesInv
  <2>9. timers \in Nat /\ target \in Nat /\ target' = target
    BY DEF ClusterInv, ClusterTyped
  <2> QED BY <1>5, <2>1, <2>2, <2>4, <2>6, <2>7, <2>8, <2>9
<1> QED BY <1>4, <1>5 DEF ClusterInv, PlacesInv

\* Every step leaves the constants of the cluster alone.
LEMMA ExitKeeps ==
  ASSUME ClusterInv, NEW w \in Workers, Exit(w)
  PROVE  ClusterInv'
<1>1. PICK g \in Record : g = Gone /\ Sound(g) /\ ~Owes(g) /\ g.listener[1] = 0
  BY GoneRecord
<1>2. worker' = [worker EXCEPT ![w] = g]
  BY <1>1 DEF Exit
<1>3. UNCHANGED <<target, parallelism, restart, primary>>
  BY DEF Exit, options
<1>4. timers \in Nat /\ Len(restart) \in Nat
  BY DEF ClusterInv, ClusterTyped
<1>5. timers' \in Nat
  BY <1>4 DEF Exit
<1>6. \/ timers' = timers /\ ~Counts(worker[w])
      \/ timers' = timers + 1 \/ primary' # "running"
  BY DEF Exit, Counts
<1>7. g.listener[1] \in 0..Len(restart)
  BY <1>1, <1>4
<1> QED BY <1>1, <1>2, <1>3, <1>5, <1>6, <1>7, OneRecord

LEMMA HangsKeeps ==
  ASSUME ClusterInv, NEW w \in Workers, Hangs(w)
  PROVE  ClusterInv'
<1>1. PICK r \in Record : r = worker[w] /\ Sound(r)
                          /\ r.listener[1] \in 0..Len(restart)
  BY DEF ClusterInv, ClusterTyped, Workers
<1>2. PICK s \in Record : s = [r EXCEPT !.hung = TRUE]
  BY DEF Record
<1>3. /\ s.state = r.state /\ s.signal = r.signal /\ s.listener = r.listener
      /\ s.reported = r.reported
  BY <1>2 DEF Record
<1>4. worker' = [worker EXCEPT ![w] = s]
  BY <1>1, <1>2 DEF Hangs
<1>5. UNCHANGED <<target, parallelism, restart, primary, timers>>
  BY DEF Hangs, options
<1>6. Sound(s) /\ (Owes(s) => Owes(r)) /\ (Counts(r) => Counts(s))
  BY <1>1, <1>3 DEF Sound, Owes, Counts
<1>7. timers' \in Nat
  BY <1>5 DEF ClusterInv, ClusterTyped
<1> QED BY <1>1, <1>3, <1>4, <1>5, <1>6, <1>7, OneRecord

LEMMA MissesHeartbeatsKeeps ==
  ASSUME ClusterInv, NEW w \in Workers, MissesHeartbeats(w)
  PROVE  ClusterInv'
<1>1. PICK r \in Record : r = worker[w] /\ Sound(r)
                          /\ r.listener[1] \in 0..Len(restart)
  BY DEF ClusterInv, ClusterTyped, Workers
<1>2. PICK s \in Record : s = [r EXCEPT !.signal = "KILL"]
  BY DEF Record
<1>3. /\ s.state = "READY" /\ s.signal = "KILL" /\ s.listener = r.listener
      /\ s.reported = r.reported /\ r.state = "READY"
  BY <1>1, <1>2 DEF Record, MissesHeartbeats
<1>4. worker' = [worker EXCEPT ![w] = s]
  BY <1>1, <1>2 DEF MissesHeartbeats
<1>5. UNCHANGED <<target, parallelism, restart, primary, timers>>
  BY DEF MissesHeartbeats, options
<1>6. Sound(s) /\ (Owes(s) => Owes(r)) /\ (Counts(r) => Counts(s))
  BY <1>1, <1>3 DEF Sound, Owes, Counts
<1>7. timers' \in Nat
  BY <1>5 DEF ClusterInv, ClusterTyped
<1> QED BY <1>1, <1>3, <1>4, <1>5, <1>6, <1>7, OneRecord

\* A respawn timer becomes a worker.
LEMMA RespawnKeeps ==
  ASSUME ClusterInv, Respawn
  PROVE  ClusterInv'
<1> DEFINE new == Forked(NoListener)
           n == Len(worker) + 1
<1>1. /\ worker \in Seq(Record) /\ timers \in Nat /\ restart \in Seq(Restart)
      /\ target \in Nat /\ Len(restart) \in Nat
  BY DEF ClusterInv, ClusterTyped
<1>2. /\ new \in Record /\ Counts(new) /\ ~Owes(new)
      /\ NoListener \in Nat \X Nat /\ NoListener[1] = 0
  BY ForkedRecord DEF NoListener
<1>3. worker' = Append(worker, new)
  BY DEF Respawn
<1> HIDE DEF new
<1>4. /\ worker' \in Seq(Record) /\ Len(worker') = n
      /\ \A i \in 1..Len(worker) : worker'[i] = worker[i]
      /\ worker'[n] = new
  BY <1>1, <1>2, <1>3, AppendProperties
<1>5. /\ Workers = 1..Len(worker) /\ Workers' = 1..n /\ n \notin Workers
      /\ n \in Workers' /\ Len(worker) \in Nat
  BY <1>1, <1>4 DEF Workers
<1>6. UNCHANGED <<target, parallelism, restart, primary>>
      /\ timers' \in Nat /\ timers' = timers - 1
  BY <1>1 DEF Respawn, options
<1>7. ClusterTyped'
  <2>1. Appended(worker', TRUE)
    BY <1>1, <1>2, <1>4, <1>5, <1>6 DEF Appended, new
  <2>2. \A i \in Workers : /\ Sound(worker'[i])
                            /\ worker'[i].listener[1] \in 0..Len(restart')
    BY <1>4, <1>5, <1>6 DEF ClusterInv, ClusterTyped
  <2>3. /\ ClusterTyped /\ target' = target /\ parallelism' = parallelism
        /\ restart' \in Seq(Restart) /\ Len(restart') >= Len(restart)
    BY <1>1, <1>6 DEF ClusterInv
  <2> QED BY <1>6, <2>1, <2>2, <2>3, AppendedRecords
<1>8. ASSUME primary' = "running"
      PROVE  Cardinality(Counted)' + timers' >= target' + Cardinality(Owing)'
  <2>1. /\ IsFiniteSet(Counted) /\ IsFiniteSet(Owing)
        /\ Cardinality(Counted) \in Nat /\ Cardinality(Owing) \in Nat
    BY <1>1, AllFinite
  <2>2. /\ IsFiniteSet(Counted') /\ IsFiniteSet(Owing')
        /\ Cardinality(Counted)' \in Nat /\ Cardinality(Owing)' \in Nat
    BY <1>4, AllFiniteNext
  <2>3. Owing' \subseteq Owing
    BY <1>2, <1>4, <1>5 DEF Owing, Owes
  <2>4. Cardinality(Owing') <= Cardinality(Owing)
    BY <2>1, <2>3, FS_Subset
  <2>5. Counted \subseteq Counted' /\ n \in Counted' /\ n \notin Counted
    BY <1>2, <1>4, <1>5 DEF Counted, Counts
  <2>6. Cardinality(Counted) + 1 <= Cardinality(Counted')
    BY <2>1, <2>2, <2>5, OneMore
  <2>7. Cardinality(Counted) + timers >= target + Cardinality(Owing)
    BY <1>6, <1>8 DEF ClusterInv, PlacesInv
  <2> QED BY <1>1, <1>6, <2>1, <2>2, <2>4, <2>6, <2>7
<1> QED BY <1>7, <1>8 DEF ClusterInv, PlacesInv

\* A restart forks replacements, which count for nothing yet.
LEMMA SIGUSR2Keeps ==
  ASSUME ClusterInv, SIGUSR2
  PROVE  ClusterInv'
<1> DEFINE n == Cardinality(Live)
           first == IF n < parallelism THEN n ELSE parallelism
           k == Len(restart) + 1
<1>1. /\ worker \in Seq(Record) /\ timers \in Nat /\ restart \in Seq(Restart)
      /\ target \in Nat /\ Len(restart) \in Nat /\ parallelism \in Nat \ {0}
      /\ Workers = 1..Len(worker) /\ Len(worker) \in Nat
  BY DEF ClusterInv, ClusterTyped, Workers
<1>2. n \in Nat /\ first \in 0..n /\ k \in Nat \ {0} /\ first \in Nat
  BY <1>1, AllFinite
<1>3. PICK pids \in [1..n -> Live] :
        /\ restart' = Append(restart, [pids |-> pids, next |-> first + 1])
        /\ worker' = worker \o [i \in 1..first |-> Forked(<<k, pids[i]>>)]
  BY DEF SIGUSR2
<1>4. UNCHANGED <<target, parallelism, timers, primary>>
  BY DEF SIGUSR2, options
<1> HIDE DEF n, first, k
<1>5. pids \in Seq(Nat) /\ (\A i \in 1..first : pids[i] \in Nat)
  BY <1>1, <1>2 DEF Live
<1>6. restart' \in Seq(Restart) /\ Len(restart') = k
  <2>1. [pids |-> pids, next |-> first + 1] \in Restart
    BY <1>2, <1>5 DEF Restart
  <2> QED BY <1>1, <1>3, <2>1, AppendProperties DEF k
<1> DEFINE new == [i \in 1..first |-> Forked(<<k, pids[i]>>)]
<1>7. /\ \A i \in 1..first : <<k, pids[i]>> \in Nat \X Nat
      /\ \A i \in 1..first : new[i] = Forked(<<k, pids[i]>>)
  BY <1>2, <1>5
<1>8. new \in Seq(Record) /\ Len(new) = first
  <2>1. \A i \in 1..first : Forked(<<k, pids[i]>>) \in Record
    BY <1>7, ForkedRecord
  <2>2. new \in [1..first -> Record]
    BY <2>1
  <2> QED BY <1>2, <2>2
<1> HIDE DEF new
<1>9. /\ worker' \in Seq(Record) /\ Len(worker') = Len(worker) + first
      /\ \A i \in 1..Len(worker) : worker'[i] = worker[i]
      /\ \A i \in 1..Len(worker') :
           i > Len(worker) => worker'[i] = new[i - Len(worker)]
  <2>1. worker' = worker \o new
    BY <1>3 DEF new
  <2>2. /\ worker' \in Seq(Record)
        /\ Len(worker') = Len(worker) + Len(new)
        /\ \A i \in 1..(Len(worker) + Len(new)) : worker'[i] =
             IF i <= Len(worker) THEN worker[i] ELSE new[i - Len(worker)]
    BY <1>1, <1>8, <2>1, ConcatProperties
  <2> QED BY <1>1, <1>2, <1>8, <2>2
<1>10. Appended(worker', FALSE)
  <2>1. ASSUME NEW i \in 1..Len(worker'), i > Len(worker)
        PROVE  \E l \in Nat \X Nat :
                 /\ worker'[i] = Forked(l) /\ l[1] \in 0..Len(restart')
                 /\ l # NoListener
    <3>1. i - Len(worker) \in 1..first
      BY <1>1, <1>2, <1>9, <2>1
    <3>2. PICK m \in 1..first : m = i - Len(worker)
      BY <3>1
    <3>3. PICK l \in Nat \X Nat : l = <<k, pids[m]>>
      BY <1>7
    <3>4. worker'[i] = Forked(l)
      BY <1>7, <1>9, <2>1, <3>2, <3>3
    <3>5. l[1] \in 0..Len(restart') /\ l # NoListener
      BY <1>2, <1>6, <3>3 DEF NoListener
    <3> QED BY <3>4, <3>5
  <2> QED BY <1>1, <1>2, <1>9, <2>1 DEF Appended
<1>11. /\ ClusterTyped' /\ Workers \subseteq Workers'
       /\ \A i \in Workers' : i \notin Workers =>
            ~Owes(worker'[i]) /\ ~Counts(worker'[i])
  <2>1. \A i \in Workers : /\ Sound(worker'[i])
                            /\ worker'[i].listener[1] \in 0..Len(restart')
    BY <1>1, <1>6, <1>9 DEF ClusterInv, ClusterTyped, k
  <2>2. /\ ClusterTyped /\ target' = target /\ parallelism' = parallelism
        /\ timers' \in Nat /\ Len(restart') >= Len(restart)
    BY <1>1, <1>4, <1>6 DEF ClusterInv, k
  <2> QED BY <1>6, <1>10, <2>1, <2>2, AppendedRecords
<1>12. Counted' = Counted /\ Owing' = Owing
  BY <1>1, <1>9, <1>11 DEF Counted, Owing, Counts, Owes
<1> QED BY <1>4, <1>11, <1>12 DEF ClusterInv, PlacesInv

\* WORKER_READY of a worker that is nobody's replacement.
LEMMA FirstReady ==
  ASSUME ClusterInv, NEW w \in Workers, WorkerReady(w),
         worker[w].listener[1] = 0
  PROVE  ClusterInv'
<1>1. PICK rec \in Record : rec = worker[w] /\ Sound(rec)
  BY DEF ClusterInv, ClusterTyped, Workers
<1>2. PICK r \in Record : r = Reported(rec)
  BY <1>1, ReportedRecord
<1>3. /\ Sound(r) /\ ~Owes(r) /\ r.listener[1] = 0
      /\ Counts(rec) => Counts(r)
  BY <1>1, <1>2, ReportedRecord
<1>4. worker' = [worker EXCEPT ![w].state = "READY", ![w].reported = TRUE,
                               ![w].listener = NoListener]
  BY DEF WorkerReady
<1>5. worker' = [worker EXCEPT ![w] = r]
  BY <1>1, <1>2, <1>4 DEF Reported
<1>6. /\ worker \in Seq(Record) /\ timers \in Nat /\ Len(restart) \in Nat
  BY DEF ClusterInv, ClusterTyped
<1>7. Len(worker') = Len(worker)
  BY <1>5, <1>6
<1>8. UNCHANGED <<target, parallelism, restart, primary, timers>>
  BY <1>7 DEF WorkerReady, options
<1>9. r.listener[1] \in 0..Len(restart) /\ timers' \in Nat /\ timers' = timers
  BY <1>3, <1>6, <1>8
<1>10. (Owes(r) => Owes(worker[w])) /\ (Counts(worker[w]) => Counts(r))
  BY <1>1, <1>3
<1> QED BY <1>3, <1>5, <1>8, <1>9, <1>10, OneRecord

\* The record of worker i after a replacement w of old has reported.
After(i, w, old) ==
  LET rec == IF i = w THEN Reported(worker[i]) ELSE worker[i] IN
  IF i = old THEN Drained(rec) ELSE rec

\* WORKER_READY of a replacement.
LEMMA ReplacementReady ==
  ASSUME ClusterTyped, NEW w \in Workers, WorkerReady(w),
         NEW k \in Nat \ {0}, NEW old \in Nat, worker[w].listener = <<k, old>>
  PROVE  /\ ClusterTyped' /\ Workers \subseteq Workers'
         /\ \A i \in Workers : worker'[i] = After(i, w, old)
         /\ \A i \in Workers' : i \notin Workers =>
              ~Owes(worker'[i]) /\ ~Counts(worker'[i])
         /\ UNCHANGED <<target, primary, timers>>
<1>1. /\ worker \in Seq(Record) /\ timers \in Nat /\ restart \in Seq(Restart)
      /\ Len(restart) \in Nat /\ k \in 1..Len(restart)
      /\ Workers = 1..Len(worker) /\ Len(worker) \in Nat
  BY DEF ClusterTyped, Workers
<1>2. PICK m : m = restart[k]
  OBVIOUS
<1>3. m \in Restart
  BY <1>1, <1>2
<1> DEFINE ws == [worker EXCEPT ![w].state = "READY", ![w].reported = TRUE,
                                ![w].listener = NoListener]
           vs == [ws EXCEPT ![old] = Drained(@)]
<1>4. PICK rec \in Record : rec = worker[w] /\ Sound(rec)
  BY <1>1 DEF ClusterTyped
<1>5. ws = [worker EXCEPT ![w] = Reported(rec)] /\ Reported(rec) \in Record
           /\ Sound(Reported(rec)) /\ Reported(rec).listener[1] = 0
  BY <1>4, ReportedRecord DEF Reported
<1>6. worker' = Replaced(vs, k)
  BY DEF WorkerReady, ReplacedBy
<1> HIDE DEF ws
<1>7. /\ ws \in Seq(Record) /\ Len(ws) = Len(worker)
      /\ \A i \in Workers :
           /\ ws[i] = IF i = w THEN Reported(worker[i]) ELSE worker[i]
           /\ ws[i] \in Record /\ Sound(ws[i])
           /\ ws[i].listener[1] \in 0..Len(restart)
  <2>1. PICK r \in Record : r = Reported(rec) /\ Sound(r) /\ r.listener[1] = 0
    BY <1>5
  <2>2. ws = [worker EXCEPT ![w] = r]
    BY <1>5, <2>1
  <2>3. ws \in Seq(Record) /\ Len(ws) = Len(worker)
    BY <1>1, <2>2
  <2>4. \A i \in Workers : ws[i] = IF i = w THEN r ELSE worker[i]
    BY <1>1, <2>2
  <2>5. \A i \in Workers : Sound(worker[i]) /\ worker[i] \in Record
                           /\ worker[i].listener[1] \in 0..Len(restart)
    BY <1>1 DEF ClusterTyped
  <2>6. 0 \in 0..Len(restart)
    BY <1>1
  <2> QED BY <1>4, <2>1, <2>3, <2>4, <2>5, <2>6
<1>8. /\ vs \in Seq(Record) /\ Len(vs) = Len(worker)
      /\ \A i \in Workers : vs[i] = IF i = old THEN Drained(ws[i]) ELSE ws[i]
  <2>1. CASE old \in Workers
    <3>1. PICK o \in Record : o = ws[old] /\ Sound(o)
      BY <1>7, <2>1
    <3>2. PICK d \in Record : d = Drained(o)
      BY <3>1, DrainedRecord
    <3>3. vs = [ws EXCEPT ![old] = d]
      BY <3>1, <3>2
    <3> QED BY <1>1, <1>7, <2>1, <3>1, <3>2, <3>3
  <2>2. CASE old \notin Workers
    <3>1. old \notin DOMAIN ws
      BY <1>1, <1>7, <2>2
    <3>2. vs = ws
      BY <1>7, <3>1
    <3> QED BY <1>7, <2>2, <3>2
  <2> QED BY <2>1, <2>2
<1> HIDE DEF vs
<1>9. \A i \in Workers : vs[i] = After(i, w, old)
  BY <1>7, <1>8 DEF After
<1>10. \A i \in Workers : Sound(vs[i])
                          /\ vs[i].listener[1] \in 0..Len(restart)
  <2> TAKE i \in Workers
  <2>1. PICK o \in Record : o = ws[i] /\ Sound(o)
                            /\ o.listener[1] \in 0..Len(restart)
    BY <1>7
  <2>2. Sound(Drained(o)) /\ Drained(o).listener = o.listener
    BY <2>1, DrainedRecord
  <2> QED BY <1>8, <2>1, <2>2
<1>11. /\ worker' \in Seq(Record) /\ Len(worker') >= Len(worker)
       /\ \A i \in Workers : worker'[i] = vs[i]
       /\ \A i \in 1..Len(worker') : i > Len(worker) =>
            worker'[i] = Forked(<<k, m.pids[m.next]>>)
            /\ m.pids[m.next] \in Nat
  <2>1. CASE m.next > Len(m.pids)
    BY <1>1, <1>2, <1>6, <1>8, <2>1 DEF Replaced
  <2>2. CASE ~(m.next > Len(m.pids))
    <3>1. worker' = Append(vs, Forked(<<k, m.pids[m.next]>>))
      BY <1>2, <1>6, <2>2 DEF Replaced
    <3>2. PICK p \in Nat : p = m.pids[m.next]
      BY <1>3, <2>2 DEF Restart
    <3>3. PICK f \in Record : f = Forked(<<k, p>>)
      BY ForkedRecord
    <3>4. worker' = Append(vs, f)
      BY <3>1, <3>2, <3>3
    <3>5. /\ worker' \in Seq(Record) /\ Len(worker') = Len(vs) + 1
          /\ \A i \in 1..Len(vs) : worker'[i] = vs[i]
          /\ worker'[Len(vs) + 1] = f
      BY <1>8, <3>4, AppendProperties
    <3>6. Len(vs) = Len(worker) /\ Workers = 1..Len(vs) /\ Len(vs) \in Nat
      BY <1>1, <1>8
    <3>7. \A i \in 1..Len(worker') : i > Len(worker) => i = Len(vs) + 1
      BY <3>5, <3>6
    <3>8. worker'[Len(vs) + 1] = Forked(<<k, m.pids[m.next]>>)
      BY <3>2, <3>3, <3>5
    <3>9. m.pids[m.next] \in Nat
      BY <3>2
    <3>10. Len(worker') >= Len(worker)
      BY <3>5, <3>6
    <3> QED BY <3>5, <3>6, <3>7, <3>8, <3>9, <3>10
  <2> QED BY <2>1, <2>2
<1>12. restart' \in Seq(Restart) /\ Len(restart') = Len(restart)
  <2>1. CASE restart' = restart
    BY <1>1, <2>1
  <2>2. CASE restart' = [restart EXCEPT ![k].next = @ + 1]
    <3>1. restart' = [restart EXCEPT ![k] = [m EXCEPT !.next = @ + 1]]
      BY <1>2, <2>2
    <3>2. [m EXCEPT !.next = @ + 1] \in Restart
      BY <1>3 DEF Restart
    <3> QED BY <1>1, <3>1, <3>2
  <2>3. worker[w].listener[1] = k
    OBVIOUS
  <2> QED BY <2>1, <2>2, <2>3 DEF WorkerReady
<1>13. Appended(worker', FALSE)
  <2>1. ASSUME NEW i \in 1..Len(worker'), i > Len(worker)
        PROVE  \E l \in Nat \X Nat :
                 /\ worker'[i] = Forked(l) /\ l[1] \in 0..Len(restart')
                 /\ l # NoListener
    <3>1. PICK l \in Nat \X Nat : l = <<k, m.pids[m.next]>>
      BY <1>11, <2>1
    <3>2. l[1] \in 0..Len(restart') /\ l # NoListener
      BY <1>1, <1>12, <3>1 DEF NoListener
    <3> QED BY <1>11, <2>1, <3>1, <3>2
  <2> QED BY <1>11, <2>1 DEF Appended
<1>14. UNCHANGED <<target, parallelism, primary, timers>>
  BY DEF WorkerReady, options
<1>15. \A i \in Workers : /\ Sound(worker'[i])
                          /\ worker'[i].listener[1] \in 0..Len(restart')
  BY <1>10, <1>11, <1>12
<1>16. /\ target' = target /\ parallelism' = parallelism /\ timers' \in Nat
       /\ Len(restart') >= Len(restart)
  BY <1>1, <1>12, <1>14
<1>17. /\ ClusterTyped' /\ Workers \subseteq Workers'
       /\ \A i \in Workers' : i \notin Workers =>
            ~Owes(worker'[i]) /\ ~Counts(worker'[i])
  BY <1>12, <1>13, <1>15, <1>16, AppendedRecords
<1> QED BY <1>9, <1>11, <1>14, <1>17

\* A replacement that reports takes the place of old; if it had to drain in
\* the meantime, the one that had replaced it makes up for old.
LEMMA ReplacementKeeps ==
  ASSUME ClusterInv, NEW w \in Workers, WorkerReady(w),
         NEW k \in Nat \ {0}, NEW old \in Nat, worker[w].listener = <<k, old>>
  PROVE  ClusterInv'
<1>1. /\ ClusterTyped' /\ Workers \subseteq Workers'
      /\ \A i \in Workers : worker'[i] = After(i, w, old)
      /\ \A i \in Workers' : i \notin Workers =>
           ~Owes(worker'[i]) /\ ~Counts(worker'[i])
      /\ UNCHANGED <<target, primary, timers>>
  BY ReplacementReady DEF ClusterInv
<1>2. \A i \in Workers : worker[i] \in Record /\ Sound(worker[i])
  BY DEF ClusterInv, ClusterTyped, Workers
<1>3. PICK rec \in Record : rec = worker[w] /\ Sound(rec)
  BY <1>2
<1>4. /\ rec.state \in {"STARTING", "DRAINING"} /\ ~rec.reported
      /\ rec.listener[1] # 0 /\ rec.listener # NoListener
  BY <1>3 DEF WorkerReady, Sound, Record, NoListener
<1>5. w \notin Counted
  BY <1>3, <1>4 DEF Counted, Counts
<1>6. /\ Reported(rec) \in Record /\ Sound(Reported(rec))
      /\ Reported(rec).reported /\ ~Owes(Reported(rec))
      /\ rec.state = "STARTING" => Counts(Reported(rec))
  BY <1>3, ReportedRecord
<1>7. ~Owes(Drained(Reported(rec)))
  BY <1>6, DrainedRecord
<1>8. w \notin Owing'
  <2>1. ~Owes(worker'[w])
    BY <1>1, <1>3, <1>6, <1>7 DEF After
  <2> QED BY <2>1 DEF Owing, Owes
<1>9. \A i \in Workers : i \notin {w, old} => worker'[i] = worker[i]
  BY <1>1 DEF After
<1>10. /\ Counted \ {old} \subseteq Counted'
       /\ Owing' \ {old} \subseteq Owing
  BY <1>1, <1>5, <1>8, <1>9 DEF Counted, Owing, Counts, Owes
<1>11. old \in Counted => old \notin Owing'
  <2>1. SUFFICES ASSUME old \in Counted PROVE old \notin Owing'
    OBVIOUS
  <2>2. old \in Workers /\ old # w /\ Counts(worker[old])
    BY <1>5, <2>1 DEF Counted
  <2>3. ~Owes(Drained(worker[old]))
    BY <1>2, <2>2, DrainedRecord
  <2>4. ~Owes(worker'[old])
    BY <1>1, <2>2, <2>3 DEF After
  <2> QED BY <2>4 DEF Owing, Owes
<1>12. rec.state = "STARTING" /\ old # w => w \in Counted'
  <2>1. SUFFICES ASSUME rec.state = "STARTING", old # w PROVE w \in Counted'
    OBVIOUS
  <2>2. Counts(worker'[w])
    BY <1>1, <1>3, <1>6, <2>1 DEF After
  <2> QED BY <1>1, <2>2 DEF Counted, Counts
<1>13. rec.state = "DRAINING" => w \in Owing
  BY <1>3, <1>4 DEF Owing, Owes
<1>14. ASSUME primary' = "running"
       PROVE  Cardinality(Counted)' + timers' >= target' + Cardinality(Owing)'
  <2>1. /\ IsFiniteSet(Counted) /\ IsFiniteSet(Owing)
        /\ Cardinality(Counted) \in Nat /\ Cardinality(Owing) \in Nat
    BY AllFinite DEF ClusterInv, ClusterTyped
  <2>2. /\ IsFiniteSet(Counted') /\ IsFiniteSet(Owing')
        /\ Cardinality(Counted)' \in Nat /\ Cardinality(Owing)' \in Nat
    BY <1>1, AllFiniteNext DEF ClusterTyped
  <2>3. Cardinality(Counted) + timers >= target + Cardinality(Owing)
    BY <1>1, <1>14 DEF ClusterInv, PlacesInv
  <2>4. timers \in Nat /\ target \in Nat
    BY DEF ClusterInv, ClusterTyped
  <2>5. SUFFICES Cardinality(Counted) + Cardinality(Owing')
                   <= Cardinality(Counted') + Cardinality(Owing)
    BY <1>1, <2>1, <2>2, <2>3, <2>4
  <2>6. CASE old \in Counted
    <3>1. Owing' \subseteq Owing /\ old # w
      BY <1>5, <1>10, <1>11, <2>6
    <3>2. CASE rec.state = "STARTING"
      <4>1. Cardinality(Counted) <= Cardinality(Counted')
        BY <1>5, <1>10, <1>12, <2>1, <2>2, <3>1, <3>2, OneForOne
      <4>2. Cardinality(Owing') <= Cardinality(Owing)
        BY <2>1, <3>1, FS_Subset
      <4> QED BY <2>1, <2>2, <4>1, <4>2
    <3>3. CASE rec.state = "DRAINING"
      <4>1. Cardinality(Counted) <= Cardinality(Counted') + 1
        BY <1>10, <2>1, <2>2, OneLess
      <4>2. Cardinality(Owing') + 1 <= Cardinality(Owing)
        BY <1>8, <1>13, <2>1, <2>2, <3>1, <3>3, OneMore
      <4> QED BY <2>1, <2>2, <4>1, <4>2
    <3> QED BY <1>4, <3>2, <3>3
  <2>7. CASE old \notin Counted
    <3>1. Counted \subseteq Counted'
      BY <1>10, <2>7
    <3>2. CASE rec.state = "STARTING" /\ old # w
      <4>1. Cardinality(Counted) + 1 <= Cardinality(Counted')
        BY <1>5, <1>12, <2>1, <2>2, <3>1, <3>2, OneMore
      <4>2. Cardinality(Owing') <= Cardinality(Owing) + 1
        BY <1>10, <2>1, <2>2, OneLess
      <4> QED BY <2>1, <2>2, <4>1, <4>2
    <3>3. CASE old = w
      <4>1. Cardinality(Counted) <= Cardinality(Counted')
        BY <2>2, <3>1, FS_Subset
      <4>2. Owing' \subseteq Owing
        BY <1>8, <1>10, <3>3
      <4>3. Cardinality(Owing') <= Cardinality(Owing)
        BY <2>1, <4>2, FS_Subset
      <4> QED BY <2>1, <2>2, <4>1, <4>3
    <3>4. CASE rec.state = "DRAINING"
      <4>1. Cardinality(Counted) <= Cardinality(Counted')
        BY <2>2, <3>1, FS_Subset
      <4>2. Cardinality(Owing') <= Cardinality(Owing)
        BY <1>8, <1>10, <1>13, <2>1, <2>2, <3>4, OneForOne
      <4> QED BY <2>1, <2>2, <4>1, <4>2
    <3> QED BY <1>4, <3>2, <3>3, <3>4
  <2> QED BY <2>6, <2>7
<1> QED BY <1>1, <1>14 DEF ClusterInv, PlacesInv

\* SIGTERM: nothing is promised any more, but records stay records.
LEMMA SIGTERMKeeps ==
  ASSUME ClusterInv, SIGTERM
  PROVE  ClusterInv'
<1>1. /\ worker \in Seq(Record) /\ Workers = 1..Len(worker)
      /\ Len(worker) \in Nat
  BY DEF ClusterInv, ClusterTyped, Workers
<1>2. \A i \in Workers :
        /\ Drained(worker[i]) \in Record /\ Sound(Drained(worker[i]))
        /\ Drained(worker[i]).listener[1] \in 0..Len(restart)
  <2> TAKE i \in Workers
  <2>1. PICK o \in Record : o = worker[i] /\ Sound(o)
                            /\ o.listener[1] \in 0..Len(restart)
    BY <1>1 DEF ClusterInv, ClusterTyped
  <2>2. /\ Drained(o) \in Record /\ Sound(Drained(o))
        /\ Drained(o).listener = o.listener
    BY <2>1, DrainedRecord
  <2> QED BY <2>1, <2>2
<1>3. worker' = [i \in Workers |-> Drained(worker[i])]
  BY DEF SIGTERM
<1>4. worker' \in Seq(Record) /\ Len(worker') = Len(worker)
  <2>1. worker' \in [1..Len(worker) -> Record]
    BY <1>1, <1>2, <1>3
  <2> QED BY <1>1, <2>1
<1>5. UNCHANGED <<target, parallelism, restart, timers>>
      /\ primary' # "running"
  BY DEF SIGTERM, options
<1>6. /\ \A i \in Workers : /\ Sound(worker'[i])
                            /\ worker'[i].listener[1] \in 0..Len(restart')
  BY <1>2, <1>3, <1>5
<1>7. Appended(worker', FALSE)
  BY <1>1, <1>4 DEF Appended
<1>8. /\ ClusterTyped /\ target' = target /\ parallelism' = parallelism
      /\ timers' \in Nat
      /\ restart' \in Seq(Restart) /\ Len(restart') >= Len(restart)
  BY <1>5 DEF ClusterInv, ClusterTyped
<1>9. ClusterTyped'
  BY <1>6, <1>7, <1>8, AppendedRecords
<1> QED BY <1>5, <1>9 DEF ClusterInv, PlacesInv

LEMMA ClusterStart ==
  ASSUME ClusterInit
  PROVE  ClusterInv
<1>1. PICK f \in Record : /\ f = Forked(NoListener) /\ Sound(f) /\ ~Owes(f)
                          /\ Counts(f) /\ f.listener = NoListener
  BY ForkedRecord DEF NoListener
<1>2. target \in Nat \ {0} /\ parallelism \in Nat \ {0}
  BY ClusterAssumption DEF ClusterInit
<1>3. worker = [i \in 1..target |-> f]
  BY <1>1 DEF ClusterInit
<1>4. worker \in Seq(Record) /\ Workers = 1..target
  BY <1>2, <1>3 DEF Workers
<1>5. restart = <<>> /\ timers = 0
  BY DEF ClusterInit
<1>6. ClusterTyped
  BY <1>1, <1>2, <1>3, <1>4, <1>5 DEF ClusterTyped, NoListener
<1>7. Counted = 1..target /\ Owing = {}
  BY <1>1, <1>3, <1>4 DEF Counted, Owing
<1>8. Cardinality(1..target) = target
  BY <1>2, FS_Interval
<1>9. Cardinality({}) = 0
  BY FS_EmptySet
<1> QED BY <1>2, <1>5, <1>6, <1>7, <1>8, <1>9 DEF ClusterInv, PlacesInv

LEMMA ClusterStep ==
  ASSUME ClusterInv, [ClusterNext]_clusterVars
  PROVE  ClusterInv'
<1>1. ASSUME NEW w \in Workers, WorkerReady(w)
      PROVE  ClusterInv'
  <2>1. PICK k \in Nat, old \in Nat : worker[w].listener = <<k, old>>
    <3>1. worker[w] \in Record
      BY DEF ClusterInv, ClusterTyped, Workers
    <3>2. worker[w].listener \in Nat \X Nat
      BY <3>1 DEF Record
    <3> QED BY <3>2
  <2>2. CASE k = 0
    BY <1>1, <2>1, <2>2, FirstReady
  <2>3. CASE k # 0
    BY <1>1, <2>1, <2>3, ReplacementKeeps
  <2> QED BY <2>2, <2>3
<1>2. ASSUME NEW w \in Workers, SignalledExits(w) \/ Crashes(w)
      PROVE  ClusterInv'
  BY <1>2, ExitKeeps DEF SignalledExits, Crashes
<1>3. ASSUME NEW w \in Workers, Hangs(w)
      PROVE  ClusterInv'
  BY <1>3, HangsKeeps
<1>4. ASSUME NEW w \in Workers, MissesHeartbeats(w)
      PROVE  ClusterInv'
  BY <1>4, MissesHeartbeatsKeeps
<1>5. CASE Respawn
  BY <1>5, RespawnKeeps
<1>6. CASE SIGUSR2
  BY <1>6, SIGUSR2Keeps
<1>7. CASE SIGTERM
  BY <1>7, SIGTERMKeeps
<1>8. CASE PrimaryExits \/ UNCHANGED clusterVars
  <2>1. UNCHANGED <<target, parallelism, worker, timers, restart>>
        /\ (primary' = "running" => primary = "running")
    BY <1>8 DEF PrimaryExits, clusterVars, options
  <2>2. ClusterTyped' /\ Counted' = Counted /\ Owing' = Owing
    BY <2>1 DEF ClusterInv, ClusterTyped, Workers, Sound, Counted, Owing,
                Counts, Owes
  <2> QED BY <2>1, <2>2 DEF ClusterInv, PlacesInv
<1> QED BY <1>1, <1>2, <1>3, <1>4, <1>5, <1>6, <1>7, <1>8 DEF ClusterNext

LEMMA ClusterInvAlways == ClusterSpec => []ClusterInv
BY ClusterStart, ClusterStep, PTL DEF ClusterSpec

\* PlacesKept, for any number of workers, restarts that overlap and failures:
\* exits, respawn timers and rolling restarts of listenClustered() never leave
\* fewer workers than targetWorkers, those on their way included.
THEOREM ClusterKeepsPlaces == ClusterSpec => []PlacesKept
<1>1. ClusterInv => PlacesKept
  <2> SUFFICES ASSUME ClusterInv, primary = "running"
               PROVE  Cardinality(Serving \cup Coming) + timers >= target
    BY DEF PlacesKept
  <2>1. Serving \cup Coming = Counted
    BY DEF Serving, Coming, Counted, Counts
  <2>2. Cardinality(Counted) \in Nat /\ Cardinality(Owing) \in Nat
    BY AllFinite DEF ClusterInv, ClusterTyped
  <2>3. timers \in Nat /\ target \in Nat
    BY DEF ClusterInv, ClusterTyped
  <2>4. Cardinality(Counted) + timers >= target + Cardinality(Owing)
    BY DEF ClusterInv, PlacesInv
  <2>5. Cardinality(Counted) + timers >= target
    BY <2>2, <2>3, <2>4
  <2> QED BY <2>1, <2>5
<1> QED BY <1>1, ClusterInvAlways, PTL
=============================================================================
