-------------------------- MODULE SdkClientProofs --------------------------
(***************************************************************************)
(* Proofs about SdkClient, for any callers, keys and limits.               *)
(***************************************************************************)
EXTENDS SdkClient, TLAPS

\* A request knows its key and the map knows the request: together with the
\* types this is inductive, and OneFlightPerGet follows from it.
ClientInv == TypeOK /\ CountersMatchState /\ MapIsInFlight

\* A new client has a closed breaker and nothing in flight.
LEMMA ClientInit == Init => ClientInv
<1> SUFFICES ASSUME Init PROVE ClientInv
  OBVIOUS
<1> USE SdkAssumption DEF Init
<1>1. cooled \in BOOLEAN
  OBVIOUS
<1>2. TypeOK
  BY <1>1 DEF TypeOK
<1>3. CountersMatchState
  BY DEF CountersMatchState
<1>4. MapIsInFlight
  BY DEF MapIsInFlight, Flying
<1> QED
  BY <1>2, <1>3, <1>4 DEF ClientInv

\* onSuccess, onFailure and the admission of a request keep the breaker's
\* counters and its state in step.
LEMMA BreakerStep ==
  ASSUME state \in {"CLOSED", "OPEN", "HALF_OPEN"}, failures \in 0..Threshold,
         probes \in 0..MaxProbes, cooled \in BOOLEAN, CountersMatchState,
         Admit \/ OnSuccess \/ OnFailure \/ UNCHANGED breaker
  PROVE  /\ state' \in {"CLOSED", "OPEN", "HALF_OPEN"}
         /\ failures' \in 0..Threshold
         /\ probes' \in 0..MaxProbes
         /\ cooled' \in BOOLEAN
         /\ CountersMatchState'
<1> USE SdkAssumption
<1>1. CASE Admit
  <2>1. \/ state' = "HALF_OPEN" /\ failures' = failures /\ probes' = 0
           /\ state = "OPEN"
        \/ UNCHANGED <<state, failures, probes>>
    BY <1>1 DEF Admit, TransitionTo, breaker
  <2>2. cooled' \in BOOLEAN
    BY <1>1 DEF Admit, TransitionTo, breaker
  <2> QED
    BY <2>1, <2>2 DEF CountersMatchState
<1>2. CASE OnSuccess
  <2>1. cooled' \in BOOLEAN
    BY <1>2 DEF OnSuccess, TransitionTo, breaker
  <2>2. \/ /\ state = "HALF_OPEN" /\ probes + 1 >= MaxProbes
           /\ state' = "CLOSED" /\ failures' = 0 /\ probes' = probes + 1
        \/ /\ state = "HALF_OPEN" /\ probes + 1 < MaxProbes
           /\ probes' = probes + 1 /\ UNCHANGED <<state, failures>>
        \/ /\ state = "CLOSED" /\ failures' = 0
           /\ UNCHANGED <<state, probes>>
        \/ UNCHANGED <<state, failures, probes>>
    BY <1>2 DEF OnSuccess, TransitionTo, breaker
  <2> QED
    BY <2>1, <2>2 DEF CountersMatchState
<1>3. CASE OnFailure
  <2>1. cooled' \in BOOLEAN
    BY <1>3 DEF OnFailure, TransitionTo
  <2>2. \/ /\ state = "HALF_OPEN" \/ Count >= Threshold
           /\ state' = "OPEN" /\ failures' = Count /\ probes' = probes
        \/ /\ state # "HALF_OPEN" /\ ~(Count >= Threshold)
           /\ failures' = Count /\ UNCHANGED <<state, probes>>
    BY <1>3 DEF OnFailure, TransitionTo
  <2> QED
    BY <2>1, <2>2 DEF CountersMatchState, Count
<1>4. CASE UNCHANGED breaker
  BY <1>4 DEF CountersMatchState, breaker
<1> QED
  BY <1>1, <1>2, <1>3, <1>4

\* The end of a request takes its entry from the map and wakes all that have
\* joined it, and nobody else.
LEMMA LandStep ==
  ASSUME ClientInv, NEW r \in Requests, pc[r] = "fetch", Land(r)
  PROVE  /\ pc' \in [Requests -> {"idle", "fetch", "backoff", "joined"}]
         /\ tries' \in [Requests -> 0..MaxRetries]
         /\ flight' \in [Keys -> Requests \cup {None}]
         /\ MapIsInFlight'
<1> USE SdkAssumption DEF ClientInv, TypeOK
<1>1. /\ pc' \in [Requests -> {"idle", "fetch", "backoff", "joined"}]
      /\ tries' \in [Requests -> 0..MaxRetries]
      /\ flight' \in [Keys -> Requests \cup {None}]
  <2>1. pc' \in [Requests -> {"idle", "fetch", "backoff", "joined"}]
    BY DEF Land, Waiting
  <2>2. tries' \in [Requests -> 0..MaxRetries]
    BY DEF Land
  <2>3. flight' \in [Keys -> Requests \cup {None}]
    BY DEF Land
  <2> QED
    BY <2>1, <2>2, <2>3
<1>2. ASSUME NEW k \in Keys, NEW q \in Requests
      PROVE  flight'[k] = q <=>
               pc'[q] \in {"fetch", "backoff"} /\ KeyOf[q] = k /\ k \in Gets
  BY <1>2 DEF Land, Waiting, MapIsInFlight, Flying, IsGet
<1>3. ASSUME NEW q \in Requests, pc'[q] = "joined"
      PROVE  flight'[KeyOf[q]] # None
  BY <1>3 DEF Land, Waiting, MapIsInFlight, Flying, IsGet
<1> QED
  BY <1>1, <1>2, <1>3 DEF MapIsInFlight, Flying

\* Every step of the client preserves the invariant.
LEMMA ClientStep == ClientInv /\ [Next]_vars => ClientInv'
<1> SUFFICES ASSUME ClientInv, [Next]_vars PROVE ClientInv'
  OBVIOUS
<1> USE SdkAssumption DEF ClientInv
<1>1. ASSUME NEW r \in Requests, Join(r) PROVE ClientInv'
  BY <1>1 DEF Join, TypeOK, CountersMatchState, MapIsInFlight, Flying, IsGet,
              breaker
<1>2. ASSUME NEW r \in Requests, Launch(r) PROVE ClientInv'
  <2>1. /\ state' \in {"CLOSED", "OPEN", "HALF_OPEN"}
        /\ failures' \in 0..Threshold
        /\ probes' \in 0..MaxProbes
        /\ cooled' \in BOOLEAN
        /\ CountersMatchState'
    BY <1>2, BreakerStep DEF Launch, TypeOK
  <2>2. /\ pc' = [pc EXCEPT ![r] = "fetch"]
        /\ flight' = IF IsGet(r) THEN [flight EXCEPT ![KeyOf[r]] = r]
                                 ELSE flight
        /\ IsGet(r) => flight[KeyOf[r]] = None
        /\ pc[r] = "idle"
    BY <1>2 DEF Launch
  <2>3. TypeOK'
    BY <1>2, <2>1, <2>2 DEF Launch, TypeOK
  <2>4. MapIsInFlight'
    BY <2>2 DEF TypeOK, MapIsInFlight, Flying, IsGet
  <2> QED
    BY <2>1, <2>3, <2>4
<1>3. ASSUME NEW r \in Requests, FetchSucceeds(r) PROVE ClientInv'
  <2>1. /\ state' \in {"CLOSED", "OPEN", "HALF_OPEN"}
        /\ failures' \in 0..Threshold
        /\ probes' \in 0..MaxProbes
        /\ cooled' \in BOOLEAN
        /\ CountersMatchState'
    BY <1>3, BreakerStep DEF FetchSucceeds, TypeOK
  <2>2. cached' \subseteq Gets
    BY <1>3 DEF FetchSucceeds, TypeOK, IsGet
  <2> QED
    BY <1>3, <2>1, <2>2, LandStep DEF FetchSucceeds, TypeOK
<1>4. ASSUME NEW r \in Requests, FetchFails(r) PROVE ClientInv'
  <2>1. CASE /\ tries[r] < MaxRetries
             /\ tries' = [tries EXCEPT ![r] = @ + 1]
             /\ pc' = [pc EXCEPT ![r] = "backoff"]
             /\ UNCHANGED <<breaker, flight>>
    BY <1>4, <2>1 DEF FetchFails, TypeOK, CountersMatchState, MapIsInFlight,
                      Flying, breaker
  <2>2. CASE OnFailure /\ Land(r)
    <3>1. /\ state' \in {"CLOSED", "OPEN", "HALF_OPEN"}
          /\ failures' \in 0..Threshold
          /\ probes' \in 0..MaxProbes
          /\ cooled' \in BOOLEAN
          /\ CountersMatchState'
      BY <2>2, BreakerStep DEF TypeOK
    <3> QED
      BY <1>4, <2>2, <3>1, LandStep DEF FetchFails, TypeOK
  <2> QED
    BY <1>4, <2>1, <2>2 DEF FetchFails
<1>5. ASSUME NEW r \in Requests, Retry(r) PROVE ClientInv'
  BY <1>5 DEF Retry, TypeOK, CountersMatchState, MapIsInFlight, Flying, breaker
<1>6. CASE Cools
  BY <1>6 DEF Cools, TypeOK, CountersMatchState, MapIsInFlight, Flying
<1>7. ASSUME NEW k \in Keys, Uncache(k) PROVE ClientInv'
  BY <1>7 DEF Uncache, TypeOK, CountersMatchState, MapIsInFlight, Flying,
              breaker
<1>8. CASE UNCHANGED vars
  BY <1>8 DEF vars, TypeOK, CountersMatchState, MapIsInFlight, Flying, breaker
<1> QED
  BY <1>1, <1>2, <1>3, <1>4, <1>5, <1>6, <1>7, <1>8 DEF Next

\* The invariant the results below are read off from.
LEMMA ClientAlways == Spec => []ClientInv
BY ClientInit, ClientStep, PTL DEF Spec

\* CircuitBreaker: whatever results of earlier states arrive, the breaker is
\* closed exactly while its failures are below failureThreshold.
THEOREM BreakerCounts == Spec => []CountersMatchState
<1>1. ClientInv => CountersMatchState
  BY DEF ClientInv
<1> QED
  BY <1>1, ClientAlways, PTL

\* inFlightRequests of BaseClient has an entry exactly while its request is
\* under way.
THEOREM MapFollowsFlights == Spec => []MapIsInFlight
<1>1. ClientInv => MapIsInFlight
  BY DEF ClientInv
<1> QED
  BY <1>1, ClientAlways, PTL

\* Request deduplication of BaseClient: one network round trip at a time for
\* identical GETs.
THEOREM GetsAreShared == Spec => []OneFlightPerGet
<1>1. ClientInv => OneFlightPerGet
  BY SdkAssumption DEF ClientInv, MapIsInFlight, OneFlightPerGet, IsGet
<1> QED
  BY <1>1, ClientAlways, PTL
=============================================================================
