----------------------------- MODULE SdkClient -----------------------------
(***************************************************************************)
(* BaseClient of @axiomify/sdk-runtime: requests that overlap go through   *)
(* its response cache, the map of GET requests in flight, the circuit      *)
(* breaker and withRetry.                                                  *)
(*                                                                         *)
(* The breaker looks at its state when a request is admitted and again     *)
(* when the request has ended, retries and all; between the two any number *)
(* of other requests begin and end.  Elapsed time appears as "cooled", the *)
(* cooldown period has passed since the last change of state.              *)
(***************************************************************************)
EXTENDS Naturals

CONSTANTS
  Requests,     \* the callers of request()
  None,         \* not a caller
  Keys,         \* the cache keys: method, path, query and headers
  KeyOf,        \* the key of each caller's request
  Gets,         \* the keys of GET requests
  Threshold,    \* failureThreshold
  MaxProbes,    \* halfOpenMaxProbeRequests
  MaxRetries,   \* maxRetries of withRetry
  EnableCache   \* enableCache

ASSUME SdkAssumption ==
  /\ None \notin Requests
  /\ KeyOf \in [Requests -> Keys]
  /\ Gets \subseteq Keys
  /\ Threshold \in Nat \ {0}
  /\ MaxProbes \in Nat \ {0}
  /\ MaxRetries \in Nat
  /\ EnableCache \in BOOLEAN

VARIABLES
  state,      \* state of the breaker
  failures,   \* its failures, those beyond Threshold not counted
  probes,     \* halfOpenSuccessfulRequests
  cooled,     \* more than cooldownPeriodMs have passed since lastStateChange
  pc,         \* what each caller is waiting for
  tries,      \* attempts of its withRetry
  flight,     \* inFlightRequests
  cached      \* the keys with a fresh entry in the cache

breaker == <<state, failures, probes, cooled>>
vars == <<breaker, pc, tries, flight, cached>>

TypeOK ==
  /\ state \in {"CLOSED", "OPEN", "HALF_OPEN"}
  /\ failures \in 0..Threshold
  /\ probes \in 0..MaxProbes
  /\ cooled \in BOOLEAN
  /\ pc \in [Requests -> {"idle", "fetch", "backoff", "joined"}]
  /\ tries \in [Requests -> 0..MaxRetries]
  /\ flight \in [Keys -> Requests \cup {None}]
  /\ cached \subseteq Gets

Init ==
  /\ state = "CLOSED"
  /\ failures = 0
  /\ probes = 0
  /\ cooled = FALSE
  /\ pc = [r \in Requests |-> "idle"]
  /\ tries = [r \in Requests |-> 0]
  /\ flight = [k \in Keys |-> None]
  /\ cached = {}

Flying(r) == pc[r] \in {"fetch", "backoff"}
IsGet(r) == KeyOf[r] \in Gets

-----------------------------------------------------------------------------
(* The breaker.                                                            *)

\* The breaker changes to state s, with f failures and p probes counted.
TransitionTo(s, f, p) ==
  /\ state' = s
  /\ failures' = IF s = "CLOSED" THEN 0 ELSE f
  /\ probes' = IF s = "HALF_OPEN" THEN 0 ELSE p
  /\ cooled' = FALSE

\* checkState, and the test after it: the request may be tried.
Admit ==
  \/ state = "OPEN" /\ cooled /\ TransitionTo("HALF_OPEN", failures, probes)
  \/ state # "OPEN" /\ UNCHANGED breaker

OnSuccess ==
  \/ /\ state = "HALF_OPEN" /\ probes + 1 >= MaxProbes
     /\ TransitionTo("CLOSED", failures, probes + 1)
  \/ /\ state = "HALF_OPEN" /\ probes + 1 < MaxProbes
     /\ probes' = probes + 1
     /\ UNCHANGED <<state, failures, cooled>>
  \/ /\ state = "CLOSED"
     /\ failures' = 0
     /\ UNCHANGED <<state, probes, cooled>>
  \/ state = "OPEN" /\ UNCHANGED breaker

\* failures++, saturated.
Count == IF failures < Threshold THEN failures + 1 ELSE Threshold

\* Mutant of OnFailure: off by one.
OnFailureLate ==
  IF state = "HALF_OPEN" \/ failures >= Threshold
    THEN TransitionTo("OPEN", Count, probes)
    ELSE failures' = Count /\ UNCHANGED <<state, probes, cooled>>

\* A failure that arrives when the breaker is open starts its cooldown anew.
OnFailure ==
  IF state = "HALF_OPEN" \/ Count >= Threshold
    THEN TransitionTo("OPEN", Count, probes)
    ELSE failures' = Count /\ UNCHANGED <<state, probes, cooled>>

-----------------------------------------------------------------------------
(* request().  A cache hit, and a request the breaker refuses, change      *)
(* nothing.                                                                *)

Miss(r) == ~(EnableCache /\ KeyOf[r] \in cached)

\* An identical GET is in flight: its promise is returned.
Join(r) ==
  /\ pc[r] = "idle"
  /\ Miss(r)
  /\ IsGet(r) /\ flight[KeyOf[r]] # None
  /\ pc' = [pc EXCEPT ![r] = "joined"]
  /\ UNCHANGED <<breaker, tries, flight, cached>>

\* Mutant of Launch: the map of requests in flight is not looked at.
LaunchAnyway(r) ==
  /\ pc[r] = "idle"
  /\ Miss(r)
  /\ Admit
  /\ pc' = [pc EXCEPT ![r] = "fetch"]
  /\ flight' = IF IsGet(r) THEN [flight EXCEPT ![KeyOf[r]] = r] ELSE flight
  /\ UNCHANGED <<tries, cached>>

\* The request is admitted and its first fetch starts.
Launch(r) ==
  /\ pc[r] = "idle"
  /\ Miss(r)
  /\ IsGet(r) => flight[KeyOf[r]] = None
  /\ Admit
  /\ pc' = [pc EXCEPT ![r] = "fetch"]
  /\ flight' = IF IsGet(r) THEN [flight EXCEPT ![KeyOf[r]] = r] ELSE flight
  /\ UNCHANGED <<tries, cached>>

\* Those who wait for the promise of request r, r among them.
Waiting(r) ==
  {r} \cup {q \in Requests : pc[q] = "joined" /\ KeyOf[q] = KeyOf[r]
                               /\ flight[KeyOf[r]] = r}

\* Mutant of Land: the entry of the map is not removed.
LandLeaks(r) ==
  /\ pc' = [q \in Requests |-> IF q \in Waiting(r) THEN "idle" ELSE pc[q]]
  /\ tries' = [tries EXCEPT ![r] = 0]
  /\ UNCHANGED flight

\* The promise of request r settles, for all who wait for it.
Land(r) ==
  /\ pc' = [q \in Requests |-> IF q \in Waiting(r) THEN "idle" ELSE pc[q]]
  /\ tries' = [tries EXCEPT ![r] = 0]
  /\ flight' = IF IsGet(r) THEN [flight EXCEPT ![KeyOf[r]] = None] ELSE flight

\* The answer is cached, or an error interceptor has made it up.
FetchSucceeds(r) ==
  /\ pc[r] = "fetch"
  /\ \/ EnableCache /\ IsGet(r) /\ cached' = cached \cup {KeyOf[r]}
     \/ UNCHANGED cached
  /\ OnSuccess
  /\ Land(r)

\* Mutant of FetchFails: the retries are not counted.
FetchFailsUncounted(r) ==
  /\ pc[r] = "fetch"
  /\ pc' = [pc EXCEPT ![r] = "backoff"]
  /\ UNCHANGED <<breaker, tries, flight, cached>>

\* A fetch fails, or the answer is an error: once more after a delay, unless
\* it was the last try or its status is not retryable.
FetchFails(r) ==
  /\ pc[r] = "fetch"
  /\ \/ /\ tries[r] < MaxRetries
        /\ tries' = [tries EXCEPT ![r] = @ + 1]
        /\ pc' = [pc EXCEPT ![r] = "backoff"]
        /\ UNCHANGED <<breaker, flight>>
     \/ OnFailure /\ Land(r)
  /\ UNCHANGED cached

\* The delay of withRetry is over.
Retry(r) ==
  /\ pc[r] = "backoff"
  /\ pc' = [pc EXCEPT ![r] = "fetch"]
  /\ UNCHANGED <<breaker, tries, flight, cached>>

Cools ==
  /\ state = "OPEN"
  /\ ~cooled
  /\ cooled' = TRUE
  /\ UNCHANGED <<state, failures, probes, pc, tries, flight, cached>>

\* An entry expires or is evicted.
Uncache(k) ==
  /\ k \in cached
  /\ cached' = cached \ {k}
  /\ UNCHANGED <<breaker, pc, tries, flight>>

Next ==
  \/ \E r \in Requests :
       \/ Join(r)
       \/ Launch(r)
       \/ FetchSucceeds(r)
       \/ FetchFails(r)
       \/ Retry(r)
  \/ Cools
  \/ \E k \in Keys : Uncache(k)

Spec == Init /\ [][Next]_vars

\* A fetch settles (timeoutMs aborts it), delays end and time passes.
FairSpec ==
  /\ Spec
  /\ \A r \in Requests :
       WF_vars(FetchSucceeds(r) \/ FetchFails(r)) /\ WF_vars(Retry(r))
  /\ WF_vars(Cools)

-----------------------------------------------------------------------------
(* Properties.                                                             *)

\* onSuccess and onFailure apply results of requests admitted in another
\* state of the breaker: still it is closed exactly as long as its failures
\* are below the threshold, and half open only short of enough probes.
CountersMatchState ==
  /\ state = "CLOSED" <=> failures < Threshold
  /\ state = "HALF_OPEN" => probes < MaxProbes

\* Request deduplication: two identical GETs are never on the network at the
\* same time, although callers join, fail, retry and start again.
OneFlightPerGet ==
  \A q, r \in Requests :
    Flying(q) /\ Flying(r) /\ KeyOf[q] = KeyOf[r] /\ IsGet(q) => q = r

\* inFlightRequests: an entry is there exactly as long as its request is in
\* flight, so nobody joins, or goes on waiting for, a request that has ended.
MapIsInFlight ==
  /\ \A k \in Keys, r \in Requests :
       flight[k] = r <=> Flying(r) /\ KeyOf[r] = k /\ k \in Gets
  /\ \A r \in Requests : pc[r] = "joined" => flight[KeyOf[r]] # None

\* Every caller gets an answer, its own or that of the request it has joined.
EveryRequestReturns ==
  \A r \in Requests : pc[r] # "idle" ~> pc[r] = "idle"
=============================================================================
