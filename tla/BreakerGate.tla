---------------------------- MODULE BreakerGate ----------------------------
(***************************************************************************)
(* Requests that pass the circuit breaker, ask a validator and report the  *)
(* answer to the breaker: what LikeCommandService::validate_content and    *)
(* auth::authenticate_token have in common.  Tasks interleave at every     *)
(* await: after allow_request, in the cache lookup, in the remote call and *)
(* in the cache write that precedes the report.  ContentGate and           *)
(* ProfileGate add what the two do with a cache hit.                       *)
(*                                                                         *)
(* A client that goes away drops the request's future at any await; then   *)
(* nothing is reported to the breaker (Disconnect).                        *)
(***************************************************************************)
EXTENDS CircuitBreaker

CONSTANTS
  Callers,       \* concurrent requests
  Keys,          \* contents to validate (cv: keys) or tokens (tok: keys)
  Disconnects,   \* the callers whose client may go away
  MaxWindow      \* bound: outcomes recorded within one RateWindow

ASSUME GateAssumption ==
  /\ IsFiniteSet(Callers)
  /\ Disconnects \subseteq Callers
  /\ MaxWindow \in Nat \ {0}

VARIABLES
  breaker,    \* the Inner record of the shared CircuitBreaker
  pc,         \* where each caller is
  key,        \* what each caller validates
  cached,     \* keys with an unexpired validation result in the cache
  upstream,   \* "up" or "down": whether the remote API answers
  probes,     \* history: callers admitted in the current HalfOpen episode
              \* whose request has not ended
  late,       \* history: answers of callers admitted before this HalfOpen
              \* episode that were recorded during it
  heard       \* history: remote answers recorded as successes during it

gateVars == <<pc, key, cached, upstream>>
history  == <<probes, late, heard>>
vars     == <<breaker, pc, key, cached, upstream, probes, late, heard>>

PC == {"idle", "validating", "remote", "answered"}

Init ==
  /\ breaker = NewBreaker
  /\ pc = [c \in Callers |-> "idle"]
  /\ key \in [Callers -> Keys]
  /\ cached = {}
  /\ upstream \in {"up", "down"}
  /\ probes = {} /\ late = 0 /\ heard = 0

\* The history of the episode after caller c ends with breaker b: it starts
\* afresh when the breaker changes state.
HistoryAfter(c, b, isLate, isHeard) ==
  IF b.state # breaker.state \/ b.state # "HalfOpen"
    THEN probes' = {} /\ late' = 0 /\ heard' = 0
    ELSE /\ probes' = probes \ {c}
         /\ late' = IF isLate THEN late + 1 ELSE late
         /\ heard' = IF isHeard THEN heard + 1 ELSE heard

\* allow_request admits caller c, which goes on to validate k.
Admit(c, k) ==
  /\ pc[c] = "idle"
  /\ Allows(breaker)
  /\ breaker' = AfterAllow(breaker)
  /\ pc' = [pc EXCEPT ![c] = "validating"]
  /\ key' = [key EXCEPT ![c] = k]
  /\ probes' = IF breaker.state = "Closed" THEN {}
               ELSE IF breaker.state = "Open" THEN {c} ELSE probes \cup {c}
  /\ IF breaker.state = "HalfOpen" THEN UNCHANGED <<late, heard>>
     ELSE late' = 0 /\ heard' = 0
  /\ UNCHANGED <<cached, upstream>>

\* The cache lookup finds nothing, or Redis does not answer it: the remote
\* API is called.
CacheMiss(c) ==
  /\ pc[c] = "validating"
  /\ pc' = [pc EXCEPT ![c] = "remote"]
  /\ UNCHANGED <<breaker, key, cached, upstream, history>>

\* The API gives a cacheable answer, which is written to the cache first.
Answer(c) ==
  /\ pc[c] = "remote"
  /\ upstream = "up"
  /\ cached' = cached \cup {key[c]}
  /\ pc' = [pc EXCEPT ![c] = "answered"]
  /\ UNCHANGED <<breaker, key, upstream, history>>

\* record_success and record_failure by caller c; the bound on the window is
\* the only guard that is not in the code.
Roomy(b) == Len(b.call_window) < MaxWindow \/ Expired(b.call_window) > 0

Report(c, b, isHeard) ==
  /\ Roomy(breaker)
  /\ breaker' = b
  /\ pc' = [pc EXCEPT ![c] = "idle"]
  /\ HistoryAfter(c, b, c \notin probes, isHeard)
  /\ UNCHANGED <<key, cached, upstream>>

ReportSuccess(c) ==
  /\ pc[c] = "answered"
  /\ Report(c, RecordSuccess(breaker), TRUE)

\* Connection error, timeout or 5xx: nothing is cached, and the failure is
\* recorded with no await in between.
ReportFailure(c) ==
  /\ pc[c] = "remote"
  /\ upstream = "down"
  /\ Report(c, RecordFailure(breaker), FALSE)

\* The request ends without a word to the breaker.
Vanish(c) ==
  /\ pc' = [pc EXCEPT ![c] = "idle"]
  /\ probes' = probes \ {c}
  /\ UNCHANGED <<breaker, key, cached, upstream, late, heard>>

Disconnect(c) ==
  /\ c \in Disconnects
  /\ pc[c] # "idle"
  /\ Vanish(c)

-----------------------------------------------------------------------------
Tick ==
  /\ breaker' = AgeBreaker(breaker)
  /\ UNCHANGED <<gateVars, history>>

\* The TTL of a validation result runs out.
Expire(k) ==
  /\ k \in cached
  /\ cached' = cached \ {k}
  /\ UNCHANGED <<breaker, pc, key, upstream, history>>

UpstreamFlips ==
  /\ upstream' = IF upstream = "up" THEN "down" ELSE "up"
  /\ UNCHANGED <<breaker, pc, key, cached, history>>

CallerStep(c) == CacheMiss(c) \/ Answer(c) \/ ReportSuccess(c) \/ ReportFailure(c)

GateNext ==
  \/ \E c \in Callers : \/ \E k \in Keys : Admit(c, k)
                        \/ CallerStep(c)
                        \/ Disconnect(c)
  \/ \E k \in Keys : Expire(k)
  \/ Tick
  \/ UpstreamFlips

\* The clock runs and requests keep arriving.
GateFairness ==
  /\ WF_vars(Tick)
  /\ WF_vars(\E c \in Callers, k \in Keys : Admit(c, k))

-----------------------------------------------------------------------------
(* Properties of the breaker under any interleaving of its callers.        *)

TypeOK ==
  /\ breaker \in Inner
  /\ pc \in [Callers -> PC]
  /\ key \in [Callers -> Keys]
  /\ cached \subseteq Keys
  /\ upstream \in {"up", "down"}
  /\ probes \subseteq Callers
  /\ late \in Nat
  /\ heard \in Nat

\* An open breaker has a failure time: allow_request answers false for ever
\* when it has none (unwrap_or(false)), so it could never leave Open.
OpenHasFailureTime ==
  breaker.state = "Open" => breaker.last_failure_time # None

\* The counters never stand at a threshold they should have acted on: a
\* Closed breaker is below the failure threshold, consecutive_successes is
\* zero except while HalfOpen counts up to the success threshold, and the
\* probe slot is only ever taken in HalfOpen.
CountersMatchState ==
  /\ breaker.state = "Closed" => breaker.consecutive_failures < FailureThreshold
  /\ breaker.state # "HalfOpen" => /\ breaker.consecutive_successes = 0
                                   /\ ~breaker.probe_in_flight
  /\ breaker.consecutive_successes < SuccessThreshold

\* While Closed, consecutive_failures counts failures that really were the
\* latest outcomes: as far as the window reaches back, its last
\* consecutive_failures records are all failures.
StreakInWindow ==
  breaker.state = "Closed" =>
    \A i \in DOMAIN breaker.call_window :
      i > Len(breaker.call_window) - breaker.consecutive_failures
        => ~breaker.call_window[i].success

\* The window is ordered by time, oldest first: the pruning loop of push_call
\* stops at the first fresh record, so it is only right on an ordered window.
WindowOrdered ==
  \A i, j \in DOMAIN breaker.call_window :
    i < j => breaker.call_window[i].age >= breaker.call_window[j].age

\* A Closed breaker opens only on evidence that is still fresh: after
\* FailureThreshold failures in a row, or when, counting only outcomes no older
\* than RateWindow, there are MinCallsForRate of them and more than the
\* threshold share are failures.
TripsOnEvidence ==
  breaker.state = "Closed" /\ breaker'.state = "Open" =>
    LET w     == breaker'.call_window
        fresh == {i \in DOMAIN w : w[i].age <= RateWindow}
        bad   == {i \in fresh : ~w[i].success}
    IN \/ breaker'.consecutive_failures = FailureThreshold
       \/ /\ Cardinality(fresh) >= MinCallsForRate
          /\ Cardinality(bad) * RateDen > RateNum * Cardinality(fresh)

\* Every step of the gate keeps to that: no trip on stale or missing evidence.
TripsJustified == [][TripsOnEvidence]_vars

\* A HalfOpen breaker lets at most one probe out at a time, and one more for
\* each late answer of a request admitted before: such an answer frees the
\* probe slot although the probe is still out.
ProbesBounded ==
  breaker.state = "HalfOpen" => Cardinality(probes) <= 1 + late

\* Only answers of the remote API count towards closing the breaker.
SuccessesWereHeard == breaker.consecutive_successes <= heard

\* The probe slot is taken only while a probe is really in flight: otherwise
\* nobody is left to free it and the breaker rejects every request for ever.
ProbeSlotIsHeld == breaker.probe_in_flight => probes # {}

\* Once the upstream API stays up, the breaker closes again and again: no
\* sequence of outages leaves it rejecting a healthy upstream for ever.
Recovers == <>[](upstream = "up") => []<>(breaker.state = "Closed")

=============================================================================
