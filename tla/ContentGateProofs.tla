------------------------- MODULE ContentGateProofs -------------------------
(***************************************************************************)
(* The breaker of the content gate, for any number of concurrent requests, *)
(* any thresholds and any disconnects.                                     *)
(***************************************************************************)
EXTENDS ContentGate, BreakerGateProofs

\* Every step of the content gate keeps the invariant of the breaker.
LEMMA ContentStep == GateInv /\ [ContentNext]_vars => GateInv'
<1> SUFFICES ASSUME GateInv, [ContentNext]_vars
             PROVE  GateInv'
  OBVIOUS
<1>1. CASE [GateNext]_vars
  BY <1>1, GateStep
<1>2. ASSUME NEW c \in Callers, CacheHit(c)
      PROVE  GateInv'
  BY <1>2, VanishStep DEF CacheHit
<1> QED
  BY <1>1, <1>2 DEF ContentNext

\* The breaker record is well formed, and so is the bookkeeping of the callers.
THEOREM TypeCorrect == Spec => []TypeOK
<1>1. Spec => []GateInv
  BY GateInit, ContentStep, PTL DEF Spec
<1> QED
  BY <1>1, GateInvImplies, PTL

\* An open breaker always has a failure time to wait for, so that it can always
\* leave Open, and its counters never stand at a threshold not acted on.
THEOREM NeverStuckOpen == Spec => [](OpenHasFailureTime /\ CountersMatchState)
<1>1. Spec => []GateInv
  BY GateInit, ContentStep, PTL DEF Spec
<1> QED
  BY <1>1, GateInvImplies, PTL

\* The sliding window stays ordered by time, and consecutive_failures counts
\* failures at its end, however the answers of concurrent requests interleave.
THEOREM WindowFaithful == Spec => [](WindowOrdered /\ StreakInWindow)
<1>1. Spec => []GateInv
  BY GateInit, ContentStep, PTL DEF Spec
<1> QED
  BY <1>1, GateInvImplies, PTL

\* In HalfOpen at most one probe is out, plus one for each late answer of a
\* request that was admitted before.
THEOREM ProbesAreBounded == Spec => []ProbesBounded
<1>1. Spec => []GateInv
  BY GateInit, ContentStep, PTL DEF Spec
<1> QED
  BY <1>1, GateInvImplies, PTL

-----------------------------------------------------------------------------
\* Only record_success raises consecutive_successes, by one, and only in HalfOpen.
LEMMA SuccessesRise ==
  ASSUME NEW b, Sound(b)
  PROVE  /\ RecordSuccess(b).state = "HalfOpen" =>
              /\ b.state = "HalfOpen"
              /\ RecordSuccess(b).consecutive_successes = b.consecutive_successes + 1
         /\ RecordFailure(b).consecutive_successes = 0
         /\ Allows(b) =>
              AfterAllow(b).consecutive_successes
                = IF b.state = "HalfOpen" THEN b.consecutive_successes
                  ELSE 0
         /\ AgeBreaker(b).consecutive_successes = b.consecutive_successes
<1>1. RecordSuccess(b).state = "HalfOpen" =>
        /\ b.state = "HalfOpen"
        /\ RecordSuccess(b).consecutive_successes = b.consecutive_successes + 1
  BY SoundFields DEF RecordSuccess, SuccessWith, DoTransition, HasFields, Fields, CircuitState
<1>2. RecordFailure(b).consecutive_successes = 0
  BY SoundFields DEF RecordFailure, DoTransition, HasFields, Fields
<1>3. Allows(b) => AfterAllow(b).consecutive_successes
                     = IF b.state = "HalfOpen" THEN b.consecutive_successes ELSE 0
  BY SoundFields DEF AfterAllow, DoTransition, HasFields, Fields, Sound
<1>4. AgeBreaker(b).consecutive_successes = b.consecutive_successes
  BY SoundFields DEF AgeBreaker, HasFields, Fields
<1> QED
  BY <1>1, <1>2, <1>3, <1>4

\* What the content breaker counts towards closing are answers of the Content
\* API: cached outcomes never close it.
THEOREM OnlyHeardSuccesses == Spec => []SuccessesWereHeard
<1>1. Init => SuccessesWereHeard
  BY DEF Init, SuccessesWereHeard, NewBreaker
<1>2. GateInv /\ GateInv' /\ SuccessesWereHeard /\ [ContentNext]_vars => SuccessesWereHeard'
  <2> SUFFICES ASSUME GateInv, GateInv', SuccessesWereHeard, [ContentNext]_vars
               PROVE  breaker'.consecutive_successes <= heard'
    BY DEF SuccessesWereHeard
  <2>0. /\ Sound(breaker) /\ heard \in Nat /\ heard' \in Nat
        /\ breaker.consecutive_successes \in Nat /\ breaker.consecutive_successes <= heard
        /\ breaker'.state # "HalfOpen" => breaker'.consecutive_successes = 0
    BY SoundFields DEF GateInv, GateTypeOK, Sound, SuccessesWereHeard
  <2>1. ASSUME NEW c \in Callers, NEW k \in Keys, Admit(c, k)
        PROVE  breaker'.consecutive_successes <= heard'
    BY <2>0, <2>1, SuccessesRise DEF Admit
  <2>2. ASSUME NEW c \in Callers, ReportSuccess(c)
        PROVE  breaker'.consecutive_successes <= heard'
    <3>1. CASE breaker'.state = "HalfOpen"
      <4>1. breaker' = RecordSuccess(breaker)
        BY <2>2 DEF ReportSuccess, Report
      <4>2. /\ breaker.state = "HalfOpen"
            /\ breaker'.consecutive_successes = breaker.consecutive_successes + 1
        BY <2>0, <3>1, <4>1, SuccessesRise
      <4>3. heard' = heard + 1
        BY <2>2, <3>1, <4>1, <4>2 DEF ReportSuccess, Report, HistoryAfter
      <4> QED
        BY <2>0, <4>2, <4>3
    <3>2. CASE breaker'.state # "HalfOpen"
      BY <2>0, <3>2
    <3> QED
      BY <3>1, <3>2
  <2>3. ASSUME NEW c \in Callers, ReportFailure(c)
        PROVE  breaker'.consecutive_successes <= heard'
    BY <2>0, <2>3, SuccessesRise DEF ReportFailure, Report
  <2>4. ASSUME NEW c \in Callers, CacheMiss(c) \/ Answer(c) \/ Disconnect(c) \/ CacheHit(c)
        PROVE  breaker'.consecutive_successes <= heard'
    BY <2>0, <2>4 DEF CacheMiss, Answer, Disconnect, CacheHit, Vanish, history
  <2>5. CASE Tick
    BY <2>0, <2>5, SuccessesRise DEF Tick, history
  <2>6. CASE UpstreamFlips \/ (\E k \in Keys : Expire(k)) \/ UNCHANGED vars
    BY <2>0, <2>6 DEF UpstreamFlips, Expire, history, vars
  <2> QED
    BY <2>1, <2>2, <2>3, <2>4, <2>5, <2>6 DEF ContentNext, GateNext, CallerStep
<1>3. Spec => []GateInv
  BY GateInit, ContentStep, PTL DEF Spec
<1> QED
  BY <1>1, <1>2, <1>3, PTL DEF Spec

\* A Closed breaker opens only on FailureThreshold failures in a row or on a window
\* of fresh outcomes with too many failures, whoever reports and in which order.
THEOREM TripsAreJustified == Spec => TripsJustified
<1>1. GateInv /\ [ContentNext]_vars => [TripsOnEvidence]_vars
  <2> SUFFICES ASSUME GateInv, [ContentNext]_vars
               PROVE  TripsOnEvidence
    OBVIOUS
  <2>1. CASE [GateNext]_vars
    BY <2>1, GateTrips
  <2>2. CASE \E c \in Callers : CacheHit(c)
    BY <2>2 DEF CacheHit, Vanish, TripsOnEvidence
  <2> QED
    BY <2>1, <2>2 DEF ContentNext
<1>2. Spec => []GateInv
  BY GateInit, ContentStep, PTL DEF Spec
<1> QED
  BY <1>1, <1>2, PTL DEF Spec, TripsJustified

=============================================================================
