--------------------------- MODULE CircuitBreaker ---------------------------
(***************************************************************************)
(* The circuit breaker of crates/social-api/src/clients/circuit_breaker.rs *)
(* as operators on the record its mutex protects (struct Inner).  Every    *)
(* public method runs under one lock hold, so each is one atomic step of   *)
(* the modules that use it.                                                *)
(*                                                                         *)
(* Instants are represented by their age.  The code only ever asks whether *)
(* an age has reached RecoveryTimeout or exceeds RateWindow, so ages       *)
(* saturate there (AgeBreaker) and time itself is unbounded.               *)
(***************************************************************************)
EXTENDS Integers, Sequences, FiniteSets

CONSTANTS
  FailureThreshold,   \* config.failure_threshold
  RecoveryTimeout,    \* config.recovery_timeout, in ticks
  SuccessThreshold,   \* config.success_threshold
  RateWindow,         \* config.rate_window, in ticks
  RateNum, RateDen,   \* config.failure_rate_threshold = RateNum / RateDen
  MinCallsForRate,    \* config.min_calls_for_rate
  None                \* Option::None of last_failure_time

ASSUME BreakerAssumption ==
  /\ FailureThreshold \in Nat \ {0}
  /\ RecoveryTimeout \in Nat
  /\ SuccessThreshold \in Nat \ {0}
  /\ RateWindow \in Nat
  /\ RateNum \in Nat
  /\ RateDen \in Nat \ {0}
  /\ MinCallsForRate \in Nat
  /\ None \notin Nat

CircuitState == {"Closed", "HalfOpen", "Open"}

\* A call outcome and the age of its timestamp.
CallRecord == [age : 0 .. RateWindow + 1, success : BOOLEAN]

\* consecutive_failures is read only in Closed, where it is compared with the
\* threshold: the model keeps it saturated at FailureThreshold.
Inner == [state                 : CircuitState,
          consecutive_failures  : 0 .. FailureThreshold,
          consecutive_successes : Nat,
          last_failure_time     : (0 .. RecoveryTimeout) \cup {None},
          call_window           : Seq(CallRecord),
          probe_in_flight       : BOOLEAN]

NewBreaker == [state                 |-> "Closed",
               consecutive_failures  |-> 0,
               consecutive_successes |-> 0,
               last_failure_time     |-> None,
               call_window           |-> << >>,
               probe_in_flight       |-> FALSE]

Saturate(n, cap) == IF n < cap THEN n + 1 ELSE cap

\* One tick of the monotonic clock as seen through Instant::elapsed.
AgeWindow(w) ==
  [i \in DOMAIN w |-> [age     |-> Saturate(w[i].age, RateWindow + 1),
                       success |-> w[i].success]]

AgeBreaker(b) ==
  [b EXCEPT
     !.last_failure_time = IF @ = None THEN None
                                       ELSE Saturate(@, RecoveryTimeout),
     !.call_window = AgeWindow(@)]

-----------------------------------------------------------------------------
\* Mutant: changes the state and resets nothing.
DoTransitionOnly(b, s) == [b EXCEPT !.state = s]

DoTransition(b, s) ==
  IF b.state = s THEN b
  ELSE [b EXCEPT
          !.state                 = s,
          !.consecutive_failures  = IF s = "Closed" THEN 0 ELSE @,
          !.consecutive_successes = 0,
          !.probe_in_flight       = FALSE,
          !.call_window           = IF s = "Closed" THEN << >> ELSE @]

\* The number of records the pruning loop pops: it stops at the first record
\* from the front that is still inside the window.
Expired(w) ==
  Cardinality({i \in DOMAIN w : \A j \in 1 .. i : w[j].age > RateWindow})

\* Mutant: the newest record goes to the front.
PushCallFront(w, ok) ==
  <<[age |-> 0, success |-> ok]>> \o SubSeq(w, Expired(w) + 1, Len(w))

\* Mutant: the window is never pruned.
PushCallUnpruned(w, ok) == Append(w, [age |-> 0, success |-> ok])

PushCall(w, ok) ==
  Append(SubSeq(w, Expired(w) + 1, Len(w)), [age |-> 0, success |-> ok])

FailureRateExceeded(w) ==
  /\ Len(w) >= MinCallsForRate
  /\ Cardinality({i \in DOMAIN w : ~w[i].success}) * RateDen
       > RateNum * Len(w)

-----------------------------------------------------------------------------
\* allow_request: whether the caller is admitted, and the breaker afterwards.
Allows(b) ==
  CASE b.state = "Closed"   -> TRUE
    [] b.state = "HalfOpen" -> ~b.probe_in_flight
    [] b.state = "Open"     -> /\ b.last_failure_time # None
                               /\ b.last_failure_time >= RecoveryTimeout

\* Mutant: HalfOpen does not take the probe slot.
AfterAllowUnmarked(b) ==
  IF b.state = "Closed" THEN b ELSE DoTransition(b, "HalfOpen")

AfterAllow(b) ==
  IF b.state = "Closed" THEN b
  ELSE [DoTransition(b, "HalfOpen") EXCEPT !.probe_in_flight = TRUE]

\* record_success, with the streak of failures it leaves behind.
SuccessWith(b, streak) ==
  LET c == [b EXCEPT
              !.consecutive_failures  = streak,
              !.probe_in_flight       = FALSE,
              !.call_window           = IF b.state # "Open"
                                          THEN PushCall(@, TRUE) ELSE @,
              !.consecutive_successes = IF b.state = "HalfOpen"
                                          THEN @ + 1 ELSE @]
  IN IF c.state = "HalfOpen" /\ c.consecutive_successes >= SuccessThreshold
       THEN DoTransition(c, "Closed") ELSE c

\* Mutants: a success takes one failure off the streak, or leaves it alone.
RecordSuccessDecays(b) == SuccessWith(b, b.consecutive_failures - 1)
RecordSuccessKeepsStreak(b) == SuccessWith(b, b.consecutive_failures)

RecordSuccess(b) == SuccessWith(b, 0)

\* Mutant: the failure that opens the breaker leaves no last_failure_time.
RecordFailureUndated(b) ==
  LET n == Saturate(b.consecutive_failures, FailureThreshold)
      c == [b EXCEPT !.consecutive_successes = 0, !.probe_in_flight = FALSE,
                     !.consecutive_failures = n]
  IN IF n >= FailureThreshold THEN DoTransition(c, "Open") ELSE c

RecordFailure(b) ==
  LET c == [b EXCEPT
              !.consecutive_successes = 0,
              !.probe_in_flight       = FALSE,
              !.last_failure_time     = 0,
              !.call_window           = IF b.state # "Open"
                                          THEN PushCall(@, FALSE) ELSE @,
              !.consecutive_failures  = IF b.state = "HalfOpen" THEN @
                                          ELSE Saturate(@, FailureThreshold)]
  IN IF \/ c.state = "HalfOpen"
        \/ /\ c.state = "Closed"
           /\ \/ c.consecutive_failures >= FailureThreshold
              \/ FailureRateExceeded(c.call_window)
       THEN DoTransition(c, "Open") ELSE c

=============================================================================
