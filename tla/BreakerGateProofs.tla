------------------------- MODULE BreakerGateProofs -------------------------
(***************************************************************************)
(* What each method of the circuit breaker preserves, whatever the         *)
(* thresholds and the lengths of the windows, and that the steps the two   *)
(* gates share keep the breaker sound and bound the probes, for any number *)
(* of concurrent requests.                                                 *)
(***************************************************************************)
EXTENDS BreakerGate, SequenceTheorems, FiniteSetTheorems, NaturalsInduction,
        WellFoundedInduction, TLAPS

\* Oldest record first.
Ordered(w) == \A i, j \in DOMAIN w : i < j => w[i].age >= w[j].age

\* The last n records of w are failures, as far as w reaches back.
EndsInFailures(w, n) == \A i \in DOMAIN w : i > Len(w) - n => ~w[i].success

\* What holds of the record under the mutex whenever the mutex is free.
Sound(b) ==
  /\ b \in Inner
  /\ b.state = "Closed" => b.consecutive_failures < FailureThreshold
  /\ b.state # "HalfOpen" => b.consecutive_successes = 0 /\ ~b.probe_in_flight
  /\ b.consecutive_successes < SuccessThreshold
  /\ b.state = "Open" => b.last_failure_time # None
  /\ Ordered(b.call_window)
  /\ b.state = "Closed" => EndsInFailures(b.call_window, b.consecutive_failures)

-----------------------------------------------------------------------------
(* The window.                                                             *)

\* The pruning loop pops at most all records.
LEMMA ExpiredBounded ==
  ASSUME NEW w \in Seq(CallRecord)
  PROVE  Expired(w) \in 0 .. Len(w)
<1> DEFINE P == {i \in DOMAIN w : \A j \in 1 .. i : w[j].age > RateWindow}
<1>1. Len(w) \in Nat /\ DOMAIN w = 1 .. Len(w)
  BY LenProperties
<1>2. IsFiniteSet(1 .. Len(w)) /\ Cardinality(1 .. Len(w)) = Len(w)
  BY <1>1, FS_Interval
<1>3. P \in SUBSET (1 .. Len(w))
  BY <1>1
<1>4. IsFiniteSet(P) /\ Cardinality(P) <= Len(w)
  BY <1>2, <1>3, FS_Subset
<1>5. Cardinality(P) \in Nat
  BY <1>4, FS_CardinalityType
<1> QED
  BY <1>1, <1>4, <1>5 DEF Expired

\* push_call leaves a suffix of the old window followed by the new record.
LEMMA PushCallSuffix ==
  ASSUME NEW w \in Seq(CallRecord), NEW ok \in BOOLEAN
  PROVE  LET v == PushCall(w, ok)
             e == Expired(w)
         IN /\ v \in Seq(CallRecord)
            /\ Len(v) = Len(w) - e + 1
            /\ v[Len(v)] = [age |-> 0, success |-> ok]
            /\ \A i \in 1 .. Len(v) - 1 : v[i] = w[i + e]
<1> DEFINE e == Expired(w)
           tail == SubSeq(w, e + 1, Len(w))
           rec == [age |-> 0, success |-> ok]
<1>1. Len(w) \in Nat /\ e \in 0 .. Len(w)
  BY LenProperties, ExpiredBounded
<1>2. \A i \in e + 1 .. Len(w) : w[i] \in CallRecord
  BY <1>1, ElementOfSeq
<1> HIDE DEF e
<1>3. /\ tail \in Seq(CallRecord)
      /\ Len(tail) = Len(w) - e
      /\ \A i \in 1 .. Len(w) - e : tail[i] = w[i + e]
  <2>1. e + 1 \in Int /\ Len(w) \in Int
    BY <1>1
  <2>2. /\ tail \in Seq(CallRecord)
        /\ Len(tail) = IF e + 1 <= Len(w) THEN Len(w) - (e + 1) + 1 ELSE 0
        /\ \A i \in 1 .. Len(w) - (e + 1) + 1 : tail[i] = w[(e + 1) + i - 1]
    BY <1>2, <2>1, SubSeqProperties
  <2> HIDE DEF tail
  <2> QED
    BY <1>1, <2>2
<1>4. rec \in CallRecord
  BY BreakerAssumption DEF CallRecord
<1> HIDE DEF tail, rec
<1>5. /\ Append(tail, rec) \in Seq(CallRecord)
      /\ Len(Append(tail, rec)) = Len(tail) + 1
      /\ \A i \in 1 .. Len(tail) : Append(tail, rec)[i] = tail[i]
      /\ Append(tail, rec)[Len(tail) + 1] = rec
  BY <1>3, <1>4, AppendProperties
<1>6. PushCall(w, ok) = Append(tail, rec)
  BY DEF PushCall, tail, rec, e
<1>7. Len(PushCall(w, ok)) = Len(w) - e + 1
  BY <1>1, <1>3, <1>5, <1>6
<1>8. PushCall(w, ok)[Len(PushCall(w, ok))] = rec
  BY <1>1, <1>3, <1>5, <1>6
<1>9. \A i \in 1 .. Len(PushCall(w, ok)) - 1 : PushCall(w, ok)[i] = w[i + e]
  BY <1>1, <1>3, <1>5, <1>6, SMTT(30)
<1> QED
  BY <1>5, <1>6, <1>7, <1>8, <1>9 DEF e, rec

\* push_call keeps the window ordered, and a failure makes a run of failures at
\* its end one longer.
LEMMA PushCallKeeps ==
  ASSUME NEW w \in Seq(CallRecord), Ordered(w), NEW ok \in BOOLEAN,
         NEW n \in Nat, EndsInFailures(w, n)
  PROVE  /\ Ordered(PushCall(w, ok))
         /\ ~ok => EndsInFailures(PushCall(w, ok), n + 1)
<1> DEFINE v == PushCall(w, ok)
           e == Expired(w)
<1>1. /\ v \in Seq(CallRecord)
      /\ Len(v) = Len(w) - e + 1
      /\ v[Len(v)] = [age |-> 0, success |-> ok]
      /\ \A i \in 1 .. Len(v) - 1 : v[i] = w[i + e]
  BY PushCallSuffix
<1>2. Len(w) \in Nat /\ e \in 0 .. Len(w)
  BY LenProperties, ExpiredBounded
<1>3. DOMAIN v = 1 .. Len(v) /\ DOMAIN w = 1 .. Len(w)
  BY <1>1, LenProperties
<1> HIDE DEF v, e
<1>4. ASSUME NEW i \in DOMAIN v
      PROVE  v[i].age \in Nat
  <2>1. v[i] \in CallRecord
    BY <1>1, <1>3, ElementOfSeq
  <2> QED
    BY <2>1, BreakerAssumption DEF CallRecord
<1>5. Ordered(v)
  <2> SUFFICES ASSUME NEW i \in DOMAIN v, NEW j \in DOMAIN v, i < j
               PROVE  v[i].age >= v[j].age
    BY DEF Ordered
  <2>0. i \in Int /\ j \in Int /\ 1 <= i /\ j <= Len(v) /\ Len(v) \in Int
    BY <1>1, <1>2, <1>3
  <2>1. CASE j = Len(v)
    BY <1>1, <1>4, <2>1
  <2>2. CASE j # Len(v)
    <3>1. v[i] = w[i + e] /\ v[j] = w[j + e]
      <4>1. i \in 1 .. Len(v) - 1 /\ j \in 1 .. Len(v) - 1
        BY <2>0, <2>2
      <4> QED
        BY <1>1, <4>1
    <3>2. i + e \in 1 .. Len(w) /\ j + e \in 1 .. Len(w) /\ i + e < j + e
      BY <1>1, <1>2, <2>0, <2>2, SMTT(30)
    <3> QED
      BY <1>3, <3>1, <3>2 DEF Ordered
  <2> QED
    BY <2>1, <2>2
<1>6. ASSUME ~ok
      PROVE  EndsInFailures(v, n + 1)
  <2> SUFFICES ASSUME NEW i \in DOMAIN v, i > Len(v) - (n + 1)
               PROVE  ~v[i].success
    BY DEF EndsInFailures
  <2>1. CASE i = Len(v)
    BY <1>1, <1>6, <2>1
  <2>2. CASE i # Len(v)
    <3>1. v[i] = w[i + e] /\ i + e \in DOMAIN w /\ i + e > Len(w) - n
      BY <1>1, <1>2, <1>3, <2>2, SMTT(30)
    <3> QED
      BY <3>1 DEF EndsInFailures
  <2> QED
    BY <2>1, <2>2
<1> QED
  BY <1>5, <1>6 DEF v

\* Time makes every record older in the same way.
LEMMA AgeWindowKeeps ==
  ASSUME NEW w \in Seq(CallRecord)
  PROVE  /\ AgeWindow(w) \in Seq(CallRecord)
         /\ Ordered(w) => Ordered(AgeWindow(w))
         /\ \A n \in Nat : EndsInFailures(w, n) => EndsInFailures(AgeWindow(w), n)
<1> DEFINE v == AgeWindow(w)
<1>1. Len(w) \in Nat /\ DOMAIN w = 1 .. Len(w)
  BY LenProperties
<1>2. ASSUME NEW i \in 1 .. Len(w)
      PROVE  /\ v[i] \in CallRecord
             /\ v[i].success = w[i].success
             /\ v[i].age = Saturate(w[i].age, RateWindow + 1)
             /\ w[i].age \in 0 .. RateWindow + 1
  <2>1. w[i] \in CallRecord
    BY ElementOfSeq
  <2>2. v[i] = [age |-> Saturate(w[i].age, RateWindow + 1), success |-> w[i].success]
    BY <1>1 DEF AgeWindow
  <2> QED
    BY <2>1, <2>2, BreakerAssumption DEF CallRecord, Saturate
<1>3. v \in [1 .. Len(w) -> CallRecord]
  <2>1. v = [i \in 1 .. Len(w) |-> v[i]]
    BY <1>1 DEF AgeWindow
  <2> HIDE DEF v
  <2> QED
    BY <1>2, <2>1
<1> HIDE DEF v
<1>4. v \in Seq(CallRecord) /\ Len(v) = Len(w) /\ DOMAIN v = 1 .. Len(w)
  BY <1>1, <1>3
<1>5. Ordered(w) => Ordered(v)
  <2> SUFFICES ASSUME Ordered(w), NEW i \in 1 .. Len(w), NEW j \in 1 .. Len(w), i < j
               PROVE  v[i].age >= v[j].age
    BY <1>4 DEF Ordered
  <2>1. w[i].age >= w[j].age
    BY <1>1 DEF Ordered
  <2> QED
    BY <1>2, <2>1, BreakerAssumption DEF Saturate
<1>6. \A n \in Nat : EndsInFailures(w, n) => EndsInFailures(v, n)
  BY <1>1, <1>2, <1>4 DEF EndsInFailures
<1> QED
  BY <1>4, <1>5, <1>6 DEF v

\* No record at all need be a failure.
LEMMA NoFailures ==
  ASSUME NEW w \in Seq(CallRecord)
  PROVE  EndsInFailures(w, 0)
<1>1. Len(w) \in Nat /\ DOMAIN w = 1 .. Len(w)
  BY LenProperties
<1> QED
  BY <1>1 DEF EndsInFailures

\* push_call within a sound breaker.
LEMMA PushCallSound ==
  ASSUME NEW w \in Seq(CallRecord), Ordered(w), NEW ok \in BOOLEAN
  PROVE  PushCall(w, ok) \in Seq(CallRecord) /\ Ordered(PushCall(w, ok))
<1>1. EndsInFailures(w, 0)
  BY NoFailures
<1>2. Ordered(PushCall(w, ok))
  BY <1>1, PushCallKeeps
<1>3. PushCall(w, ok) \in Seq(CallRecord)
  BY PushCallSuffix
<1> QED
  BY <1>2, <1>3

\* Facts about numbers: the least of some, and how many there are up to n.
LEMMA LeastNumber ==
  ASSUME NEW T \in SUBSET Nat, T # {}
  PROVE  \E m \in T : \A k \in T : m <= k
<1>1. IsWellFoundedOn(OpToRel(<, Nat), Nat)
  BY NatLessThanWellFounded
<1>2. PICK m \in T : \A k \in T : ~ (<<k, m>> \in OpToRel(<, Nat))
  BY <1>1, WFMin
<1>3. \A k \in T : ~ (k < m)
  BY <1>2 DEF OpToRel
<1> QED
  BY <1>3

LEMMA UpTo ==
  ASSUME NEW n \in Nat
  PROVE  Cardinality(1 .. n) = n
BY FS_Interval

\* The pruning loop of push_call stops at the right place: in a window that is
\* ordered by time, what it leaves is no older than RateWindow.
LEMMA PruningExact ==
  ASSUME NEW w \in Seq(CallRecord), Ordered(w), NEW i \in DOMAIN w, i > Expired(w)
  PROVE  w[i].age <= RateWindow
<1> DEFINE n == Len(w)
           P == {k \in DOMAIN w : \A j \in 1 .. k : w[j].age > RateWindow}
           Q == (1 .. n) \ P
<1>1. n \in Nat /\ DOMAIN w = 1 .. n
  BY LenProperties
<1>2. \A k \in 1 .. n : w[k].age \in Int
  <2> SUFFICES ASSUME NEW k \in 1 .. n
               PROVE  w[k].age \in Int
    OBVIOUS
  <2>1. w[k] \in CallRecord
    BY ElementOfSeq
  <2> QED
    BY <2>1, BreakerAssumption DEF CallRecord
<1>3. Q # {}
  <2> SUFFICES ASSUME P = 1 .. n
               PROVE  FALSE
    BY <1>1
  <2>1. Expired(w) = Cardinality(P)
    BY DEF Expired
  <2> HIDE DEF P
  <2>2. Expired(w) = n
    BY <1>1, <2>1, UpTo
  <2> QED
    BY <1>1, <2>2
<1>4. PICK m \in Q : \A k \in Q : m <= k
  <2>1. Q \in SUBSET Nat
    BY <1>1
  <2> HIDE DEF Q
  <2> QED
    BY <1>3, <2>1, LeastNumber
<1>5. m \in 1 .. n /\ m \notin P
  BY <1>4
<1>6. \A k \in 1 .. n : k \in P <=> k < m
  <2>1. \A k \in 1 .. n : k < m => k \in P
    BY <1>4, <1>5
  <2>2. \A k \in P : ~ (m <= k)
    BY <1>1, <1>5
  <2> QED
    BY <1>1, <1>5, <2>1, <2>2
<1>7. P = 1 .. m - 1
  BY <1>1, <1>5, <1>6
<1>8. Expired(w) = m - 1
  <2>1. Expired(w) = Cardinality(P) /\ m - 1 \in Nat
    BY <1>5 DEF Expired
  <2> HIDE DEF P
  <2> QED
    BY <1>7, <2>1, UpTo
<1>9. PICK j \in 1 .. m : ~ (w[j].age > RateWindow)
  BY <1>1, <1>5
<1>10. w[j].age >= w[i].age
  BY <1>1, <1>2, <1>5, <1>8, <1>9 DEF Ordered
<1> QED
  BY <1>1, <1>2, <1>5, <1>9, <1>10, BreakerAssumption

\* No record that push_call leaves in an ordered window is stale.
LEMMA PushCallFresh ==
  ASSUME NEW w \in Seq(CallRecord), Ordered(w), NEW ok \in BOOLEAN,
         NEW i \in DOMAIN PushCall(w, ok)
  PROVE  PushCall(w, ok)[i].age <= RateWindow
<1> DEFINE v == PushCall(w, ok)
           e == Expired(w)
<1>1. /\ v \in Seq(CallRecord) /\ Len(v) = Len(w) - e + 1
      /\ v[Len(v)] = [age |-> 0, success |-> ok]
      /\ \A k \in 1 .. Len(v) - 1 : v[k] = w[k + e]
  BY PushCallSuffix
<1>2. Len(w) \in Nat /\ e \in 0 .. Len(w) /\ DOMAIN w = 1 .. Len(w)
  BY LenProperties, ExpiredBounded
<1>3. i \in 1 .. Len(v)
  BY <1>1, LenProperties
<1> HIDE DEF v, e
<1>4. CASE i = Len(v)
  BY <1>1, <1>4, BreakerAssumption DEF v
<1>5. CASE i # Len(v)
  <2>1. v[i] = w[i + e] /\ i + e \in DOMAIN w /\ i + e > e
    BY <1>1, <1>2, <1>3, <1>5
  <2>2. w[i + e].age <= RateWindow
    BY <2>1, PruningExact DEF e
  <2> QED
    BY <2>1, <2>2 DEF v
<1> QED
  BY <1>4, <1>5

-----------------------------------------------------------------------------
(* The methods.                                                            *)

Fields == {"state", "consecutive_failures", "consecutive_successes",
           "last_failure_time", "call_window", "probe_in_flight"}

\* b is a record with exactly the fields of Inner.
HasFields(b) == b = [f \in Fields |-> b[f]]

\* A record whose fields have the types of Inner is in Inner.
LEMMA InnerFields ==
  ASSUME NEW b, HasFields(b),
         b.state \in CircuitState,
         b.consecutive_failures \in 0 .. FailureThreshold,
         b.consecutive_successes \in Nat,
         b.last_failure_time \in (0 .. RecoveryTimeout) \cup {None},
         b.call_window \in Seq(CallRecord),
         b.probe_in_flight \in BOOLEAN
  PROVE  b \in Inner
BY DEF HasFields, Fields, Inner

\* The fields of a sound breaker.
LEMMA SoundFields ==
  ASSUME NEW b, Sound(b)
  PROVE  /\ HasFields(b)
         /\ b.state \in CircuitState
         /\ b.consecutive_failures \in 0 .. FailureThreshold
         /\ b.consecutive_successes \in Nat
         /\ b.last_failure_time \in (0 .. RecoveryTimeout) \cup {None}
         /\ b.call_window \in Seq(CallRecord)
         /\ b.probe_in_flight \in BOOLEAN
BY DEF Sound, Inner, HasFields, Fields

\* A new breaker is sound.
LEMMA NewBreakerSound == Sound(NewBreaker)
<1>1. << >> \in Seq(CallRecord) /\ Ordered(<< >>) /\ EndsInFailures(<< >>, 0)
  BY EmptySeq DEF Ordered, EndsInFailures
<1>2. NewBreaker \in Inner
  BY <1>1, BreakerAssumption DEF NewBreaker, Inner, CircuitState
<1> QED
  BY <1>1, <1>2, BreakerAssumption DEF Sound, NewBreaker

\* The passing of time keeps a breaker sound.
LEMMA AgeBreakerSound ==
  ASSUME NEW b, Sound(b)
  PROVE  Sound(AgeBreaker(b))
<1> DEFINE a == AgeBreaker(b)
<1>1. /\ HasFields(a)
      /\ a.state = b.state
      /\ a.consecutive_failures = b.consecutive_failures
      /\ a.consecutive_successes = b.consecutive_successes
      /\ a.last_failure_time = IF b.last_failure_time = None THEN None
                               ELSE Saturate(b.last_failure_time, RecoveryTimeout)
      /\ a.call_window = AgeWindow(b.call_window)
      /\ a.probe_in_flight = b.probe_in_flight
  BY SoundFields DEF AgeBreaker, HasFields, Fields
<1> HIDE DEF a
<1>2. /\ a.last_failure_time \in (0 .. RecoveryTimeout) \cup {None}
      /\ b.last_failure_time # None => a.last_failure_time # None
  BY <1>1, SoundFields, BreakerAssumption DEF Saturate
<1>3. /\ a.call_window \in Seq(CallRecord)
      /\ Ordered(a.call_window)
      /\ b.state = "Closed" => EndsInFailures(a.call_window, b.consecutive_failures)
  BY <1>1, SoundFields, AgeWindowKeeps, BreakerAssumption DEF Sound
<1>4. a \in Inner
  BY <1>1, <1>2, <1>3, SoundFields, InnerFields
<1> QED
  BY <1>1, <1>2, <1>3, <1>4 DEF Sound, a

\* An admitted request leaves the breaker sound.
LEMMA AfterAllowSound ==
  ASSUME NEW b, Sound(b), Allows(b)
  PROVE  Sound(AfterAllow(b))
<1>1. CASE b.state = "Closed"
  BY <1>1 DEF AfterAllow
<1>2. CASE b.state # "Closed"
  <2> DEFINE a == AfterAllow(b)
  <2>1. /\ HasFields(a)
        /\ a.state = "HalfOpen"
        /\ a.consecutive_failures = b.consecutive_failures
        /\ a.consecutive_successes \in {b.consecutive_successes, 0}
        /\ a.last_failure_time = b.last_failure_time
        /\ a.call_window = b.call_window
        /\ a.probe_in_flight \in BOOLEAN
    BY <1>2, SoundFields, ZenonT(60) DEF AfterAllow, DoTransition, HasFields, Fields
  <2> HIDE DEF a
  <2>2. a \in Inner
    BY <2>1, SoundFields, InnerFields DEF CircuitState
  <2> QED
    BY <2>1, <2>2, BreakerAssumption DEF Sound, a
<1> QED
  BY <1>1, <1>2

\* record_success leaves the breaker sound.
LEMMA RecordSuccessSound ==
  ASSUME NEW b, Sound(b)
  PROVE  Sound(RecordSuccess(b))
<1> DEFINE a == RecordSuccess(b)
           w == b.call_window
           n == b.consecutive_successes + 1
<1>1. /\ HasFields(a)
      /\ a.consecutive_failures = 0
      /\ a.last_failure_time = b.last_failure_time
      /\ a.probe_in_flight \in BOOLEAN /\ ~a.probe_in_flight
  BY SoundFields, ZenonT(60) DEF RecordSuccess, SuccessWith, DoTransition, HasFields, Fields
<1>2. CASE b.state = "HalfOpen" /\ n >= SuccessThreshold
  <2>1. a.state = "Closed" /\ a.consecutive_successes = 0 /\ a.call_window = << >>
    BY <1>2, SoundFields DEF RecordSuccess, SuccessWith, DoTransition, HasFields, Fields
  <2>2. << >> \in Seq(CallRecord) /\ Ordered(<< >>) /\ EndsInFailures(<< >>, 0)
    BY EmptySeq DEF Ordered, EndsInFailures
  <2> HIDE DEF a
  <2>3. a.call_window \in Seq(CallRecord) /\ Ordered(a.call_window)
        /\ EndsInFailures(a.call_window, 0)
    BY <2>1, <2>2
  <2>4. a.state = "Closed" /\ a.consecutive_successes = 0
    BY <2>1
  <2>5. a \in Inner
    BY <1>1, <2>3, <2>4, SoundFields, InnerFields, BreakerAssumption DEF CircuitState
  <2> QED
    BY <1>1, <2>3, <2>4, <2>5, BreakerAssumption DEF Sound, a
<1>3. CASE ~(b.state = "HalfOpen" /\ n >= SuccessThreshold)
  <2>1. /\ a.state = b.state
        /\ a.consecutive_successes = IF b.state = "HalfOpen" THEN n
                                     ELSE b.consecutive_successes
        /\ a.call_window = IF b.state # "Open" THEN PushCall(w, TRUE) ELSE w
    BY <1>3, SoundFields DEF RecordSuccess, SuccessWith, DoTransition, HasFields, Fields
  <2> HIDE DEF a
  <2>2. a.call_window \in Seq(CallRecord) /\ Ordered(a.call_window)
    BY <2>1, SoundFields, PushCallSound DEF Sound
  <2>3. EndsInFailures(a.call_window, 0)
    BY <2>2, NoFailures
  <2>4. /\ a.consecutive_successes \in Nat
        /\ a.consecutive_successes < SuccessThreshold
        /\ a.state # "HalfOpen" => a.consecutive_successes = 0
    BY <1>3, <2>1, SoundFields, BreakerAssumption DEF Sound
  <2>5. a.state = b.state
    BY <2>1
  <2>6. a \in Inner
    BY <1>1, <2>2, <2>4, <2>5, SoundFields, InnerFields, BreakerAssumption
  <2> QED
    BY <1>1, <2>2, <2>3, <2>4, <2>5, <2>6, BreakerAssumption DEF Sound, a
<1> QED
  BY <1>2, <1>3

\* record_failure leaves the breaker sound.
LEMMA RecordFailureSound ==
  ASSUME NEW b, Sound(b)
  PROVE  Sound(RecordFailure(b))
<1> DEFINE a == RecordFailure(b)
           w == b.call_window
           n == Saturate(b.consecutive_failures, FailureThreshold)
<1>1. /\ HasFields(a)
      /\ a.consecutive_successes = 0
      /\ a.last_failure_time = 0
      /\ a.probe_in_flight \in BOOLEAN /\ ~a.probe_in_flight
      /\ a.consecutive_failures = IF b.state = "HalfOpen" THEN b.consecutive_failures ELSE n
      /\ a.state \in {b.state, "Open"} /\ a.state # "HalfOpen"
      /\ a.state = "Closed" => b.state = "Closed" /\ ~(n >= FailureThreshold)
  BY SoundFields, ZenonT(60) DEF RecordFailure, DoTransition, HasFields, Fields
<1>2. a.call_window = IF b.state # "Open" THEN PushCall(w, FALSE) ELSE w
  BY SoundFields DEF RecordFailure, DoTransition, HasFields, Fields
<1> HIDE DEF a
<1>3. /\ n \in 0 .. FailureThreshold
      /\ n < FailureThreshold => n = b.consecutive_failures + 1
  BY SoundFields, BreakerAssumption DEF Saturate
<1>4. a.call_window \in Seq(CallRecord) /\ Ordered(a.call_window)
  BY <1>2, SoundFields, PushCallSound DEF Sound
<1>5. ASSUME a.state = "Closed"
      PROVE  EndsInFailures(a.call_window, a.consecutive_failures)
             /\ a.consecutive_failures < FailureThreshold
  <2>1. /\ a.consecutive_failures = b.consecutive_failures + 1
        /\ a.consecutive_failures < FailureThreshold
        /\ b.state = "Closed"
    BY <1>1, <1>3, <1>5, BreakerAssumption
  <2>2. /\ w \in Seq(CallRecord) /\ Ordered(w) /\ b.consecutive_failures \in Nat
        /\ EndsInFailures(w, b.consecutive_failures)
    BY <2>1, SoundFields, BreakerAssumption DEF Sound
  <2>3. EndsInFailures(PushCall(w, FALSE), b.consecutive_failures + 1)
    BY <2>2, PushCallKeeps
  <2>4. a.call_window = PushCall(w, FALSE)
    BY <1>2, <2>1
  <2> QED
    BY <2>1, <2>3, <2>4
<1>6. a \in Inner
  <2>1. a.last_failure_time \in (0 .. RecoveryTimeout) \cup {None}
    BY <1>1, BreakerAssumption
  <2>2. a.state \in CircuitState /\ a.consecutive_failures \in 0 .. FailureThreshold
    BY <1>1, <1>3, SoundFields DEF CircuitState
  <2> QED
    BY <1>1, <1>4, <2>1, <2>2, InnerFields
<1> QED
  BY <1>1, <1>4, <1>5, <1>6, BreakerAssumption DEF Sound, a

\* Whoever reports frees the probe slot.
LEMMA ReportFreesSlot ==
  ASSUME NEW b, Sound(b)
  PROVE  ~RecordSuccess(b).probe_in_flight /\ ~RecordFailure(b).probe_in_flight
<1>1. ~RecordSuccess(b).probe_in_flight
  BY SoundFields DEF RecordSuccess, SuccessWith, DoTransition, HasFields, Fields
<1>2. ~RecordFailure(b).probe_in_flight
  BY SoundFields DEF RecordFailure, DoTransition, HasFields, Fields
<1> QED
  BY <1>1, <1>2

\* An admitted request takes the slot unless the breaker is Closed, and is only
\* admitted when the slot is free.
LEMMA AllowTakesSlot ==
  ASSUME NEW b, Sound(b), Allows(b)
  PROVE  /\ b.state = "Closed" => AfterAllow(b) = b
         /\ b.state # "Closed" => /\ AfterAllow(b).state = "HalfOpen"
                                  /\ AfterAllow(b).probe_in_flight
         /\ b.state = "HalfOpen" => ~b.probe_in_flight
<1>1. b.state = "Closed" => AfterAllow(b) = b
  BY DEF AfterAllow
<1>2. b.state # "Closed" => AfterAllow(b).state = "HalfOpen" /\ AfterAllow(b).probe_in_flight
  BY SoundFields DEF AfterAllow, DoTransition, HasFields, Fields
<1>3. b.state = "HalfOpen" => ~b.probe_in_flight
  BY DEF Allows
<1> QED
  BY <1>1, <1>2, <1>3

-----------------------------------------------------------------------------
(* The gate.                                                               *)

\* The callers' state and the history variables keep their types.
GateTypeOK ==
  /\ pc \in [Callers -> PC]
  /\ key \in [Callers -> Keys]
  /\ cached \subseteq Keys
  /\ upstream \in {"up", "down"}
  /\ probes \subseteq Callers
  /\ late \in Nat
  /\ heard \in Nat

\* The probe that holds the slot, if one does, and one probe for each late answer
\* that freed the slot under a probe. This is what bounds the probes: a free slot
\* means that there is room for one more.
ProbesCounted ==
  breaker.state = "HalfOpen" =>
    Cardinality(probes) <= late + (IF breaker.probe_in_flight THEN 1 ELSE 0)

GateInv == Sound(breaker) /\ GateTypeOK /\ ProbesCounted

\* The checked properties follow.
LEMMA GateInvImplies ==
  GateInv => TypeOK /\ OpenHasFailureTime /\ CountersMatchState /\ StreakInWindow
             /\ WindowOrdered /\ ProbesBounded
<1> SUFFICES ASSUME GateInv
             PROVE  TypeOK /\ OpenHasFailureTime /\ CountersMatchState /\ StreakInWindow
                    /\ WindowOrdered /\ ProbesBounded
  OBVIOUS
<1>1. TypeOK /\ OpenHasFailureTime /\ CountersMatchState
  BY DEF GateInv, GateTypeOK, Sound, TypeOK, OpenHasFailureTime, CountersMatchState
<1>2. StreakInWindow /\ WindowOrdered
  BY DEF GateInv, Sound, StreakInWindow, WindowOrdered, Ordered, EndsInFailures
<1>3. Cardinality(probes) \in Nat
  BY GateAssumption, FS_Subset, FS_CardinalityType DEF GateInv, GateTypeOK
<1>4. ProbesBounded
  BY <1>3 DEF GateInv, GateTypeOK, ProbesCounted, ProbesBounded
<1> QED
  BY <1>1, <1>2, <1>4

\* The gate starts with a new breaker and no probes.
LEMMA GateInit == Init => GateInv
<1> SUFFICES ASSUME Init
             PROVE  GateInv
  OBVIOUS
<1>1. Sound(breaker)
  BY NewBreakerSound DEF Init
<1>2. GateTypeOK
  BY DEF Init, GateTypeOK, PC
<1>3. ProbesCounted
  BY FS_EmptySet DEF Init, ProbesCounted
<1> QED
  BY <1>1, <1>2, <1>3 DEF GateInv

\* Reporting an outcome keeps the invariant: it frees the slot, so the reporter
\* either gives up its place among the probes or is counted as late.
LEMMA ReportStep ==
  ASSUME GateInv, NEW c \in Callers, NEW b, Sound(b), NEW isHeard \in BOOLEAN,
         ~b.probe_in_flight, Report(c, b, isHeard)
  PROVE  GateInv'
<1>1. Sound(breaker') /\ breaker' = b
  BY DEF Report
<1>2. /\ pc' \in [Callers -> PC] /\ key' \in [Callers -> Keys]
      /\ cached' \subseteq Keys /\ upstream' \in {"up", "down"}
  BY DEF Report, GateInv, GateTypeOK, PC
<1>3. probes' \subseteq Callers /\ late' \in Nat /\ heard' \in Nat
  BY DEF Report, HistoryAfter, GateInv, GateTypeOK
<1>4. ProbesCounted'
  <2> SUFFICES ASSUME b.state = "HalfOpen"
               PROVE  Cardinality(probes') <= late'
    BY <1>1, <1>3 DEF ProbesCounted
  <2>1. CASE b.state # breaker.state
    BY <1>3, <2>1, FS_EmptySet DEF Report, HistoryAfter
  <2>2. CASE b.state = breaker.state
    <3>1. IsFiniteSet(probes) /\ Cardinality(probes) \in Nat
      BY GateAssumption, FS_Subset, FS_CardinalityType DEF GateInv, GateTypeOK
    <3>2. Cardinality(probes) <= late + 1 /\ late \in Nat
      BY <2>2, <3>1 DEF GateInv, GateTypeOK, ProbesCounted
    <3>3. probes' = probes \ {c} /\ late' = IF c \notin probes THEN late + 1 ELSE late
      BY <2>2 DEF Report, HistoryAfter
    <3>4. Cardinality(probes \ {c})
            = IF c \in probes THEN Cardinality(probes) - 1 ELSE Cardinality(probes)
      BY <3>1, FS_RemoveElement
    <3> QED
      BY <3>1, <3>2, <3>3, <3>4
  <2> QED
    BY <2>1, <2>2
<1> QED
  BY <1>1, <1>2, <1>3, <1>4 DEF GateInv, GateTypeOK

\* Only a request that finds the slot free becomes a probe.
LEMMA AdmitStep ==
  ASSUME GateInv, NEW c \in Callers, NEW k \in Keys, Admit(c, k)
  PROVE  GateInv'
<1>1. Sound(breaker) /\ Allows(breaker) /\ breaker' = AfterAllow(breaker)
  BY DEF GateInv, Admit
<1>2. Sound(breaker')
  BY <1>1, AfterAllowSound
<1>3. GateTypeOK'
  BY DEF GateInv, GateTypeOK, Admit, PC
<1>4. ProbesCounted'
  <2> SUFFICES ASSUME breaker.state # "Closed"
               PROVE  Cardinality(probes') <= late' + 1
    BY <1>1, AllowTakesSlot DEF ProbesCounted
  <2>1. CASE breaker.state = "Open"
    BY <2>1, FS_Singleton DEF Admit
  <2>2. CASE breaker.state = "HalfOpen"
    <3>1. IsFiniteSet(probes) /\ Cardinality(probes) \in Nat /\ late \in Nat
      BY GateAssumption, FS_Subset, FS_CardinalityType DEF GateInv, GateTypeOK
    <3>2. ~breaker.probe_in_flight
      BY <1>1, <2>2, AllowTakesSlot
    <3>3. Cardinality(probes) <= late
      BY <2>2, <3>1, <3>2 DEF GateInv, ProbesCounted
    <3>4. probes' = probes \cup {c} /\ late' = late
      BY <2>2 DEF Admit
    <3>5. Cardinality(probes \cup {c})
            = IF c \in probes THEN Cardinality(probes) ELSE Cardinality(probes) + 1
      BY <3>1, FS_AddElement
    <3>6. Cardinality(probes') = IF c \in probes THEN Cardinality(probes)
                                                 ELSE Cardinality(probes) + 1
      BY <3>4, <3>5
    <3> QED
      BY <3>1, <3>3, <3>4, <3>6
  <2> QED
    BY <1>1, <2>1, <2>2, SoundFields DEF CircuitState
<1> QED
  BY <1>2, <1>3, <1>4 DEF GateInv

\* A request that ends silently keeps the invariant, though the slot stays taken.
LEMMA VanishStep ==
  ASSUME GateInv, NEW c \in Callers, Vanish(c)
  PROVE  GateInv'
<1>1. Sound(breaker') /\ breaker' = breaker
  BY DEF Vanish, GateInv
<1>2. GateTypeOK'
  BY DEF Vanish, GateInv, GateTypeOK, PC
<1>3. IsFiniteSet(probes) /\ Cardinality(probes) \in Nat
  BY GateAssumption, FS_Subset, FS_CardinalityType DEF GateInv, GateTypeOK
<1>4. Cardinality(probes \ {c}) <= Cardinality(probes) /\ Cardinality(probes \ {c}) \in Nat
  <2>1. probes \ {c} \in SUBSET probes
    OBVIOUS
  <2> QED
    BY <1>3, <2>1, FS_Subset, FS_CardinalityType
<1>5. ProbesCounted'
  BY <1>1, <1>3, <1>4 DEF Vanish, GateInv, GateTypeOK, ProbesCounted
<1> QED
  BY <1>1, <1>2, <1>5 DEF GateInv

\* A step that touches neither the breaker nor the history keeps the invariant.
LEMMA ElsewhereStep ==
  ASSUME GateInv, GateTypeOK', UNCHANGED <<breaker, probes, late>>
  PROVE  GateInv'
BY DEF GateInv, ProbesCounted

\* Every step the two gates share keeps the invariant.
LEMMA GateStep == GateInv /\ [GateNext]_vars => GateInv'
<1> SUFFICES ASSUME GateInv, [GateNext]_vars
             PROVE  GateInv'
  OBVIOUS
<1>0. Sound(breaker)
  BY DEF GateInv
<1>1. ASSUME NEW c \in Callers, NEW k \in Keys, Admit(c, k)
      PROVE  GateInv'
  BY <1>1, AdmitStep
<1>2. ASSUME NEW c \in Callers, CacheMiss(c) \/ Answer(c)
      PROVE  GateInv'
  <2>1. GateTypeOK'
    BY <1>2 DEF CacheMiss, Answer, history, GateInv, GateTypeOK, PC
  <2> QED
    BY <1>2, <2>1, ElsewhereStep DEF CacheMiss, Answer, history
<1>3. ASSUME NEW c \in Callers, ReportSuccess(c)
      PROVE  GateInv'
  BY <1>0, <1>3, ReportStep, RecordSuccessSound, ReportFreesSlot DEF ReportSuccess
<1>4. ASSUME NEW c \in Callers, ReportFailure(c)
      PROVE  GateInv'
  BY <1>0, <1>4, ReportStep, RecordFailureSound, ReportFreesSlot DEF ReportFailure
<1>5. ASSUME NEW c \in Callers, Disconnect(c)
      PROVE  GateInv'
  BY <1>5, VanishStep DEF Disconnect
<1>6. ASSUME NEW k \in Keys, Expire(k)
      PROVE  GateInv'
  <2>1. GateTypeOK'
    BY <1>6 DEF Expire, history, GateInv, GateTypeOK
  <2> QED
    BY <1>6, <2>1, ElsewhereStep DEF Expire, history
<1>7. CASE Tick
  <2>1. Sound(breaker')
    BY <1>0, <1>7, AgeBreakerSound DEF Tick
  <2>2. breaker'.state = breaker.state /\ breaker'.probe_in_flight = breaker.probe_in_flight
    BY <1>0, <1>7, SoundFields DEF Tick, AgeBreaker, HasFields, Fields
  <2>3. GateTypeOK' /\ UNCHANGED <<probes, late>>
    BY <1>7 DEF Tick, gateVars, history, GateInv, GateTypeOK
  <2> QED
    BY <2>1, <2>2, <2>3 DEF GateInv, ProbesCounted
<1>8. CASE UpstreamFlips
  <2>1. GateTypeOK'
    BY <1>8 DEF UpstreamFlips, history, GateInv, GateTypeOK
  <2> QED
    BY <1>8, <2>1, ElsewhereStep DEF UpstreamFlips, history
<1>9. CASE UNCHANGED vars
  <2>1. GateTypeOK'
    BY <1>9 DEF vars, GateInv, GateTypeOK
  <2> QED
    BY <1>9, <2>1, ElsewhereStep DEF vars
<1> QED
  BY <1>1, <1>2, <1>3, <1>4, <1>5, <1>6, <1>7, <1>8, <1>9 DEF GateNext, CallerStep

-----------------------------------------------------------------------------
(* Tripping.                                                               *)

\* record_failure opens a Closed breaker on a full streak or on a window of fresh
\* outcomes with too many failures.
LEMMA TripEvidence ==
  ASSUME NEW b, Sound(b), b.state = "Closed", RecordFailure(b).state = "Open"
  PROVE  LET a     == RecordFailure(b)
             w     == a.call_window
             fresh == {i \in DOMAIN w : w[i].age <= RateWindow}
             bad   == {i \in fresh : ~w[i].success}
         IN \/ a.consecutive_failures = FailureThreshold
            \/ /\ Cardinality(fresh) >= MinCallsForRate
               /\ Cardinality(bad) * RateDen > RateNum * Cardinality(fresh)
<1> DEFINE a == RecordFailure(b)
           n == Saturate(b.consecutive_failures, FailureThreshold)
           v == PushCall(b.call_window, FALSE)
           fresh == {i \in DOMAIN v : v[i].age <= RateWindow}
           bad == {i \in fresh : ~v[i].success}
<1>1. /\ a.consecutive_failures = n /\ a.call_window = v
      /\ n >= FailureThreshold \/ FailureRateExceeded(v)
  <2>1. a.consecutive_failures = n
    BY SoundFields DEF RecordFailure, DoTransition, HasFields, Fields
  <2>2. a.call_window = v
    BY SoundFields DEF RecordFailure, DoTransition, HasFields, Fields
  <2>3. n >= FailureThreshold \/ FailureRateExceeded(v)
    <3> DEFINE c == [b EXCEPT
                       !.consecutive_successes = 0,
                       !.probe_in_flight       = FALSE,
                       !.last_failure_time     = 0,
                       !.call_window           = IF b.state # "Open"
                                                   THEN PushCall(@, FALSE) ELSE @,
                       !.consecutive_failures  = IF b.state = "HalfOpen" THEN @
                                                   ELSE Saturate(@, FailureThreshold)]
    <3>1. c.state = "Closed" /\ c.consecutive_failures = n /\ c.call_window = v
      BY SoundFields DEF HasFields, Fields
    <3>2. a = IF \/ c.state = "HalfOpen"
                 \/ /\ c.state = "Closed"
                    /\ \/ c.consecutive_failures >= FailureThreshold
                       \/ FailureRateExceeded(c.call_window)
                THEN DoTransition(c, "Open") ELSE c
      BY DEF RecordFailure
    <3> HIDE DEF c, n, v, a
    <3>3. a.state = "Open"
      BY DEF a
    <3> QED
      BY <3>1, <3>2, <3>3
  <2> QED
    BY <2>1, <2>2, <2>3
<1>2. n \in 0 .. FailureThreshold
  BY SoundFields, BreakerAssumption DEF Saturate
<1>3. /\ b.call_window \in Seq(CallRecord) /\ Ordered(b.call_window)
      /\ v \in Seq(CallRecord)
  BY SoundFields, PushCallSuffix DEF Sound
<1>4. fresh = DOMAIN v
  BY <1>3, PushCallFresh
<1> HIDE DEF n, v
<1>5. DOMAIN v = 1 .. Len(v) /\ Len(v) \in Nat
  BY <1>3, LenProperties
<1>6. Cardinality(fresh) = Len(v)
  <2> HIDE DEF fresh
  <2> QED
    BY <1>4, <1>5, UpTo
<1>7. bad = {i \in DOMAIN v : ~v[i].success}
  BY <1>4
<1>8. CASE n >= FailureThreshold
  BY <1>1, <1>2, <1>8, BreakerAssumption
<1>9. CASE FailureRateExceeded(v)
  <2>1. /\ Cardinality(fresh) >= MinCallsForRate
        /\ Cardinality(bad) * RateDen > RateNum * Cardinality(fresh)
    BY <1>6, <1>7, <1>9 DEF FailureRateExceeded
  <2> QED
    BY <1>1, <2>1
<1> QED
  BY <1>1, <1>8, <1>9

\* No other step opens a Closed breaker.
LEMMA GateTrips == GateInv /\ [GateNext]_vars => TripsOnEvidence
<1> SUFFICES ASSUME GateInv, [GateNext]_vars,
                    breaker.state = "Closed", breaker'.state = "Open"
             PROVE  breaker' = RecordFailure(breaker)
  BY TripEvidence DEF GateInv, TripsOnEvidence
<1>1. Sound(breaker)
  BY DEF GateInv
<1>2. ASSUME NEW c \in Callers, NEW k \in Keys
      PROVE  ~ Admit(c, k)
  BY <1>1, AllowTakesSlot DEF Admit
<1>3. ASSUME NEW c \in Callers
      PROVE  ~ ReportSuccess(c)
  <2>1. RecordSuccess(breaker).state # "Open"
    BY <1>1, SoundFields DEF RecordSuccess, SuccessWith, DoTransition, HasFields, Fields
  <2> QED
    BY <2>1 DEF ReportSuccess, Report
<1>4. ~ Tick
  BY <1>1, SoundFields DEF Tick, AgeBreaker, HasFields, Fields
<1> QED
  BY <1>2, <1>3, <1>4 DEF GateNext, CallerStep, CacheMiss, Answer, ReportFailure, Report,
       Disconnect, Vanish, Expire, UpstreamFlips, vars

=============================================================================
