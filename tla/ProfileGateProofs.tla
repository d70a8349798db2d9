------------------------- MODULE ProfileGateProofs -------------------------
(***************************************************************************)
(* The breaker of the profile gate.  Because every request that ends on    *)
(* its own reports to the breaker, the probe slot is never left taken by a *)
(* request that is gone, as long as no client disconnects.                 *)
(***************************************************************************)
EXTENDS ProfileGate, BreakerGateProofs

\* Every step of the profile gate keeps the invariant of the breaker.
LEMMA ProfileStep == GateInv /\ [ProfileNext]_vars => GateInv'
<1> SUFFICES ASSUME GateInv, [ProfileNext]_vars
             PROVE  GateInv'
  OBVIOUS
<1>1. CASE [GateNext]_vars
  BY <1>1, GateStep
<1>2. ASSUME NEW c \in Callers, CacheHit(c) \/ Unauthorized(c)
      PROVE  GateInv'
  <2>1. Sound(breaker)
    BY DEF GateInv
  <2> QED
    BY <1>2, <2>1, ReportStep, RecordSuccessSound, ReportFreesSlot DEF CacheHit, Unauthorized
<1> QED
  BY <1>1, <1>2 DEF ProfileNext

\* The probe slot is taken only while a probe is in flight: somebody is left to
\* free it, so the breaker cannot reject every request for ever.
THEOREM SlotIsHeld ==
  ASSUME Disconnects = {}
  PROVE  Spec => []ProbeSlotIsHeld
<1>1. Init => ProbeSlotIsHeld
  BY DEF Init, ProbeSlotIsHeld, NewBreaker
<1>2. GateInv /\ ProbeSlotIsHeld /\ [ProfileNext]_vars => ProbeSlotIsHeld'
  <2> SUFFICES ASSUME GateInv, ProbeSlotIsHeld, [ProfileNext]_vars
               PROVE  ProbeSlotIsHeld'
    OBVIOUS
  <2>0. Sound(breaker)
    BY DEF GateInv
  <2>1. ASSUME NEW c \in Callers, NEW k \in Keys, Admit(c, k)
        PROVE  ProbeSlotIsHeld'
    <3>1. CASE breaker.state = "Closed"
      BY <2>0, <2>1, <3>1, AllowTakesSlot DEF Admit, Sound, ProbeSlotIsHeld
    <3>2. CASE breaker.state # "Closed"
      BY <2>1, <3>2 DEF Admit, ProbeSlotIsHeld
    <3> QED
      BY <3>1, <3>2
  <2>2. ASSUME NEW c \in Callers,
               ReportSuccess(c) \/ ReportFailure(c) \/ CacheHit(c) \/ Unauthorized(c)
        PROVE  ProbeSlotIsHeld'
    <3>1. breaker' = RecordSuccess(breaker) \/ breaker' = RecordFailure(breaker)
      BY <2>2 DEF ReportSuccess, ReportFailure, CacheHit, Unauthorized, Report
    <3> QED
      BY <2>0, <3>1, ReportFreesSlot DEF ProbeSlotIsHeld
  <2>3. ASSUME NEW c \in Callers, CacheMiss(c) \/ Answer(c)
        PROVE  ProbeSlotIsHeld'
    BY <2>3 DEF CacheMiss, Answer, history, ProbeSlotIsHeld
  <2>4. ASSUME NEW c \in Callers, Disconnect(c)
        PROVE  ProbeSlotIsHeld'
    BY <2>4 DEF Disconnect
  <2>5. CASE Tick
    <3>1. breaker'.probe_in_flight = breaker.probe_in_flight
      BY <2>0, <2>5, SoundFields DEF Tick, AgeBreaker, HasFields, Fields
    <3> QED
      BY <2>5, <3>1 DEF Tick, history, ProbeSlotIsHeld
  <2>6. CASE UpstreamFlips \/ (\E k \in Keys : Expire(k)) \/ UNCHANGED vars
    BY <2>6 DEF UpstreamFlips, Expire, history, vars, ProbeSlotIsHeld
  <2> QED
    BY <2>1, <2>2, <2>3, <2>4, <2>5, <2>6 DEF ProfileNext, GateNext, CallerStep
<1>3. Spec => []GateInv
  BY GateInit, ProfileStep, PTL DEF Spec
<1> QED
  BY <1>1, <1>2, <1>3, PTL DEF Spec

=============================================================================
