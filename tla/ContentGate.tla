---------------------------- MODULE ContentGate ----------------------------
(***************************************************************************)
(* LikeCommandService::validate_content with the HTTP or gRPC content      *)
(* validator: a cached outcome is returned without a word to the breaker.  *)
(***************************************************************************)
EXTENDS BreakerGate

\* Mutant: a cached outcome is recorded as a success.
CacheHitReported(c) ==
  /\ pc[c] = "validating"
  /\ key[c] \in cached
  /\ Report(c, RecordSuccess(breaker), FALSE)

\* ValidationOutcome::Cached: allow_request may have taken the probe slot, and
\* neither record_success nor record_failure follows.
CacheHit(c) ==
  /\ pc[c] = "validating"
  /\ key[c] \in cached
  /\ Vanish(c)

ContentNext == GateNext \/ \E c \in Callers : CacheHit(c)

Spec == Init /\ [][ContentNext]_vars

\* The executor runs a task that can run; remote calls end within 5 s.
FairSpec ==
  /\ Spec
  /\ GateFairness
  /\ \A c \in Callers : WF_vars(CallerStep(c) \/ CacheHit(c))

=============================================================================
