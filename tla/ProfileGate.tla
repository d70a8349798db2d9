---------------------------- MODULE ProfileGate ----------------------------
(***************************************************************************)
(* auth::authenticate_token with the HTTP or gRPC token validator: every   *)
(* Ok and every Unauthorized is recorded as a success, a cached user       *)
(* included.                                                               *)
(***************************************************************************)
EXTENDS BreakerGate

\* Mutant: a cached user is returned without a word to the breaker.
CacheHitSilent(c) ==
  /\ pc[c] = "validating"
  /\ key[c] \in cached
  /\ Vanish(c)

\* The token is in the cache: validate returns the user with no remote call,
\* and authenticate_token records a success.
CacheHit(c) ==
  /\ pc[c] = "validating"
  /\ key[c] \in cached
  /\ Report(c, RecordSuccess(breaker), FALSE)

\* Mutant: a rejected token is not reported.
UnauthorizedSilent(c) ==
  /\ pc[c] = "remote"
  /\ upstream = "up"
  /\ Vanish(c)

\* The API rejects the token: not cached, recorded as a success.
Unauthorized(c) ==
  /\ pc[c] = "remote"
  /\ upstream = "up"
  /\ Report(c, RecordSuccess(breaker), TRUE)

ProfileNext == GateNext \/ \E c \in Callers : CacheHit(c) \/ Unauthorized(c)

Spec == Init /\ [][ProfileNext]_vars

\* The executor runs a task that can run; remote calls end within 5 s.
FairSpec ==
  /\ Spec
  /\ GateFairness
  /\ \A c \in Callers : WF_vars(CallerStep(c) \/ CacheHit(c) \/ Unauthorized(c))

=============================================================================
