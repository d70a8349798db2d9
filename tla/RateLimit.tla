----------------------------- MODULE RateLimit -----------------------------
(***************************************************************************)
(* The sliding-window rate limiter of middleware/rate_limit.rs for one     *)
(* key: replicas stamp a request with their own clock and a per-process    *)
(* sequence number, and later one Lua script, atomic in Redis, prunes,     *)
(* counts and adds.  Stamps may reach Redis late and out of order.         *)
(*                                                                         *)
(* A ZSET member is the text "now:seq" and its score is now, so the sorted *)
(* set is a set of pairs <<now, seq>>: adding the same member twice leaves *)
(* one entry.                                                              *)
(***************************************************************************)
EXTENDS Integers, FiniteSets

CONSTANTS
  Replicas,     \* service processes that share the Redis key
  Limit,        \* requests per window
  WindowSecs,   \* window_secs (60)
  MsPerSec,     \* clock units per second (1000)
  Grace,        \* what EXPIRE adds to the window (10 s), in clock units
  Skew,         \* environment: a replica's clock is off by at most this
  Delay,        \* environment: a stamp reaches Redis within this
  MaxTime,      \* bound on the clock
  MaxSeq        \* bound on requests per replica

ASSUME RateAssumption ==
  /\ Limit \in Nat \ {0}
  /\ WindowSecs \in Nat \ {0}
  /\ MsPerSec \in Nat \ {0}
  /\ Grace \in Nat /\ Skew \in Nat /\ Delay \in Nat
  /\ MaxTime \in Nat /\ MaxSeq \in Nat

VARIABLES
  time,       \* real time, which is also Redis's clock
  seq,        \* RATE_LIMIT_COUNTER of each replica
  flight,     \* requests stamped and not yet answered by Redis
  zset,       \* the sorted set: members <<now, seq>>
  expiry,     \* when EXPIRE drops the key
  admitted,   \* history: requests the script let through
  denied      \* history: the latest answer of the script to one of the others

vars == <<time, seq, flight, zset, expiry, admitted, denied>>

Window == WindowSecs * MsPerSec

\* How far apart two stamps can be that reach Redis at the same moment.
Slack == 2 * Skew + Delay

Request == [rep : Replicas, seq : Nat, now : Int, at : Nat]

Init ==
  /\ time = 0
  /\ seq = [r \in Replicas |-> 0]
  /\ flight = {} /\ zset = {} /\ expiry = 0
  /\ admitted = {} /\ denied = {}

\* Time passes; no stamp is under way for longer than Delay.
Tick ==
  /\ time < MaxTime
  /\ \A q \in flight : time < q.at + Delay
  /\ time' = time + 1
  /\ UNCHANGED <<seq, flight, zset, expiry, admitted, denied>>

\* check_rate_limit_inner up to the call of the script.
Stamp(r, now) ==
  /\ seq[r] < MaxSeq
  /\ flight' = flight \cup {[rep |-> r, seq |-> seq[r], now |-> now, at |-> time]}
  /\ seq' = [seq EXCEPT ![r] = @ + 1]
  /\ UNCHANGED <<time, zset, expiry, admitted, denied>>

\* Mutant: an entry exactly one window old is kept.
PruneLate(z, now) == {e \in z : e[1] >= now - Window}

\* ZREMRANGEBYSCORE key 0 now-window.
Prune(z, now) == {e \in z : e[1] > now - Window}

\* Milliseconds until the oldest entry leaves the window, and the Retry-After
\* in seconds: rounded up, then clamped to [1, window_secs].
ResetMs(z, now) ==
  LET oldest == CHOOSE t \in {e[1] : e \in z} : \A e \in z : t <= e[1]
      ms     == oldest + Window - now
  IN IF ms < 0 THEN 0 ELSE ms

\* Mutants: rounded down, or not clamped to the window.
ResetSecsFloor(ms) ==
  LET secs == ms \div MsPerSec
  IN IF secs < 1 THEN 1 ELSE IF secs > WindowSecs THEN WindowSecs ELSE secs
ResetSecsUnclamped(ms) == (ms + MsPerSec - 1) \div MsPerSec

ResetSecs(ms) ==
  LET secs == (ms + MsPerSec - 1) \div MsPerSec
  IN IF secs < 1 THEN 1 ELSE IF secs > WindowSecs THEN WindowSecs ELSE secs

\* Mutant: one request too many.
AllowOneMore(q) ==
  LET z == Prune(zset, q.now) IN
  /\ q \in flight
  /\ Cardinality(z) <= Limit
  /\ zset' = z \cup {<<q.now, q.seq>>}
  /\ expiry' = time + Window + Grace
  /\ admitted' = admitted \cup {q}
  /\ flight' = flight \ {q}
  /\ UNCHANGED <<time, seq, denied>>

\* The script lets request q through and adds its member.
Allow(q) ==
  LET z == Prune(zset, q.now) IN
  /\ q \in flight
  /\ Cardinality(z) < Limit
  /\ zset' = z \cup {<<q.now, q.seq>>}
  /\ expiry' = time + Window + Grace
  /\ admitted' = admitted \cup {q}
  /\ flight' = flight \ {q}
  /\ UNCHANGED <<time, seq, denied>>

\* The script turns request q away; what it pruned stays pruned. If the reply is
\* lost, the request is let through after all and nobody knows of the denial.
Deny(q) ==
  LET z == Prune(zset, q.now) IN
  /\ q \in flight
  /\ Cardinality(z) >= Limit
  /\ zset' = z
  /\ \/ denied' = {[now |-> q.now, reset_secs |-> ResetSecs(ResetMs(z, q.now)),
                    entries |-> z]}
     \/ UNCHANGED denied
  /\ flight' = flight \ {q}
  /\ UNCHANGED <<time, seq, expiry, admitted>>

\* Redis is out of reach: the request is let through and leaves no trace.
FailOpen(q) ==
  /\ q \in flight
  /\ flight' = flight \ {q}
  /\ UNCHANGED <<time, seq, zset, expiry, admitted, denied>>

\* The key's TTL runs out.
KeyExpires ==
  /\ zset # {}
  /\ time >= expiry
  /\ zset' = {}
  /\ UNCHANGED <<time, seq, flight, expiry, admitted, denied>>

Next ==
  \/ Tick
  \/ \E r \in Replicas, now \in (time - Skew) .. (time + Skew) : Stamp(r, now)
  \/ \E q \in flight : Allow(q) \/ Deny(q) \/ FailOpen(q)
  \/ KeyExpires

Spec == Init /\ [][Next]_vars

-----------------------------------------------------------------------------
TypeOK ==
  /\ time \in Nat
  /\ seq \in [Replicas -> Nat]
  /\ flight \subseteq Request
  /\ zset \subseteq Int \X Nat
  /\ expiry \in Nat
  /\ admitted \subseteq Request
  /\ denied \subseteq [now : Int, reset_secs : 1 .. WindowSecs,
                       entries : SUBSET (Int \X Nat)]

\* The limit: no Limit + 1 requests stamped within a window, less what clock
\* skew and delay can hide, are all let through by Redis.
LimitHolds ==
  \A last \in admitted :
    Cardinality({q \in admitted : /\ q.now <= last.now
                                  /\ q.now > last.now - (Window - Slack)}) <= Limit

\* Nobody is turned away for requests that are no longer in the window: behind
\* a denial stand Limit admitted requests stamped less than a window before.
DenialsJustified ==
  \A d \in denied :
    Cardinality({q \in admitted : q.now > d.now - Window}) >= Limit

\* A client that waits as long as Retry-After says finds a free slot, unless
\* others took it in the meantime. Only when the value is clamped to the whole
\* window, because the oldest stamp is ahead of this one, may the clocks' slack
\* be missing from it.
RetryAfterSuffices ==
  \A d \in denied :
    \E e \in d.entries :
      e[1] <= d.now + d.reset_secs * MsPerSec - Window
                + (IF d.reset_secs = WindowSecs THEN Slack ELSE 0)

=============================================================================
