-------------------------- MODULE RateLimitProofs --------------------------
(***************************************************************************)
(* The rate limiter keeps its limit, justifies its denials and tells the   *)
(* truth in Retry-After, for every limit, window, clock skew and delay.    *)
(***************************************************************************)
EXTENDS RateLimit, FiniteSetTheorems, NaturalsInduction, WellFoundedInduction, TLAPS

\* The sorted-set member that the script adds for request q.
Member(q) == <<q.now, q.seq>>

\* A stamp is off by at most Skew from the moment it was taken.
Stamped ==
  \A q \in flight \cup admitted :
    q.at <= time /\ q.at - Skew <= q.now /\ q.now <= q.at + Skew

\* Nothing is under way for longer than Delay.
Prompt == \A q \in flight : time <= q.at + Delay

\* A replica never gives out a sequence number twice.
Numbered ==
  /\ \A q \in flight \cup admitted : q.seq < seq[q.rep]
  /\ \A p, q \in flight \cup admitted : p.rep = q.rep /\ p.seq = q.seq => p = q

\* Every member of the sorted set was added for a request that was let through.
Backed == \A e \in zset : \E q \in admitted : e = Member(q)

\* The key outlives the window of every request that was let through.
OutlivesWindow == \A q \in admitted : q.now - Skew + Window <= expiry

\* No clock can make the script forget a request before its window is over.
Kept == \A q \in admitted : q.now > time + Skew - Window => Member(q) \in zset

RateInv ==
  /\ TypeOK
  /\ IsFiniteSet(admitted) /\ IsFiniteSet(zset)
  /\ Stamped /\ Prompt /\ Numbered /\ Backed /\ OutlivesWindow /\ Kept

-----------------------------------------------------------------------------
(* Arithmetic and the oldest entry.                                        *)

LEMMA WindowType == Window \in Nat \ {0} /\ Slack \in Nat
  BY RateAssumption DEF Window, Slack

\* The ceiling division of the Retry-After value loses nothing.
LEMMA CeilingSuffices ==
  ASSUME NEW m \in Nat, NEW a \in Nat \ {0}
  PROVE  LET secs == (m + a - 1) \div a
         IN secs \in Nat /\ m <= secs * a
<1> DEFINE n == m + a - 1
           s == n \div a
<1>1. n \in Nat /\ n = a * s + (n % a) /\ n % a \in 0 .. (a - 1) /\ s \in Int
  OBVIOUS
<1>2. s \in Nat
  BY <1>1
<1>3. a * s \in Int /\ a * s = s * a
  BY <1>1
<1> HIDE DEF s
<1>4. m <= s * a
  BY <1>1, <1>3
<1> QED
  BY <1>2, <1>4 DEF s

\* A non-empty set of integers with a lower bound has a least element.
LEMMA LeastElement ==
  ASSUME NEW T \in SUBSET Int, T # {}, NEW b \in Int, \A t \in T : b <= t
  PROVE  \E m \in T : \A t \in T : m <= t
<1> DEFINE U == {t - b : t \in T}
<1>1. U \in SUBSET Nat /\ U # {}
  OBVIOUS
<1>2. IsWellFoundedOn(OpToRel(<, Nat), Nat)
  BY NatLessThanWellFounded
<1>3. PICK u \in U : \A v \in U : ~ (<<v, u>> \in OpToRel(<, Nat))
  BY <1>1, <1>2, WFMin
<1>4. \A v \in U : ~ (v < u)
  BY <1>1, <1>3 DEF OpToRel
<1>5. PICK m \in T : u = m - b
  BY <1>3
<1>6. \A t \in T : ~ (t - b < m - b)
  BY <1>4, <1>5
<1> QED
  BY <1>6

\* The script's score of the oldest entry is the score of an entry, and least.
LEMMA OldestEntry ==
  ASSUME NEW z \in SUBSET (Int \X Nat), z # {}, NEW b \in Int, \A e \in z : b <= e[1]
  PROVE  LET oldest == CHOOSE t \in {e[1] : e \in z} : \A e \in z : t <= e[1]
         IN \E e \in z : e[1] = oldest
<1> DEFINE T == {e[1] : e \in z}
<1>1. T \in SUBSET Int /\ T # {} /\ \A t \in T : b <= t
  OBVIOUS
<1>2. \E m \in T : \A t \in T : m <= t
  BY <1>1, LeastElement
<1>3. \E m \in T : \A e \in z : m <= e[1]
  BY <1>2
<1> QED
  BY <1>3

\* A set that maps one-to-one into a finite set is no larger.
LEMMA CountByMap ==
  ASSUME NEW S, NEW T, IsFiniteSet(T), NEW f \in [S -> T],
         \A x, y \in S : f[x] = f[y] => x = y
  PROVE  IsFiniteSet(S) /\ Cardinality(S) <= Cardinality(T)
<1>1. f \in Injection(S, T)
  BY DEF Injection, IsInjective
<1> QED
  BY <1>1, FS_Injection

-----------------------------------------------------------------------------
(* The inductive invariant.                                                *)

LEMMA RateInit == Init => RateInv
<1> SUFFICES ASSUME Init
             PROVE  RateInv
  OBVIOUS
<1>1. TypeOK
  BY DEF Init, TypeOK
<1>2. IsFiniteSet(admitted) /\ IsFiniteSet(zset)
  BY FS_EmptySet DEF Init
<1>3. Stamped /\ Prompt /\ Numbered /\ Backed /\ OutlivesWindow /\ Kept
  BY DEF Init, Stamped, Prompt, Numbered, Backed, OutlivesWindow, Kept
<1> QED
  BY <1>1, <1>2, <1>3 DEF RateInv

\* What the script keeps: entries of the set, and all whose window is not over.
LEMMA PruneKeeps ==
  ASSUME RateInv, NEW x \in flight
  PROVE  /\ Prune(zset, x.now) \subseteq zset
         /\ IsFiniteSet(Prune(zset, x.now))
         /\ \A q \in admitted :
              q.now > time + Skew - Window => Member(q) \in Prune(zset, x.now)
<1>1. Prune(zset, x.now) \in SUBSET zset
  BY DEF Prune
<1>2. IsFiniteSet(Prune(zset, x.now))
  BY <1>1, FS_Subset DEF RateInv
<1>3. \A q \in admitted :
        q.now > time + Skew - Window => Member(q) \in Prune(zset, x.now)
  <2> SUFFICES ASSUME NEW q \in admitted, q.now > time + Skew - Window
               PROVE  Member(q) \in Prune(zset, x.now)
    OBVIOUS
  <2>1. x \in Request /\ q \in Request /\ time \in Nat
    BY DEF RateInv, TypeOK
  <2>2. x.now <= time + Skew
    BY <2>1, RateAssumption DEF RateInv, Stamped, Request
  <2>3. q.now > x.now - Window
    BY <2>1, <2>2, RateAssumption, WindowType DEF Request
  <2>4. Member(q) \in zset /\ Member(q)[1] = q.now
    BY DEF RateInv, Kept, Member
  <2> QED
    BY <2>3, <2>4 DEF Prune
<1> QED
  BY <1>1, <1>2, <1>3

\* When the oldest entry is asked for, there is one.
LEMMA DenialReports ==
  ASSUME RateInv, NEW x \in flight, Cardinality(Prune(zset, x.now)) >= Limit
  PROVE  LET z == Prune(zset, x.now)
             oldest == CHOOSE t \in {e[1] : e \in z} : \A e \in z : t <= e[1]
         IN /\ z \in SUBSET (Int \X Nat)
            /\ oldest \in Int /\ oldest > x.now - Window
            /\ \E e \in z : e[1] = oldest
            /\ oldest <= x.now + Slack
<1> DEFINE z == Prune(zset, x.now)
           oldest == CHOOSE t \in {e[1] : e \in z} : \A e \in z : t <= e[1]
<1>1. z \in SUBSET (Int \X Nat) /\ z \subseteq zset
  BY DEF Prune, RateInv, TypeOK
<1>2. z # {}
  BY FS_EmptySet, RateAssumption
<1>3. \A e \in z : /\ 0 - Skew <= e[1] /\ e[1] <= time + Skew
                   /\ e[1] > x.now - Window
  <2> SUFFICES ASSUME NEW e \in z
               PROVE  0 - Skew <= e[1] /\ e[1] <= time + Skew /\ e[1] > x.now - Window
    OBVIOUS
  <2>1. PICK q \in admitted : e = Member(q)
    BY <1>1 DEF RateInv, Backed
  <2>2. q \in Request /\ time \in Nat
    BY DEF RateInv, TypeOK
  <2>3. q.at <= time /\ q.at - Skew <= q.now /\ q.now <= q.at + Skew
    BY DEF RateInv, Stamped
  <2>4. e[1] = q.now
    BY <2>1 DEF Member
  <2>5. e[1] > x.now - Window
    BY DEF Prune
  <2> QED
    BY <2>2, <2>3, <2>4, <2>5, RateAssumption DEF Request
<1>4. \E e \in z : e[1] = oldest
  <2>1. 0 - Skew \in Int /\ \A e \in z : 0 - Skew <= e[1]
    BY <1>3, RateAssumption
  <2> QED
    BY <1>1, <1>2, <2>1, OldestEntry
<1> HIDE DEF oldest
<1>5. PICK e \in z : e[1] = oldest
  BY <1>4
<1>6. oldest \in Int /\ oldest > x.now - Window /\ oldest <= time + Skew
  BY <1>1, <1>3, <1>5
<1>7. x \in Request /\ time \in Nat /\ time <= x.at + Delay /\ x.at - Skew <= x.now
  BY DEF RateInv, TypeOK, Prompt, Stamped
<1>8. oldest <= x.now + Slack
  BY <1>6, <1>7, RateAssumption DEF Slack, Request
<1> QED
  BY <1>1, <1>4, <1>6, <1>8 DEF oldest

\* Retry-After is a number of seconds between 1 and the window, and together with
\* the score of the oldest entry it reaches past the end of that entry's window.
LEMMA RetryAfter ==
  ASSUME NEW now \in Int, NEW oldest \in Int, oldest > now - Window,
         oldest <= now + Slack, NEW ms,
         ms = (IF oldest + Window - now < 0 THEN 0 ELSE oldest + Window - now)
  PROVE  /\ ResetSecs(ms) \in 1 .. WindowSecs
         /\ oldest <= now + ResetSecs(ms) * MsPerSec - Window
                        + (IF ResetSecs(ms) = WindowSecs THEN Slack ELSE 0)
<1> DEFINE secs == (ms + MsPerSec - 1) \div MsPerSec
<1>1. ms \in Nat /\ ms = oldest + Window - now /\ ms > 0
  BY WindowType
<1>2. secs \in Nat /\ ms <= secs * MsPerSec
  BY <1>1, CeilingSuffices, RateAssumption
<1>3. secs # 0
  BY <1>1, <1>2, RateAssumption
<1> HIDE DEF secs
<1>4. ResetSecs(ms) = IF secs > WindowSecs THEN WindowSecs ELSE secs
  BY <1>2, <1>3, RateAssumption DEF ResetSecs, secs
<1>5. ResetSecs(ms) \in 1 .. WindowSecs
  BY <1>2, <1>3, <1>4, RateAssumption
<1>6. CASE secs > WindowSecs
  <2>1. ResetSecs(ms) = WindowSecs /\ WindowSecs * MsPerSec = Window
    BY <1>4, <1>6 DEF Window
  <2> QED
    BY <1>5, <2>1, WindowType
<1>7. CASE ~ (secs > WindowSecs)
  <2>1. ResetSecs(ms) = secs /\ secs * MsPerSec \in Int
    BY <1>2, <1>4, <1>7, RateAssumption
  <2>2. oldest <= now + secs * MsPerSec - Window
    BY <1>1, <1>2, <2>1, WindowType
  <2> QED
    BY <1>5, <2>1, <2>2, WindowType
<1> QED
  BY <1>6, <1>7

\* A new stamp takes a number that the replica never used.
LEMMA StampStep ==
  ASSUME RateInv, NEW r \in Replicas, NEW now \in (time - Skew) .. (time + Skew),
         Stamp(r, now)
  PROVE  RateInv'
<1> DEFINE x == [rep |-> r, seq |-> seq[r], now |-> now, at |-> time]
<1>1. /\ time' = time /\ zset' = zset /\ expiry' = expiry
      /\ admitted' = admitted /\ denied' = denied
      /\ flight' = flight \cup {x} /\ seq' = [seq EXCEPT ![r] = @ + 1]
  BY DEF Stamp
<1>2. time \in Nat /\ seq \in [Replicas -> Nat] /\ now \in Int
  BY RateAssumption DEF RateInv, TypeOK
<1>3. x \in Request
  BY <1>2 DEF Request
<1>4. TypeOK'
  BY <1>1, <1>2, <1>3 DEF RateInv, TypeOK
<1>5. Stamped'
  BY <1>1, <1>2, RateAssumption DEF RateInv, Stamped
<1>6. Prompt'
  BY <1>1, <1>2, RateAssumption DEF RateInv, Prompt
<1>7. Numbered'
  <2>1. flight \cup admitted \subseteq Request
    BY DEF RateInv, TypeOK
  <2>2. \A q \in flight \cup admitted : q.rep \in Replicas /\ q.seq \in Nat
    BY <2>1 DEF Request
  <2>3. \A s \in Replicas : seq'[s] = IF s = r THEN seq[r] + 1 ELSE seq[s]
    BY <1>1, <1>2
  <2>4. x.rep = r /\ x.seq = seq[r]
    OBVIOUS
  <2>5. \A q \in flight \cup admitted : q.seq < seq[q.rep]
    BY DEF RateInv, Numbered
  <2>6. \A p, q \in flight \cup admitted : p.rep = q.rep /\ p.seq = q.seq => p = q
    BY DEF RateInv, Numbered
  <2> HIDE DEF x
  <2>7. \A q \in flight' \cup admitted' : q.seq < seq'[q.rep]
    BY <1>1, <1>2, <2>2, <2>3, <2>4, <2>5
  <2>8. \A p, q \in flight' \cup admitted' : p.rep = q.rep /\ p.seq = q.seq => p = q
    BY <1>1, <1>2, <2>2, <2>4, <2>5, <2>6
  <2> QED
    BY <2>7, <2>8 DEF Numbered
<1>8. Backed' /\ OutlivesWindow' /\ Kept'
  BY <1>1 DEF RateInv, Backed, OutlivesWindow, Kept
<1> QED
  BY <1>1, <1>4, <1>5, <1>6, <1>7, <1>8 DEF RateInv

\* Letting a request through adds its member and renews the expiry.
LEMMA AllowStep ==
  ASSUME RateInv, NEW x \in flight, Allow(x)
  PROVE  RateInv'
<1> DEFINE z == Prune(zset, x.now)
<1>1. /\ time' = time /\ seq' = seq /\ denied' = denied
      /\ zset' = z \cup {Member(x)} /\ expiry' = time + Window + Grace
      /\ admitted' = admitted \cup {x} /\ flight' = flight \ {x}
  BY DEF Allow, Member
<1>2. x \in Request /\ time \in Nat /\ admitted \subseteq Request
  BY DEF RateInv, TypeOK
<1>3. z \subseteq zset /\ IsFiniteSet(z)
  BY PruneKeeps
<1>4. flight' \cup admitted' \subseteq flight \cup admitted
  BY <1>1
<1>5. TypeOK'
  BY <1>1, <1>2, <1>3, RateAssumption, WindowType DEF RateInv, TypeOK, Member, Request
<1>6. IsFiniteSet(admitted') /\ IsFiniteSet(zset')
  BY <1>1, <1>3, FS_AddElement DEF RateInv
<1>7. Stamped' /\ Prompt' /\ Numbered'
  BY <1>1, <1>4 DEF RateInv, Stamped, Prompt, Numbered
<1>8. Backed'
  BY <1>1, <1>3 DEF RateInv, Backed
<1>9. OutlivesWindow'
  <2> SUFFICES ASSUME NEW q \in admitted'
               PROVE  q.now - Skew + Window <= expiry'
    BY DEF OutlivesWindow
  <2>1. q \in Request /\ q.at <= time /\ q.now <= q.at + Skew
    BY <1>1, <1>2, <1>4 DEF RateInv, Stamped
  <2> QED
    BY <1>1, <1>2, <2>1, RateAssumption, WindowType DEF Request
<1>10. Kept'
  BY <1>1, PruneKeeps DEF Kept
<1> QED
  BY <1>5, <1>6, <1>7, <1>8, <1>9, <1>10 DEF RateInv

\* Turning a request away only prunes.
LEMMA DenyStep ==
  ASSUME RateInv, NEW x \in flight, Deny(x)
  PROVE  RateInv'
<1> DEFINE z == Prune(zset, x.now)
           oldest == CHOOSE t \in {e[1] : e \in z} : \A e \in z : t <= e[1]
           d == [now |-> x.now, reset_secs |-> ResetSecs(ResetMs(z, x.now)), entries |-> z]
<1>1. /\ time' = time /\ seq' = seq /\ expiry' = expiry /\ admitted' = admitted
      /\ zset' = z /\ flight' = flight \ {x}
      /\ denied' = {d} \/ denied' = denied
      /\ Cardinality(z) >= Limit
  BY DEF Deny
<1>2. x \in Request /\ x.now \in Int
  BY DEF RateInv, TypeOK, Request
<1>3. z \subseteq zset /\ IsFiniteSet(z) /\ z \in SUBSET (Int \X Nat)
  BY <1>1, PruneKeeps, DenialReports
<1>4. d.reset_secs \in 1 .. WindowSecs
  <2>1. oldest \in Int /\ oldest > x.now - Window /\ oldest <= x.now + Slack
    BY <1>1, DenialReports
  <2>2. ResetMs(z, x.now) =
          IF oldest + Window - x.now < 0 THEN 0 ELSE oldest + Window - x.now
    BY DEF ResetMs
  <2> HIDE DEF oldest, z
  <2> QED
    BY <1>2, <2>1, <2>2, RetryAfter
<1>5. TypeOK'
  <2>1. d \in [now : Int, reset_secs : 1 .. WindowSecs, entries : SUBSET (Int \X Nat)]
    BY <1>2, <1>3, <1>4
  <2> HIDE DEF d, z
  <2> QED
    BY <1>1, <1>3, <2>1 DEF RateInv, TypeOK
<1>6. Stamped' /\ Prompt' /\ Numbered' /\ OutlivesWindow'
  BY <1>1 DEF RateInv, Stamped, Prompt, Numbered, OutlivesWindow
<1>7. Backed'
  BY <1>1, <1>3 DEF RateInv, Backed
<1>8. Kept'
  BY <1>1, PruneKeeps DEF Kept
<1> QED
  BY <1>1, <1>3, <1>5, <1>6, <1>7, <1>8 DEF RateInv

\* The invariant is inductive.
LEMMA RateStep == RateInv /\ [Next]_vars => RateInv'
<1> SUFFICES ASSUME RateInv, [Next]_vars
             PROVE  RateInv'
  OBVIOUS
<1>1. CASE Tick
  <2>1. /\ time \in Nat /\ time' = time + 1
        /\ \A q \in flight : time < q.at + Delay
        /\ UNCHANGED <<seq, flight, zset, expiry, admitted, denied>>
    BY <1>1 DEF Tick, RateInv, TypeOK
  <2>2. flight \subseteq Request /\ admitted \subseteq Request
    BY DEF RateInv, TypeOK
  <2>3. TypeOK' /\ Numbered' /\ Backed' /\ OutlivesWindow'
    BY <2>1 DEF RateInv, TypeOK, Numbered, Backed, OutlivesWindow
  <2>4. Stamped' /\ Prompt'
    BY <2>1, <2>2, RateAssumption DEF RateInv, Stamped, Prompt, Request
  <2>5. Kept'
    BY <2>1, <2>2, RateAssumption, WindowType DEF RateInv, Kept, Request
  <2> QED
    BY <2>1, <2>3, <2>4, <2>5 DEF RateInv
<1>2. CASE \E r \in Replicas, now \in (time - Skew) .. (time + Skew) : Stamp(r, now)
  BY <1>2, StampStep
<1>3. CASE \E q \in flight : Allow(q)
  BY <1>3, AllowStep
<1>4. CASE \E q \in flight : Deny(q)
  BY <1>4, DenyStep
<1>5. CASE \E q \in flight : FailOpen(q)
  BY <1>5 DEF FailOpen, RateInv, TypeOK, Stamped, Prompt, Numbered, Backed,
              OutlivesWindow, Kept
<1>6. CASE KeyExpires
  <2>1. /\ time >= expiry /\ zset' = {}
        /\ UNCHANGED <<time, seq, flight, expiry, admitted, denied>>
    BY <1>6 DEF KeyExpires
  <2>2. TypeOK' /\ Stamped' /\ Prompt' /\ Numbered' /\ Backed' /\ OutlivesWindow'
    BY <2>1 DEF RateInv, TypeOK, Stamped, Prompt, Numbered, Backed, OutlivesWindow
  <2>3. \A q \in admitted : ~ (q.now > time + Skew - Window)
    BY <2>1, RateAssumption, WindowType
    DEF RateInv, TypeOK, OutlivesWindow, Request
  <2>4. Kept'
    BY <2>1, <2>3 DEF Kept
  <2> QED
    BY <2>1, <2>2, <2>4, FS_EmptySet DEF RateInv
<1>7. CASE UNCHANGED vars
  BY <1>7 DEF vars, RateInv, TypeOK, Stamped, Prompt, Numbered, Backed,
              OutlivesWindow, Kept
<1> QED
  BY <1>1, <1>2, <1>3, <1>4, <1>5, <1>6, <1>7 DEF Next

LEMMA RateInvariant == Spec => []RateInv
<1> QED
  BY RateInit, RateStep, PTL DEF Spec

\* Every variable keeps its type; in particular there is an oldest entry whenever
\* the script computes Retry-After, and the value lies between 1 and window_secs.
THEOREM TypeCorrect == Spec => []TypeOK
<1>1. RateInv => TypeOK
  BY DEF RateInv
<1> QED
  BY <1>1, RateInvariant, PTL

-----------------------------------------------------------------------------
(* The limit.                                                              *)

\* The requests of last's replica that share a window with last.
SharesWindow(last) ==
  {q \in admitted : /\ q.rep = last.rep
                    /\ q.now <= last.now
                    /\ q.now > last.now - (Window - Slack)}

\* No replica gets more than Limit requests through in a window, however many
\* replicas share the key.
LimitPerReplica ==
  \A last \in admitted : Cardinality(SharesWindow(last)) <= Limit

\* What the script counts when it decides about x includes every request of x's
\* replica that can share a window with x, each by a member of its own.
LEMMA CountsOwn ==
  ASSUME RateInv, NEW x \in flight, Allow(x)
  PROVE  LET R == {q \in admitted : /\ q.rep = x.rep
                                    /\ q.now > x.now - (Window - Slack)}
         IN IsFiniteSet(R) /\ Cardinality(R) < Limit
<1> DEFINE R == {q \in admitted : q.rep = x.rep /\ q.now > x.now - (Window - Slack)}
           z == Prune(zset, x.now)
           f == [q \in R |-> Member(q)]
<1>1. x \in Request /\ time \in Nat /\ admitted \subseteq Request
  BY DEF RateInv, TypeOK
<1>2. time <= x.at + Delay /\ x.at - Skew <= x.now
  BY DEF RateInv, Prompt, Stamped
<1>3. \A q \in R : q.now > time + Skew - Window
  BY <1>1, <1>2, RateAssumption, WindowType DEF Request, Slack
<1>4. \A q \in R : Member(q) \in z
  BY <1>3, PruneKeeps
<1>5. \A p, q \in R : Member(p) = Member(q) => p = q
  BY DEF RateInv, Numbered, Member
<1>6. IsFiniteSet(z) /\ Cardinality(z) < Limit /\ Cardinality(z) \in Nat
  BY PruneKeeps, FS_CardinalityType DEF Allow
<1> HIDE DEF R, z
<1>7. f \in [R -> z] /\ \A p, q \in R : f[p] = f[q] => p = q
  BY <1>4, <1>5
<1>8. IsFiniteSet(R) /\ Cardinality(R) <= Cardinality(z)
  BY <1>6, <1>7, CountByMap
<1>9. Cardinality(R) \in Nat
  BY <1>8, FS_CardinalityType
<1> QED
  BY <1>6, <1>8, <1>9, RateAssumption DEF R

LEMMA LimitStep == RateInv /\ LimitPerReplica /\ [Next]_vars => LimitPerReplica'
<1> SUFFICES ASSUME RateInv, LimitPerReplica, [Next]_vars
             PROVE  LimitPerReplica'
  OBVIOUS
<1>1. CASE admitted' = admitted
  BY <1>1 DEF LimitPerReplica, SharesWindow
<1>2. CASE \E x \in flight : Allow(x)
  <2>1. PICK x \in flight : Allow(x)
    BY <1>2
  <2> DEFINE R == {q \in admitted : q.rep = x.rep /\ q.now > x.now - (Window - Slack)}
  <2>2. admitted' = admitted \cup {x} /\ admitted \cup {x} \subseteq Request
    BY <2>1 DEF Allow, RateInv, TypeOK
  <2>3. IsFiniteSet(R) /\ Cardinality(R) < Limit /\ Cardinality(R) \in Nat
    BY <2>1, CountsOwn, FS_CardinalityType
  <2> SUFFICES ASSUME NEW last \in admitted'
               PROVE  Cardinality(SharesWindow(last)') <= Limit
    BY DEF LimitPerReplica, SharesWindow
  <2>4. last \in Request /\ x \in Request
    BY <2>2
  <2>5. CASE x \in SharesWindow(last)'
    <3>1. SharesWindow(last)' \subseteq R \cup {x}
      BY <2>2, <2>4, <2>5, WindowType DEF SharesWindow, Request
    <3>2. IsFiniteSet(R \cup {x}) /\ Cardinality(R \cup {x}) <= Cardinality(R) + 1
      <4> HIDE DEF R
      <4>1. /\ IsFiniteSet(R \cup {x})
            /\ Cardinality(R \cup {x}) = IF x \in R THEN Cardinality(R) ELSE Cardinality(R) + 1
        BY ONLY <2>3, FS_AddElement
      <4> QED
        BY <2>3, <4>1
    <3> HIDE DEF R
    <3>3. IsFiniteSet(SharesWindow(last)')
          /\ Cardinality(SharesWindow(last)') <= Cardinality(R \cup {x})
      BY <3>1, <3>2, FS_Subset
    <3>4. Cardinality(SharesWindow(last)') \in Nat /\ Cardinality(R \cup {x}) \in Nat
      BY <3>2, <3>3, FS_CardinalityType
    <3> QED
      BY <2>3, <3>2, <3>3, <3>4, RateAssumption
  <2>6. CASE x \notin SharesWindow(last)'
    <3>1. SharesWindow(last)' = SharesWindow(last)
      BY <2>2, <2>6 DEF SharesWindow
    <3>2. CASE last \in admitted
      BY <3>1, <3>2 DEF LimitPerReplica
    <3>3. CASE last = x
      <4>1. SharesWindow(last) = {}
        BY <2>2, <2>4, <2>6, <3>3, WindowType DEF SharesWindow, Request
      <4> QED
        BY <3>1, <4>1, FS_EmptySet, RateAssumption
    <3> QED
      BY <2>2, <3>2, <3>3
  <2> QED
    BY <2>5, <2>6
<1> QED
  BY <1>1, <1>2 DEF Next, Tick, Stamp, Deny, FailOpen, KeyExpires, vars

\* A single replica's traffic is limited, however many replicas share the key, and
\* whatever their clocks' skew, the delays and the failures of Redis in between.
THEOREM EachReplicaLimited == Spec => []LimitPerReplica
<1>1. Init => LimitPerReplica
  BY DEF Init, LimitPerReplica
<1> QED
  BY <1>1, RateInvariant, LimitStep, PTL DEF Spec

\* With one replica the limit holds as the middleware promises it; with more it
\* does not, because their members can coincide (run rate_limit_replicas).
THEOREM LimitKept ==
  ASSUME \A r, s \in Replicas : r = s
  PROVE  Spec => []LimitHolds
<1>1. RateInv /\ LimitPerReplica => LimitHolds
  <2> SUFFICES ASSUME RateInv, LimitPerReplica, NEW last \in admitted
               PROVE  Cardinality({q \in admitted :
                                     /\ q.now <= last.now
                                     /\ q.now > last.now - (Window - Slack)}) <= Limit
    BY DEF LimitHolds
  <2>1. \A q \in admitted : q.rep = last.rep
    BY DEF RateInv, TypeOK, Request
  <2>2. {q \in admitted : q.now <= last.now /\ q.now > last.now - (Window - Slack)}
          = SharesWindow(last)
    BY <2>1 DEF SharesWindow
  <2> QED
    BY <2>2 DEF LimitPerReplica
<1> QED
  BY <1>1, RateInvariant, EachReplicaLimited, PTL

-----------------------------------------------------------------------------
(* The denials.                                                            *)

\* The admitted requests behind the window of a stamp.
Behind(now) == {q \in admitted : q.now > now - Window}

\* Each member that the script counts stands for a request of its own.
LEMMA DenialBacked ==
  ASSUME RateInv, NEW x \in flight, Deny(x)
  PROVE  IsFiniteSet(Behind(x.now)) /\ Cardinality(Behind(x.now)) >= Limit
<1> DEFINE z == Prune(zset, x.now)
           B == Behind(x.now)
           f == [e \in z |-> CHOOSE q \in B : e = Member(q)]
<1>1. \A e \in z : \E q \in B : e = Member(q)
  <2> SUFFICES ASSUME NEW e \in z
               PROVE  \E q \in B : e = Member(q)
    OBVIOUS
  <2>1. e \in zset /\ e[1] > x.now - Window
    BY DEF Prune
  <2>2. PICK q \in admitted : e = Member(q)
    BY <2>1 DEF RateInv, Backed
  <2>3. q.now > x.now - Window
    BY <2>1, <2>2 DEF Member
  <2> QED
    BY <2>2, <2>3 DEF Behind
<1>2. B \in SUBSET admitted
  BY DEF Behind
<1>3. IsFiniteSet(B) /\ Cardinality(B) \in Nat
  BY <1>2, FS_Subset, FS_CardinalityType DEF RateInv
<1>4. Cardinality(z) >= Limit /\ IsFiniteSet(z) /\ Cardinality(z) \in Nat
  BY PruneKeeps, FS_CardinalityType DEF Deny
<1> HIDE DEF z, B
<1>5. \A e \in z : f[e] \in B /\ e = Member(f[e])
  BY <1>1
<1>6. f \in [z -> B] /\ \A d, e \in z : f[d] = f[e] => d = e
  <2>1. \A d, e \in z : f[d] = f[e] => d = e
    <3> HIDE DEF f
    <3> QED
      BY <1>5
  <2>2. f \in [z -> B]
    BY <1>5
  <2> QED
    BY <2>1, <2>2
<1> HIDE DEF f
<1>7. Cardinality(z) <= Cardinality(B)
  BY <1>3, <1>6, CountByMap
<1> QED
  BY <1>3, <1>4, <1>7, RateAssumption DEF B

LEMMA DeniedStep == RateInv /\ DenialsJustified /\ [Next]_vars => DenialsJustified'
<1> SUFFICES ASSUME RateInv, DenialsJustified, [Next]_vars, NEW d \in denied'
             PROVE  Cardinality(Behind(d.now)') >= Limit
  BY DEF DenialsJustified, Behind
<1>1. CASE \E x \in flight : Allow(x)
  <2>1. PICK x \in flight : Allow(x)
    BY <1>1
  <2>2. admitted' = admitted \cup {x} /\ denied' = denied
    BY <2>1 DEF Allow
  <2>3. Behind(d.now) \subseteq Behind(d.now)' /\ Behind(d.now)' \subseteq admitted'
    BY <2>2 DEF Behind
  <2>4. IsFiniteSet(admitted')
    BY <2>2, FS_AddElement DEF RateInv
  <2>5. IsFiniteSet(Behind(d.now)')
    BY <2>3, <2>4, FS_Subset
  <2>6. /\ IsFiniteSet(Behind(d.now))
        /\ Cardinality(Behind(d.now)) <= Cardinality(Behind(d.now)')
    BY <2>3, <2>5, FS_Subset
  <2>7. Cardinality(Behind(d.now)) \in Nat /\ Cardinality(Behind(d.now)') \in Nat
    BY <2>5, <2>6, FS_CardinalityType
  <2>8. Cardinality(Behind(d.now)) >= Limit
    BY <2>2 DEF DenialsJustified, Behind
  <2> QED
    BY <2>6, <2>7, <2>8, RateAssumption
<1>2. CASE \E x \in flight : Deny(x)
  <2>1. PICK x \in flight : Deny(x)
    BY <1>2
  <2>2. admitted' = admitted /\ (d \in denied \/ d.now = x.now)
    BY <2>1 DEF Deny
  <2>3. Behind(d.now)' = Behind(d.now)
    BY <2>2 DEF Behind
  <2>4. Cardinality(Behind(d.now)) >= Limit
    BY <2>1, <2>2, DenialBacked DEF DenialsJustified, Behind
  <2> QED
    BY <2>3, <2>4
<1>3. CASE admitted' = admitted /\ denied' = denied
  BY <1>3 DEF DenialsJustified, Behind
<1> QED
  BY <1>1, <1>2, <1>3 DEF Next, Tick, Stamp, FailOpen, KeyExpires, vars

\* Nobody is turned away for less than Limit admitted requests of the last window.
THEOREM DenialsAreJustified == Spec => []DenialsJustified
<1>1. Init => DenialsJustified
  BY DEF Init, DenialsJustified
<1> QED
  BY <1>1, RateInvariant, DeniedStep, PTL DEF Spec

LEMMA RetryStep == RateInv /\ RetryAfterSuffices /\ [Next]_vars => RetryAfterSuffices'
<1> SUFFICES ASSUME RateInv, RetryAfterSuffices, [Next]_vars
             PROVE  RetryAfterSuffices'
  OBVIOUS
<1>1. CASE denied' = denied
  BY <1>1 DEF RetryAfterSuffices
<1>2. CASE \E x \in flight : Deny(x)
  <2>1. PICK x \in flight : Deny(x)
    BY <1>2
  <2> DEFINE z == Prune(zset, x.now)
             oldest == CHOOSE t \in {e[1] : e \in z} : \A e \in z : t <= e[1]
             ms == ResetMs(z, x.now)
  <2>2. /\ Cardinality(z) >= Limit
        /\ \/ denied' = denied
           \/ denied' = {[now |-> x.now, reset_secs |-> ResetSecs(ms), entries |-> z]}
    BY <2>1 DEF Deny
  <2>3. /\ oldest \in Int /\ oldest > x.now - Window /\ oldest <= x.now + Slack
        /\ \E e \in z : e[1] = oldest
    BY <2>2, DenialReports
  <2>4. ms = (IF oldest + Window - x.now < 0 THEN 0 ELSE oldest + Window - x.now)
    BY DEF ResetMs
  <2>5. x.now \in Int
    BY DEF RateInv, TypeOK, Request
  <2> HIDE DEF z, oldest, ms
  <2>6. oldest <= x.now + ResetSecs(ms) * MsPerSec - Window
                    + (IF ResetSecs(ms) = WindowSecs THEN Slack ELSE 0)
    BY <2>3, <2>4, <2>5, RetryAfter
  <2> QED
    BY <2>2, <2>3, <2>6 DEF RetryAfterSuffices
<1> QED
  BY <1>1, <1>2 DEF Next, Tick, Stamp, Allow, FailOpen, KeyExpires, vars

\* Whoever waits as long as Retry-After says outlives the oldest entry's window.
THEOREM RetryAfterIsEnough == Spec => []RetryAfterSuffices
<1>1. Init => RetryAfterSuffices
  BY DEF Init, RetryAfterSuffices
<1> QED
  BY <1>1, RateInvariant, RetryStep, PTL DEF Spec

=============================================================================
