-------------------------- MODULE CountFetchProofs --------------------------
(***************************************************************************)
(* CountFetch, for any number of keys and tasks: a key has one leader,     *)
(* answers were really read, and while no future is dropped an entry has a *)
(* leader at work and no wake-up is lost.                                  *)
(***************************************************************************)
EXTENDS CountFetch, FiniteSetTheorems, TLAPS

-----------------------------------------------------------------------------
(* Types.                                                                  *)

\* The channel operations change statuses and values only.
LEMMA ChannelTypes ==
  ASSUME TypeOK, NEW t \in Tasks
  PROVE  /\ \A K \in SUBSET Keys : Shut(st, t, K) \in [Tasks -> [Keys -> Status]]
         /\ \A k \in Keys : Tell(st, t, k) \in [Tasks -> [Keys -> Status]]
         /\ \A k \in Keys : TellValue(t, k) \in [Tasks -> [Keys -> Nat \cup {NoValue}]]
BY DEF TypeOK, Shut, Tell, TellValue, Status

\* A task's step keeps the types.
LEMMA TaskTypes ==
  ASSUME TypeOK, NEW t \in Tasks, TaskStep(t)
  PROVE  TypeOK'
<1> USE DEF TypeOK, Goto
<1>1. CASE Lookup(t)
  BY <1>1 DEF Lookup, PC, Status, With
<1>2. CASE Fetch(t)
  BY <1>2 DEF Fetch, PC
<1>3. CASE FetchFails(t)
  <2> DEFINE K == With(t, "lead")
  <2>1. Shut(st, t, K) \in [Tasks -> [Keys -> Status]]
    BY ChannelTypes DEF With
  <2>2. st' \in [Tasks -> [Keys -> Status]]
    BY <1>3, <2>1 DEF FetchFails, Fresh, Status
  <2> QED
    BY <1>3, <2>2 DEF FetchFails, PC
<1>4. CASE CacheWrite(t)
  <2> DEFINE K == With(t, "own")
  <2>1. Shut(st, t, K) \in [Tasks -> [Keys -> Status]]
    BY ChannelTypes DEF With
  <2>2. st' \in [Tasks -> [Keys -> Status]]
    BY <1>4, <2>1 DEF CacheWrite, Status
  <2>3. cache' \in [Keys -> Nat \cup {NoValue}]
    BY <1>4, SMTT(30) DEF CacheWrite, With
  <2>4. pc' \in [Tasks -> PC]
    BY <1>4 DEF CacheWrite, PC
  <2> QED
    BY <1>4, <2>2, <2>3, <2>4 DEF CacheWrite
<1>5. ASSUME NEW k \in Keys, Join(t, k)
      PROVE  TypeOK'
  <2>1. pc' \in [Tasks -> PC]
    BY <1>5 DEF Join, PC
  <2>2. st' \in [Tasks -> [Keys -> Status]]
    BY <1>5 DEF Join, Status
  <2>3. /\ pending' \in [Keys -> Tasks \cup {NoOne}]
        /\ chan' \in [Tasks -> [Keys -> Tasks \cup {NoOne}]]
    <3>1. CASE pending[k] = NoOne
      BY <1>5, <3>1 DEF Join
    <3>2. CASE pending[k] # NoOne
      <4>1. pending' = pending /\ chan' = [chan EXCEPT ![t][k] = pending[k]]
        BY <1>5, <3>2 DEF Join
      <4>2. pending[k] \in Tasks \cup {NoOne}
        OBVIOUS
      <4> QED
        BY <4>1, <4>2
    <3> QED
      BY <3>1, <3>2
  <2> QED
    BY <1>5, <2>1, <2>2, <2>3 DEF Join
<1>6. ASSUME NEW k \in Keys, SendCount(t, k)
      PROVE  TypeOK'
  BY <1>6, ChannelTypes DEF SendCount, Status
<1>7. ASSUME NEW k \in Keys, RemoveEntry(t, k)
      PROVE  TypeOK'
  BY <1>7 DEF RemoveEntry, PC, Status
<1>8. ASSUME NEW k \in Keys, PublishBatch(t, k)
      PROVE  TypeOK'
  BY <1>8, ChannelTypes DEF PublishBatch, PC, Status
<1>9. ASSUME NEW k \in Keys, Receive(t, k)
      PROVE  TypeOK'
  BY <1>9 DEF Receive, PC, Status
<1>10. ASSUME NEW k \in Keys, GiveUp(t, k)
       PROVE  TypeOK'
  BY <1>10 DEF GiveUp, Status
<1>11. ASSUME NEW k \in Keys, Backfill(t, k)
       PROVE  TypeOK'
  BY <1>11 DEF Backfill, PC, Status
<1>12. ASSUME NEW k \in Keys, BackfillFails(t, k)
       PROVE  TypeOK'
  BY <1>12 DEF BackfillFails, Fresh, PC, Status
<1> QED
  BY <1>1, <1>2, <1>3, <1>4, <1>5, <1>6, <1>7, <1>8, <1>9, <1>10, <1>11, <1>12
     DEF TaskStep

\* So does every other step.
LEMMA TypeStep ==
  ASSUME TypeOK, [Next]_vars
  PROVE  TypeOK'
<1>1. ASSUME NEW t \in Tasks, NEW K \in SUBSET Keys, NEW b \in BOOLEAN, Request(t, K, b)
      PROVE  TypeOK'
  BY <1>1 DEF TypeOK, Request, Goto, Fresh, PC, Status
<1>2. ASSUME NEW t \in Tasks, Cancel(t)
      PROVE  TypeOK'
  <2>1. Shut(st, t, With(t, "own")) \in [Tasks -> [Keys -> Status]]
    BY ChannelTypes DEF With
  <2> QED
    BY <1>2, <2>1 DEF TypeOK, Cancel, Goto, Fresh, PC, Status
<1>3. ASSUME NEW k \in Keys, Expire(k)
      PROVE  TypeOK'
  BY <1>3 DEF TypeOK, Expire, taskVars
<1>4. ASSUME NEW k \in Keys, NEW v \in 0 .. MaxVersion, Mutate(k, v)
      PROVE  TypeOK'
  BY <1>4, FetchAssumption DEF TypeOK, Mutate, taskVars
<1>5. ASSUME NEW w \in through, WriteThrough(w)
      PROVE  TypeOK'
  BY <1>5 DEF TypeOK, WriteThrough, taskVars
<1>6. CASE UNCHANGED vars
  BY <1>6 DEF TypeOK, vars
<1> QED
  BY <1>1, <1>2, <1>3, <1>4, <1>5, <1>6, TaskTypes DEF Next

\* The variables of the count cache keep their types, for any keys and tasks,
\* dropped or not.
THEOREM TypeCorrect == Spec => []TypeOK
<1>1. Init => TypeOK
  BY DEF Init, TypeOK, PC, Status
<1> QED
  BY <1>1, TypeStep, PTL DEF Spec

-----------------------------------------------------------------------------
(* What a channel does to each status and value.                           *)

\* Only those who wait on t's channel for a key in K find it shut.
LEMMA ShutEffect ==
  ASSUME TypeOK, NEW t \in Tasks, NEW K \in SUBSET Keys, NEW f \in Tasks, NEW k \in Keys
  PROVE  Shut(st, t, K)[f][k] = IF k \in K /\ st[f][k] = "wait" /\ chan[f][k] = t
                                  THEN "shut" ELSE st[f][k]
BY DEF TypeOK, Shut, Followers

\* Only those who wait on t's channel for k are told, and they get t's value.
LEMMA TellEffect ==
  ASSUME TypeOK, NEW t \in Tasks, NEW k \in Keys, NEW f \in Tasks, NEW l \in Keys
  PROVE  /\ Tell(st, t, k)[f][l] = IF l = k /\ st[f][k] = "wait" /\ chan[f][k] = t
                                     THEN "told" ELSE st[f][l]
         /\ TellValue(t, k)[f][l] = IF l = k /\ st[f][k] = "wait" /\ chan[f][k] = t
                                      THEN val[t][k] ELSE val[f][l]
BY DEF TypeOK, Tell, TellValue, Followers

-----------------------------------------------------------------------------
(* One leader.                                                             *)

\* SoleLeader is inductive: who inserts an entry found none, and who removes
\* one leads the key.
LEMMA LeaderStep ==
  ASSUME TypeOK, SoleLeader, [Next]_vars
  PROVE  SoleLeader'
<1> USE DEF SoleLeader
<1>1. ASSUME NEW t \in Tasks, NEW K \in SUBSET Keys, NEW b \in BOOLEAN, Request(t, K, b)
      PROVE  SoleLeader'
  BY <1>1 DEF TypeOK, Request
<1>2. ASSUME NEW t \in Tasks, Lookup(t)
      PROVE  SoleLeader'
  BY <1>2 DEF TypeOK, Lookup
<1>3. ASSUME NEW t \in Tasks, FetchFails(t)
      PROVE  SoleLeader'
  <2> DEFINE K == With(t, "lead")
  <2>1. K \in SUBSET Keys
    BY DEF With
  <2>2. \A u \in Tasks, l \in Keys :
          st'[u][l] = IF u = t THEN "none" ELSE Shut(st, t, K)[u][l]
    BY <1>3, <2>1, ChannelTypes DEF FetchFails, Fresh
  <2>3. \A l \in Keys : pending'[l] = IF st[t][l] = "lead" THEN NoOne ELSE pending[l]
    BY <1>3 DEF FetchFails, With
  <2> QED
    BY <2>1, <2>2, <2>3, ShutEffect
<1>4. ASSUME NEW t \in Tasks, CacheWrite(t)
      PROVE  SoleLeader'
  <2> DEFINE K == With(t, "own")
  <2>1. K \in SUBSET Keys
    BY DEF With
  <2>2. \A u \in Tasks, l \in Keys :
          st'[u][l] = IF u = t /\ l \in K THEN "have" ELSE Shut(st, t, K)[u][l]
    BY <1>4, <2>1, ChannelTypes DEF CacheWrite
  <2> QED
    BY <1>4, <2>1, <2>2, ShutEffect DEF CacheWrite
<1>5. ASSUME NEW t \in Tasks, NEW k \in Keys, Join(t, k)
      PROVE  SoleLeader'
  BY <1>5, FetchAssumption DEF TypeOK, Join
<1>6. ASSUME NEW t \in Tasks, NEW k \in Keys, SendCount(t, k)
      PROVE  SoleLeader'
  <2>1. \A u \in Tasks, l \in Keys :
          st'[u][l] = IF u = t /\ l = k THEN "sent" ELSE Tell(st, t, k)[u][l]
    BY <1>6, ChannelTypes DEF SendCount
  <2> QED
    BY <1>6, <2>1, TellEffect DEF SendCount
<1>7. ASSUME NEW t \in Tasks, NEW k \in Keys, RemoveEntry(t, k)
      PROVE  SoleLeader'
  BY <1>7 DEF TypeOK, RemoveEntry
<1>8. ASSUME NEW t \in Tasks, NEW k \in Keys, PublishBatch(t, k)
      PROVE  SoleLeader'
  <2>1. \A u \in Tasks, l \in Keys :
          st'[u][l] = IF u = t /\ l = k THEN "own" ELSE Tell(st, t, k)[u][l]
    BY <1>8, ChannelTypes DEF PublishBatch
  <2>2. \A l \in Keys : pending'[l] = IF l = k THEN NoOne ELSE pending[l]
    BY <1>8 DEF PublishBatch, TypeOK
  <2> QED
    BY <1>8, <2>1, <2>2, TellEffect DEF PublishBatch
<1>9. ASSUME NEW t \in Tasks, NEW k \in Keys,
             Receive(t, k) \/ GiveUp(t, k) \/ Backfill(t, k) \/ BackfillFails(t, k)
      PROVE  SoleLeader'
  <2>1. pending' = pending
    BY <1>9 DEF Receive, GiveUp, Backfill, BackfillFails
  <2>2. \A u \in Tasks, l \in Keys :
          st'[u][l] \in {"lead", "sent"} => st[u][l] \in {"lead", "sent"}
    <3>1. CASE Receive(t, k)
      BY <3>1 DEF TypeOK, Receive
    <3>2. CASE GiveUp(t, k)
      BY <3>2 DEF TypeOK, GiveUp
    <3>3. CASE Backfill(t, k)
      BY <3>3 DEF TypeOK, Backfill
    <3>4. CASE BackfillFails(t, k)
      BY <3>4 DEF TypeOK, BackfillFails, Fresh
    <3> QED
      BY <1>9, <3>1, <3>2, <3>3, <3>4
  <2> QED
    BY <2>1, <2>2
<1>10. ASSUME NEW t \in Tasks, Cancel(t)
       PROVE  SoleLeader'
  <2> DEFINE K == With(t, "own")
  <2>1. K \in SUBSET Keys
    BY DEF With
  <2>2. \A u \in Tasks, l \in Keys :
          st'[u][l] = IF u = t THEN "none" ELSE Shut(st, t, K)[u][l]
    BY <1>10, <2>1, ChannelTypes DEF Cancel, Fresh
  <2> QED
    BY <1>10, <2>1, <2>2, ShutEffect DEF Cancel
<1>11. CASE \/ \E t \in Tasks : Fetch(t)
            \/ \E k \in Keys : Expire(k) \/ \E v \in 0 .. MaxVersion : Mutate(k, v)
            \/ \E w \in through : WriteThrough(w)
            \/ UNCHANGED vars
  BY <1>11 DEF Fetch, Expire, Mutate, WriteThrough, taskVars, vars
<1> QED
  BY <1>1, <1>2, <1>3, <1>4, <1>5, <1>6, <1>7, <1>8, <1>9, <1>10, <1>11
     DEF Next, TaskStep

\* A key is never led by two tasks, whoever times out or is dropped.
THEOREM OneLeader == Spec => []SoleLeader
<1>1. Init => TypeOK /\ SoleLeader
  BY DEF Init, TypeOK, PC, Status, SoleLeader
<1>2. TypeOK /\ SoleLeader /\ [Next]_vars => (TypeOK /\ SoleLeader)'
  BY TypeStep, LeaderStep
<1> QED
  BY <1>1, <1>2, PTL DEF Spec

-----------------------------------------------------------------------------
(* Answers.                                                                *)

(* A version no newer than the key's row.                                  *)
Was(k, v) == v \in 0 .. db[k]

(* The statuses and stages in which a task holds a value for k.            *)
Holds(t, k) ==
  \/ st[t][k] \in {"sent", "own", "told", "have"}
  \/ pc[t] = "publish" /\ st[t][k] = "lead"

(* Whatever is cached, on its way to the cache or held by a task was read. *)
WasRead ==
  /\ \A k \in Keys : cache[k] # NoValue => Was(k, cache[k])
  /\ \A w \in through : Was(w[1], w[2])
  /\ \A t \in Tasks, k \in Keys : Holds(t, k) => Was(k, val[t][k])

\* A step that touches neither database nor caches keeps WasRead if whoever
\* holds a value afterwards held it before, or got it from one who did.
LEMMA ValueStep ==
  ASSUME TypeOK, WasRead, UNCHANGED <<db, cache, through>>,
         \A t \in Tasks, k \in Keys : Holds(t, k)' =>
           \/ Holds(t, k) /\ val'[t][k] = val[t][k]
           \/ val'[t][k] \in {db[k], cache[k]} \cap Nat
           \/ \E u \in Tasks : Holds(u, k) /\ val'[t][k] = val[u][k]
  PROVE  WasRead'
<1>1. \A k \in Keys : \A v : Was(k, v)' <=> Was(k, v)
  BY DEF Was
<1>2. ASSUME NEW t \in Tasks, NEW k \in Keys, Holds(t, k)'
      PROVE  Was(k, val'[t][k])
  <2>1. CASE val'[t][k] \in {db[k], cache[k]} \cap Nat
    BY <2>1, FetchAssumption DEF WasRead, Was, TypeOK
  <2> QED
    BY <1>2, <2>1 DEF WasRead
<1>3. \A k \in Keys : cache[k] # NoValue => Was(k, cache[k])
  BY DEF WasRead
<1>4. \A w \in through : Was(w[1], w[2])
  BY DEF WasRead
<1> QED
  BY <1>1, <1>2, <1>3, <1>4 DEF WasRead, Was

\* Every task's step keeps WasRead.
LEMMA TaskReads ==
  ASSUME TypeOK, WasRead, NEW t \in Tasks, TaskStep(t)
  PROVE  WasRead'
<1> USE DEF Holds
<1>1. CASE Lookup(t)
  <2>1. PICK hits \in SUBSET {k \in With(t, "miss") : cache[k] # NoValue} :
          /\ st' = [st EXCEPT ![t] = [k \in Keys |-> IF k \in hits THEN "have" ELSE @[k]]]
          /\ val' = [val EXCEPT ![t] = [k \in Keys |->
                                          IF k \in hits THEN cache[k] ELSE @[k]]]
          /\ Goto(t, IF hits = With(t, "miss") THEN "idle" ELSE "join")
    BY <1>1 DEF Lookup
  <2>2. UNCHANGED <<db, cache, through>>
    BY <1>1 DEF Lookup
  <2>3. \A u \in Tasks, l \in Keys : Holds(u, l)' =>
          \/ Holds(u, l) /\ val'[u][l] = val[u][l]
          \/ val'[u][l] \in {db[l], cache[l]} \cap Nat
    BY <2>1 DEF TypeOK, Goto, With
  <2> QED
    BY <2>2, <2>3, ValueStep
<1>2. CASE Fetch(t)
  <2>1. UNCHANGED <<db, cache, through>>
    BY <1>2 DEF Fetch
  <2>2. \A u \in Tasks, l \in Keys : Holds(u, l)' =>
          \/ Holds(u, l) /\ val'[u][l] = val[u][l]
          \/ val'[u][l] \in {db[l], cache[l]} \cap Nat
    BY <1>2 DEF Fetch, TypeOK, Goto, With
  <2> QED
    BY <2>1, <2>2, ValueStep
<1>3. CASE FetchFails(t)
  <2> DEFINE K == With(t, "lead")
  <2>1. K \in SUBSET Keys
    BY DEF With
  <2>2. \A u \in Tasks, l \in Keys :
          st'[u][l] = IF u = t THEN "none" ELSE Shut(st, t, K)[u][l]
    BY <1>3, <2>1, ChannelTypes DEF FetchFails, Fresh
  <2>3. /\ UNCHANGED <<db, cache, through, val>>
        /\ \A u \in Tasks : u # t => pc'[u] = pc[u]
    BY <1>3 DEF FetchFails, Goto, TypeOK
  <2> QED
    BY <2>1, <2>2, <2>3, ShutEffect, ValueStep
<1>4. CASE CacheWrite(t)
  <2> DEFINE K == With(t, "own")
  <2>1. K \in SUBSET Keys
    BY DEF With
  <2>2. \A u \in Tasks, l \in Keys :
          st'[u][l] = IF u = t /\ l \in K THEN "have" ELSE Shut(st, t, K)[u][l]
    BY <1>4, <2>1, ChannelTypes DEF CacheWrite
  <2>3. /\ UNCHANGED <<db, through, val>>
        /\ pc'[t] # "publish"
        /\ \A u \in Tasks : u # t => pc'[u] = pc[u]
    BY <1>4 DEF CacheWrite, Goto, TypeOK
  <2>4. \A u \in Tasks, l \in Keys : Holds(u, l)' => Holds(u, l)
    <3> SUFFICES ASSUME NEW u \in Tasks, NEW l \in Keys, Holds(u, l)'
                 PROVE  Holds(u, l)
      OBVIOUS
    <3>1. CASE u = t /\ l \in K
      BY <3>1 DEF With
    <3>2. CASE ~(u = t /\ l \in K)
      <4>1. st'[u][l] = Shut(st, t, K)[u][l]
        BY <2>2, <3>2
      <4>2. st'[u][l] = st[u][l] \/ st'[u][l] = "shut"
        BY <2>1, <4>1, ShutEffect
      <4> QED
        BY <2>3, <4>2
    <3> QED
      BY <3>1, <3>2
  <2>5. \A l \in Keys : cache'[l] = cache[l] \/ (Holds(t, l) /\ cache'[l] = val[t][l])
    BY <1>4 DEF CacheWrite, With
  <2> QED
    BY <2>3, <2>4, <2>5 DEF WasRead, Was
<1>5. ASSUME NEW k \in Keys, Join(t, k)
      PROVE  WasRead'
  <2>1. UNCHANGED <<db, cache, through, val>>
    BY <1>5 DEF Join
  <2>2. /\ \A u \in Tasks, l \in Keys :
             st'[u][l] = st[u][l] \/ (u = t /\ st'[u][l] \in {"lead", "wait"})
        /\ pc'[t] # "publish" /\ \A u \in Tasks : u # t => pc'[u] = pc[u]
    BY <1>5 DEF Join, TypeOK, Goto
  <2> QED
    BY <2>1, <2>2, ValueStep
<1>6. ASSUME NEW k \in Keys, SendCount(t, k) \/ PublishBatch(t, k)
      PROVE  WasRead'
  <2>1. /\ UNCHANGED <<db, cache, through>>
        /\ val' = TellValue(t, k)
        /\ \A u \in Tasks : pc'[u] = pc[u] \/ pc'[u] # "publish"
        /\ Holds(t, k)
    BY <1>6 DEF SendCount, PublishBatch, Goto, TypeOK
  <2>2. \A u \in Tasks, l \in Keys :
          st'[u][l] = Tell(st, t, k)[u][l] \/ (u = t /\ l = k)
    BY <1>6, ChannelTypes DEF SendCount, PublishBatch
  <2>3. st[t][k] = "lead"
    BY <1>6 DEF SendCount, PublishBatch
  <2>4. \A u \in Tasks, l \in Keys : Holds(u, l)' =>
          \/ Holds(u, l) /\ val'[u][l] = val[u][l]
          \/ Holds(t, l) /\ val'[u][l] = val[t][l]
    <3> SUFFICES ASSUME NEW u \in Tasks, NEW l \in Keys, Holds(u, l)'
                 PROVE  \/ Holds(u, l) /\ val'[u][l] = val[u][l]
                        \/ Holds(t, l) /\ val'[u][l] = val[t][l]
      OBVIOUS
    <3>1. CASE l = k /\ st[u][k] = "wait" /\ chan[u][k] = t
      BY <2>1, <3>1, TellEffect
    <3>2. CASE u = t /\ l = k
      BY <2>1, <2>3, <3>2, TellEffect
    <3>3. CASE ~(l = k /\ st[u][k] = "wait" /\ chan[u][k] = t) /\ ~(u = t /\ l = k)
      BY <2>1, <2>2, <3>3, TellEffect
    <3> QED
      BY <3>1, <3>2, <3>3
  <2> QED
    BY <2>1, <2>4, ValueStep
<1>7. ASSUME NEW k \in Keys, \/ RemoveEntry(t, k) \/ Receive(t, k) \/ GiveUp(t, k)
                             \/ BackfillFails(t, k)
      PROVE  WasRead'
  <2>1. UNCHANGED <<db, cache, through, val>>
    BY <1>7 DEF RemoveEntry, Receive, GiveUp, BackfillFails
  <2>2. \A u \in Tasks, l \in Keys : Holds(u, l)' => Holds(u, l)
    <3>1. CASE RemoveEntry(t, k)
      BY <3>1 DEF RemoveEntry, TypeOK, Goto
    <3>2. CASE Receive(t, k)
      BY <3>2 DEF Receive, TypeOK, Goto
    <3>3. CASE GiveUp(t, k)
      BY <3>3 DEF GiveUp, TypeOK
    <3>4. CASE BackfillFails(t, k)
      BY <3>4 DEF BackfillFails, Fresh, TypeOK, Goto
    <3> QED
      BY <1>7, <3>1, <3>2, <3>3, <3>4
  <2> QED
    BY <2>1, <2>2, ValueStep
<1>8. ASSUME NEW k \in Keys, Backfill(t, k)
      PROVE  WasRead'
  <2>1. UNCHANGED <<db, cache, through>>
    BY <1>8 DEF Backfill
  <2>2. \A u \in Tasks, l \in Keys : Holds(u, l)' =>
          \/ Holds(u, l) /\ val'[u][l] = val[u][l]
          \/ val'[u][l] \in {db[l], cache[l]} \cap Nat
    BY <1>8 DEF Backfill, TypeOK, Goto
  <2> QED
    BY <2>1, <2>2, ValueStep
<1> QED
  BY <1>1, <1>2, <1>3, <1>4, <1>5, <1>6, <1>7, <1>8 DEF TaskStep

\* So does every other step: the row of a key only gets newer.
LEMMA ReadStep ==
  ASSUME TypeOK, WasRead, [Next]_vars
  PROVE  WasRead'
<1> USE DEF Holds
<1>1. ASSUME NEW t \in Tasks, NEW K \in SUBSET Keys, NEW b \in BOOLEAN, Request(t, K, b)
      PROVE  WasRead'
  <2>1. UNCHANGED <<db, cache, through>>
    BY <1>1 DEF Request
  <2>2. \A u \in Tasks, l \in Keys : Holds(u, l)' => Holds(u, l) /\ val'[u][l] = val[u][l]
    BY <1>1 DEF Request, Fresh, TypeOK, Goto
  <2> QED
    BY <2>1, <2>2, ValueStep
<1>2. ASSUME NEW t \in Tasks, Cancel(t)
      PROVE  WasRead'
  <2> DEFINE K == With(t, "own")
  <2>1. K \in SUBSET Keys
    BY DEF With
  <2>2. \A u \in Tasks, l \in Keys :
          st'[u][l] = IF u = t THEN "none" ELSE Shut(st, t, K)[u][l]
    BY <1>2, <2>1, ChannelTypes DEF Cancel, Fresh
  <2>3. /\ UNCHANGED <<db, cache, through, val>>
        /\ \A u \in Tasks : u # t => pc'[u] = pc[u]
    BY <1>2 DEF Cancel, Goto, TypeOK
  <2> QED
    BY <2>1, <2>2, <2>3, ShutEffect, ValueStep
<1>3. ASSUME NEW k \in Keys, Expire(k)
      PROVE  WasRead'
  <2>1. \A l \in Keys : cache'[l] \in {cache[l], NoValue}
    BY <1>3 DEF Expire, TypeOK
  <2> QED
    BY <1>3, <2>1 DEF Expire, taskVars, WasRead, Was
<1>4. ASSUME NEW k \in Keys, NEW v \in 0 .. MaxVersion, Mutate(k, v)
      PROVE  WasRead'
  <2>1. \A l \in Keys : db[l] \in Nat /\ db'[l] \in Nat /\ db[l] <= db'[l]
    BY <1>4, FetchAssumption DEF Mutate, TypeOK
  <2>2. \A l \in Keys : \A x : Was(l, x) => x \in 0 .. db'[l]
    BY <2>1 DEF Was
  <2>3. v \in 0 .. db'[k]
    BY <1>4, <2>1, FetchAssumption DEF Mutate, TypeOK
  <2>4. \A w \in through' : w[2] \in 0 .. db'[w[1]]
    <3> SUFFICES ASSUME NEW w \in through' PROVE w[2] \in 0 .. db'[w[1]]
      OBVIOUS
    <3>1. CASE w \in through
      BY <3>1, <2>2 DEF WasRead, TypeOK
    <3>2. CASE w = <<k, v>>
      BY <3>2, <2>3
    <3> QED
      BY <1>4, <3>1, <3>2 DEF Mutate
  <2>5. UNCHANGED <<cache, taskVars>>
    BY <1>4 DEF Mutate
  <2>6. \A l \in Keys : cache'[l] # NoValue => cache'[l] \in 0 .. db'[l]
    BY <2>2, <2>5 DEF WasRead
  <2>7. \A u \in Tasks, l \in Keys : Holds(u, l)' => val'[u][l] \in 0 .. db'[l]
    BY <2>2, <2>5 DEF WasRead, taskVars
  <2> QED
    BY <2>4, <2>6, <2>7 DEF WasRead, Was
<1>5. ASSUME NEW w \in through, WriteThrough(w)
      PROVE  WasRead'
  <2>1. \A l \in Keys : cache'[l] = cache[l] \/ (l = w[1] /\ cache'[l] = w[2])
    BY <1>5 DEF WriteThrough, TypeOK
  <2>2. UNCHANGED <<db, taskVars>> /\ through' \subseteq through
    BY <1>5 DEF WriteThrough
  <2> QED
    BY <2>1, <2>2 DEF WasRead, Was, taskVars
<1>6. CASE UNCHANGED vars
  BY <1>6 DEF vars, WasRead, Was
<1> QED
  BY <1>1, <1>2, <1>3, <1>4, <1>5, <1>6, TaskReads DEF Next

(* A single read is about one key.                                         *)
OneKey ==
  \A t \in Tasks : ~batch[t] =>
    \A k, l \in Keys : st[t][k] # "none" /\ st[t][l] # "none" => k = l

(* A task that has returned owes nothing; one that has not looked into the *)
(* cache yet has not done anything about a key.                            *)
Settled ==
  \A t \in Tasks, k \in Keys :
    /\ pc[t] = "idle" => st[t][k] \in {"none", "have"}
    /\ pc[t] = "lookup" => st[t][k] \in {"none", "miss"}

\* A step of t, which others notice only if they wait, keeps both if t does not
\* return before it is through with its keys.
LEMMA SettleStep ==
  ASSUME Settled, OneKey, NEW t \in Tasks,
         \A u \in Tasks, l \in Keys : u # t =>
           /\ pc'[u] = pc[u] /\ batch'[u] = batch[u]
           /\ st'[u][l] = st[u][l] \/ (st[u][l] = "wait" /\ st'[u][l] # "none"),
         batch'[t] = batch[t], pc'[t] # "lookup",
         \A l \in Keys : st'[t][l] # "none" => st[t][l] # "none",
         \A l \in Keys : pc'[t] = "idle" => st'[t][l] \in {"none", "have"}
  PROVE  Settled' /\ OneKey'
<1>1. ASSUME NEW u \in Tasks, NEW l \in Keys
      PROVE  /\ pc'[u] = "idle" => st'[u][l] \in {"none", "have"}
             /\ pc'[u] = "lookup" => st'[u][l] \in {"none", "miss"}
  <2>1. CASE u = t
    BY <2>1
  <2>2. CASE u # t
    BY <2>2 DEF Settled
  <2> QED
    BY <2>1, <2>2
<1>2. ASSUME NEW u \in Tasks, NEW l \in Keys
      PROVE  batch'[u] = batch[u] /\ (st'[u][l] # "none" => st[u][l] # "none")
  OBVIOUS
<1> QED
  BY <1>1, <1>2 DEF Settled, OneKey

\* Every step keeps both.
LEMMA SettledStep ==
  ASSUME TypeOK, Settled, OneKey, [Next]_vars
  PROVE  Settled' /\ OneKey'
<1>1. ASSUME NEW t \in Tasks, NEW K \in SUBSET Keys, NEW b \in BOOLEAN, Request(t, K, b)
      PROVE  Settled' /\ OneKey'
  <2>1. \A u \in Tasks : u # t =>
          pc'[u] = pc[u] /\ batch'[u] = batch[u] /\ st'[u] = st[u]
    BY <1>1 DEF Request, Goto, TypeOK
  <2>2. /\ pc'[t] = "lookup" /\ batch'[t] = b
        /\ \A l \in Keys : st'[t][l] = IF l \in K THEN "miss" ELSE "none"
    BY <1>1 DEF Request, Goto, TypeOK
  <2>3. ~b => \E x : K = {x}
    BY <1>1, FetchAssumption, FS_Subset, FS_Singleton DEF Request
  <2>4. Settled'
    BY <2>1, <2>2 DEF Settled
  <2>5. OneKey'
    BY <2>1, <2>2, <2>3 DEF OneKey
  <2> QED
    BY <2>4, <2>5
<1>2. ASSUME NEW t \in Tasks, Cancel(t) \/ FetchFails(t)
      PROVE  Settled' /\ OneKey'
  <2>1. PICK K \in SUBSET Keys : st' = Fresh(Shut(st, t, K), t, "none")
    BY <1>2 DEF Cancel, FetchFails, With
  <2>2. \A u \in Tasks, l \in Keys :
          st'[u][l] = IF u = t THEN "none" ELSE Shut(st, t, K)[u][l]
    BY <2>1, ChannelTypes DEF Fresh
  <2>3. /\ pc'[t] = "idle" /\ batch' = batch
        /\ \A u \in Tasks : u # t => pc'[u] = pc[u]
    BY <1>2 DEF Cancel, FetchFails, Goto, TypeOK
  <2> QED
    BY <2>2, <2>3, ShutEffect, SettleStep
<1>3. ASSUME NEW t \in Tasks, Lookup(t) \/ Fetch(t)
      PROVE  Settled' /\ OneKey'
  <2>1. batch' = batch /\ \A u \in Tasks : u # t => pc'[u] = pc[u] /\ st'[u] = st[u]
    BY <1>3 DEF Lookup, Fetch, Goto, TypeOK
  <2>2. CASE Lookup(t)
    <3>1. PICK hits \in SUBSET With(t, "miss") :
            /\ \A l \in Keys : st'[t][l] = IF l \in hits THEN "have" ELSE st[t][l]
            /\ pc'[t] = IF hits = With(t, "miss") THEN "idle" ELSE "join"
      <4>1. PICK hits \in SUBSET {k \in With(t, "miss") : cache[k] # NoValue} :
              /\ st' = [st EXCEPT ![t] = [k \in Keys |-> IF k \in hits THEN "have" ELSE @[k]]]
              /\ Goto(t, IF hits = With(t, "miss") THEN "idle" ELSE "join")
        BY <2>2 DEF Lookup
      <4>2. hits \in SUBSET With(t, "miss")
        BY <4>1
      <4>3. \A l \in Keys : st'[t][l] = IF l \in hits THEN "have" ELSE st[t][l]
        BY <4>1 DEF TypeOK
      <4>4. pc'[t] = IF hits = With(t, "miss") THEN "idle" ELSE "join"
        BY <4>1 DEF Goto, TypeOK
      <4> QED
        BY <4>2, <4>3, <4>4
    <3>2. \A l \in Keys : st[t][l] \in {"none", "miss"}
      BY <2>2 DEF Lookup, Settled
    <3> QED
      BY <2>1, <3>1, <3>2, SettleStep DEF With
  <2>3. CASE Fetch(t)
    <3>1. st' = st /\ pc'[t] = "publish"
      BY <2>3 DEF Fetch, Goto, TypeOK
    <3> QED
      BY <2>1, <3>1, SettleStep
  <2> QED
    BY <1>3, <2>2, <2>3
<1>4. ASSUME NEW t \in Tasks, CacheWrite(t)
      PROVE  Settled' /\ OneKey'
  <2> DEFINE K == With(t, "own")
  <2>1. K \in SUBSET Keys
    BY DEF With
  <2>2. \A u \in Tasks, l \in Keys :
          st'[u][l] = IF u = t /\ l \in K THEN "have" ELSE Shut(st, t, K)[u][l]
    BY <1>4, <2>1, ChannelTypes DEF CacheWrite
  <2>3. /\ batch' = batch /\ \A u \in Tasks : u # t => pc'[u] = pc[u]
        /\ pc'[t] = IF \A l \in Keys : st'[t][l] \in {"none", "have"}
                      THEN "idle" ELSE "await"
    BY <1>4 DEF CacheWrite, Goto, TypeOK
  <2>4. \A l \in Keys : st'[t][l] # "none" => st[t][l] # "none"
    <3> SUFFICES ASSUME NEW l \in Keys, st'[t][l] # "none"
                 PROVE  st[t][l] # "none"
      OBVIOUS
    <3>1. CASE l \in K
      BY <3>1 DEF With
    <3>2. CASE l \notin K
      <4>1. st'[t][l] = Shut(st, t, K)[t][l]
        BY <2>2, <3>2
      <4>2. st'[t][l] = st[t][l] \/ st[t][l] = "wait"
        BY <2>1, <4>1, ShutEffect
      <4> QED
        BY <4>2
    <3> QED
      BY <3>1, <3>2
  <2>5. \A u \in Tasks, l \in Keys : u # t =>
          st'[u][l] = st[u][l] \/ (st[u][l] = "wait" /\ st'[u][l] # "none")
    BY <2>1, <2>2, ShutEffect
  <2>6. pc'[t] = "idle" => \A l \in Keys : st'[t][l] \in {"none", "have"}
    BY <2>3
  <2> HIDE DEF K
  <2> QED
    BY <2>3, <2>4, <2>5, <2>6, SettleStep
<1>5. ASSUME NEW t \in Tasks, NEW k \in Keys, SendCount(t, k) \/ PublishBatch(t, k)
      PROVE  Settled' /\ OneKey'
  <2>1. /\ batch' = batch /\ pc'[t] \notin {"idle", "lookup"} /\ st[t][k] = "lead"
        /\ \A u \in Tasks : u # t => pc'[u] = pc[u]
    BY <1>5 DEF SendCount, PublishBatch, Goto, TypeOK
  <2>2. \A u \in Tasks, l \in Keys :
          st'[u][l] = Tell(st, t, k)[u][l] \/ (u = t /\ l = k)
    BY <1>5, ChannelTypes DEF SendCount, PublishBatch
  <2>3. \A l \in Keys : st'[t][l] # "none" => st[t][l] # "none"
    BY <2>1, <2>2, TellEffect
  <2>4. \A u \in Tasks, l \in Keys : u # t =>
          st'[u][l] = st[u][l] \/ (st[u][l] = "wait" /\ st'[u][l] # "none")
    BY <2>2, TellEffect
  <2> QED
    BY <2>1, <2>3, <2>4, SettleStep
<1>6. ASSUME NEW t \in Tasks, NEW k \in Keys,
             \/ Join(t, k) \/ RemoveEntry(t, k) \/ GiveUp(t, k) \/ Receive(t, k)
             \/ Backfill(t, k) \/ BackfillFails(t, k)
      PROVE  Settled' /\ OneKey'
  <2>1. /\ batch' = batch /\ st[t][k] # "none"
        /\ \A u \in Tasks : u # t => pc'[u] = pc[u] /\ st'[u] = st[u]
    BY <1>6 DEF Join, RemoveEntry, GiveUp, Receive, Backfill, BackfillFails, Goto, Fresh,
       TypeOK
  <2>2. pc'[t] # "lookup"
    BY <1>6 DEF Join, RemoveEntry, GiveUp, Receive, Backfill, BackfillFails, Goto, TypeOK
  <2>3. \A l \in Keys : st'[t][l] # "none" => st[t][l] # "none"
    BY <1>6 DEF Join, RemoveEntry, GiveUp, Receive, Backfill, BackfillFails, Fresh, TypeOK
  <2>4. ASSUME NEW l \in Keys, pc'[t] = "idle"
        PROVE  st'[t][l] \in {"none", "have"}
    <3>1. CASE Join(t, k) \/ RemoveEntry(t, k) \/ GiveUp(t, k)
      BY <2>4, <3>1 DEF Join, RemoveEntry, GiveUp, Goto, TypeOK
    <3>2. CASE Receive(t, k)
      BY <2>4, <3>2 DEF Receive, Unanswered, Goto, TypeOK
    <3>3. CASE Backfill(t, k)
      <4>1. ~batch[t] /\ st[t][k] # "none"
        BY <2>4, <3>3 DEF Backfill, Goto, TypeOK
      <4>2. l # k => st[t][l] = "none"
        BY <4>1 DEF OneKey
      <4> QED
        BY <3>3, <4>1, <4>2 DEF Backfill, TypeOK
    <3>4. CASE BackfillFails(t, k)
      BY <3>4 DEF BackfillFails, Fresh, TypeOK
    <3> QED
      BY <1>6, <3>1, <3>2, <3>3, <3>4
  <2> QED
    BY <2>1, <2>2, <2>3, <2>4, SettleStep
<1>7. CASE UNCHANGED taskVars
  BY <1>7 DEF taskVars, Settled, OneKey
<1>8. \/ UNCHANGED taskVars
      \/ \E t \in Tasks : \/ \E K \in SUBSET Keys, b \in BOOLEAN : Request(t, K, b)
                          \/ TaskStep(t) \/ Cancel(t)
  BY DEF Next, vars, taskVars, Expire, Mutate, WriteThrough
<1> QED
  BY <1>1, <1>2, <1>3, <1>4, <1>5, <1>6, <1>7, <1>8 DEF TaskStep

\* An answered key carries a version that was really read, for single reads and
\* batches, leaders and followers, with timeouts and dropped tasks; and no key
\* that was asked for is left without an answer when its task returns.
THEOREM AnswersWereRead == Spec => []AnswersAreCounts
<1> DEFINE Inv == TypeOK /\ WasRead /\ Settled /\ OneKey
<1>1. Init => Inv
  BY DEF Init, TypeOK, PC, Status, WasRead, Was, Holds, Settled, OneKey
<1>2. Inv /\ [Next]_vars => Inv'
  BY TypeStep, ReadStep, SettledStep
<1>3. Inv => AnswersAreCounts
  BY DEF WasRead, Was, Holds, Settled, AnswersAreCounts
<1> QED
  BY <1>1, <1>2, <1>3, PTL DEF Spec

-----------------------------------------------------------------------------
(* Wake-ups, while no future is dropped.                                   *)

(* A leader is where it leads: it has not returned with its entry or its   *)
(* sender left behind.                                                     *)
AtWork ==
  \A t \in Tasks, k \in Keys :
    /\ st[t][k] = "lead" => pc[t] \in {"join", "fetch", "publish"}
    /\ st[t][k] = "sent" => pc[t] = "publish" /\ ~batch[t]
    /\ st[t][k] = "own" => pc[t] \in {"publish", "write"}

FetchInv == TypeOK /\ AtWork /\ OneKey /\ EntryHasLeader /\ WaitersHaveSender

(* Whether t has a sender of its channel for k to use or to drop.          *)
HasSender(t, k) ==
  st[t][k] \in {"lead", "sent"} \/ (st[t][k] = "own" /\ ~batch[t])

\* A step keeps the promise to those who wait if it takes nobody's sender away
\* without telling them, and whoever starts to wait does so on an entry.
LEMMA WaitStep ==
  ASSUME FetchInv, TypeOK',
         \A f \in Tasks, k \in Keys : st'[f][k] = "wait" =>
           \/ st[f][k] = "wait" /\ chan'[f][k] = chan[f][k]
           \/ pending[k] # NoOne /\ chan'[f][k] = pending[k],
         \A t \in Tasks, k \in Keys : HasSender(t, k) =>
           \/ HasSender(t, k)'
           \/ \A f \in Tasks : st'[f][k] = "wait" => chan'[f][k] # t
  PROVE  WaitersHaveSender'
<1> SUFFICES ASSUME NEW f \in Tasks, NEW k \in Keys, st'[f][k] = "wait"
             PROVE  chan'[f][k] # NoOne /\ HasSender(chan[f][k], k)'
  BY DEF WaitersHaveSender, HasSender
<1>1. chan'[f][k] \in Tasks /\ HasSender(chan'[f][k], k)
  <2>1. CASE st[f][k] = "wait" /\ chan'[f][k] = chan[f][k]
    BY <2>1 DEF FetchInv, WaitersHaveSender, HasSender, TypeOK
  <2>2. CASE pending[k] # NoOne /\ chan'[f][k] = pending[k]
    BY <2>2 DEF FetchInv, EntryHasLeader, HasSender, TypeOK
  <2> QED
    BY <2>1, <2>2
<1>2. PICK t \in Tasks : t = chan'[f][k]
  BY <1>1
<1>3. HasSender(t, k)'
  BY <1>1, <1>2
<1> QED
  BY <1>2, <1>3, FetchAssumption DEF HasSender

\* A step that only moves a task between statuses that have no channel keeps
\* the invariant: nobody's leader changes.
LEMMA QuietStep ==
  ASSUME FetchInv, TypeOK', UNCHANGED <<pending, batch, chan>>, NEW t \in Tasks,
         \A u \in Tasks : u # t => pc'[u] = pc[u] /\ st'[u] = st[u],
         \A k \in Keys : st[t][k] \in {"none", "miss", "wait", "told", "shut", "have"},
         \A k \in Keys : st[t][k] = "none" => st'[t][k] = "none",
         \A k \in Keys : /\ st'[t][k] \in Status \ {"lead", "sent"}
                         /\ st'[t][k] = "wait" => st[t][k] = "wait"
                         /\ st'[t][k] = "own" => pc'[t] = "write"
  PROVE  FetchInv'
<1>1. AtWork'
  BY DEF FetchInv, AtWork
<1>2. OneKey'
  BY DEF FetchInv, OneKey
<1>3. EntryHasLeader'
  <2> SUFFICES ASSUME NEW k \in Keys, pending[k] # NoOne
               PROVE  st'[pending[k]][k] \in {"lead", "sent"}
    BY DEF EntryHasLeader
  <2>1. pending[k] \in Tasks /\ st[pending[k]][k] \in {"lead", "sent"}
    BY DEF FetchInv, EntryHasLeader, TypeOK
  <2>2. pending[k] # t
    BY <2>1
  <2> QED
    BY <2>1, <2>2
<1>4. WaitersHaveSender'
  <2>1. \A f \in Tasks, k \in Keys : st'[f][k] = "wait" =>
          st[f][k] = "wait" /\ chan'[f][k] = chan[f][k]
    OBVIOUS
  <2>2. \A u \in Tasks, k \in Keys : HasSender(u, k) => HasSender(u, k)'
    <3> SUFFICES ASSUME NEW u \in Tasks, NEW k \in Keys, HasSender(u, k)
                 PROVE  HasSender(u, k)'
      OBVIOUS
    <3>1. u # t
      BY DEF HasSender
    <3> QED
      BY <3>1 DEF HasSender
  <2> QED
    BY <2>1, <2>2, WaitStep
<1> QED
  BY <1>1, <1>2, <1>3, <1>4 DEF FetchInv

\* Looking up, receiving, giving up and falling back are such steps.
LEMMA FollowerStep ==
  ASSUME FetchInv, TypeOK', NEW t \in Tasks,
         \/ Lookup(t)
         \/ \E k \in Keys : \/ Receive(t, k) \/ GiveUp(t, k)
                            \/ Backfill(t, k) \/ BackfillFails(t, k)
  PROVE  FetchInv'
<1>1. pc[t] \in {"lookup", "await"} /\ UNCHANGED <<pending, batch, chan>>
  BY DEF Lookup, Receive, GiveUp, Backfill, BackfillFails
<1>2. \A k \in Keys : st[t][k] \in {"none", "miss", "wait", "told", "shut", "have"}
  <2>1. \A k \in Keys : st[t][k] \in Status
    BY DEF FetchInv, TypeOK
  <2>2. \A k \in Keys : st[t][k] \notin {"lead", "sent", "own"}
    BY <1>1 DEF FetchInv, AtWork
  <2> QED
    BY <2>1, <2>2 DEF Status
<1>3. \A u \in Tasks : u # t => pc'[u] = pc[u] /\ st'[u] = st[u]
  BY DEF Lookup, Receive, GiveUp, Backfill, BackfillFails, Fresh, Goto, FetchInv, TypeOK
<1>4. \A k \in Keys : \/ st'[t][k] = st[t][k]
                      \/ st[t][k] # "none" /\ st'[t][k] \in {"have", "shut"}
                      \/ st[t][k] # "none" /\ st'[t][k] = "own" /\ pc'[t] = "write"
                      \/ st'[t][k] = "none"
  <2>1. CASE Lookup(t)
    BY <2>1 DEF Lookup, With, FetchInv, TypeOK
  <2>2. ASSUME NEW k \in Keys, Receive(t, k) \/ GiveUp(t, k)
        PROVE  \A l \in Keys : \/ st'[t][l] = st[t][l]
                               \/ st[t][l] # "none" /\ st'[t][l] \in {"have", "shut"}
    BY <2>2 DEF Receive, GiveUp, FetchInv, TypeOK
  <2>3. ASSUME NEW k \in Keys, Backfill(t, k)
        PROVE  \A l \in Keys :
                 \/ st'[t][l] = st[t][l]
                 \/ st[t][l] # "none" /\ st'[t][l] = "have"
                 \/ st[t][l] # "none" /\ st'[t][l] = "own" /\ pc'[t] = "write"
    BY <2>3 DEF Backfill, Goto, FetchInv, TypeOK
  <2>4. ASSUME NEW k \in Keys, BackfillFails(t, k)
        PROVE  \A l \in Keys : st'[t][l] = "none"
    BY <2>4 DEF BackfillFails, Fresh, FetchInv, TypeOK
  <2> QED
    BY <2>1, <2>2, <2>3, <2>4
<1>5. \A k \in Keys : st[t][k] = "none" => st'[t][k] = "none"
  BY <1>4
<1>6. \A k \in Keys : /\ st'[t][k] \in Status \ {"lead", "sent"}
                      /\ st'[t][k] = "wait" => st[t][k] = "wait"
                      /\ st'[t][k] = "own" => pc'[t] = "write"
  BY <1>2, <1>4 DEF Status
<1> QED
  BY <1>1, <1>2, <1>3, <1>5, <1>6, QuietStep

\* A new request finds its task with no sender and no entry.
LEMMA RequestStep ==
  ASSUME FetchInv, TypeOK', NEW t \in Tasks, NEW K \in SUBSET Keys, NEW b \in BOOLEAN,
         Request(t, K, b)
  PROVE  FetchInv'
<1>1. /\ pc[t] = "idle" /\ UNCHANGED pending
      /\ ~b => Cardinality(K) = 1
      /\ \A u \in Tasks : u # t => /\ pc'[u] = pc[u] /\ st'[u] = st[u]
                                   /\ batch'[u] = batch[u] /\ chan'[u] = chan[u]
      /\ batch'[t] = b
      /\ \A k \in Keys : st'[t][k] = IF k \in K THEN "miss" ELSE "none"
  BY DEF Request, Goto, Fresh, FetchInv, TypeOK
<1>2. \A k \in Keys : st[t][k] \notin {"lead", "sent", "own"}
  BY <1>1 DEF FetchInv, AtWork
<1>3. AtWork'
  BY <1>1 DEF FetchInv, AtWork
<1>4. OneKey'
  <2>1. IsFiniteSet(K)
    BY FetchAssumption, FS_Subset
  <2>2. ~b => \A k, l \in K : k = l
    BY <1>1, <2>1, FS_Singleton
  <2> QED
    BY <1>1, <2>2 DEF FetchInv, OneKey
<1>5. EntryHasLeader'
  <2> SUFFICES ASSUME NEW k \in Keys, pending[k] # NoOne
               PROVE  st'[pending[k]][k] \in {"lead", "sent"}
    BY <1>1 DEF EntryHasLeader
  <2>1. pending[k] \in Tasks /\ st[pending[k]][k] \in {"lead", "sent"}
    BY DEF FetchInv, EntryHasLeader, TypeOK
  <2> QED
    BY <1>1, <1>2, <2>1
<1>6. WaitersHaveSender'
  <2>1. \A f \in Tasks, k \in Keys : st'[f][k] = "wait" =>
          st[f][k] = "wait" /\ chan'[f][k] = chan[f][k]
    BY <1>1
  <2>2. \A u \in Tasks, k \in Keys : HasSender(u, k) => HasSender(u, k)'
    BY <1>1, <1>2 DEF HasSender
  <2> QED
    BY <2>1, <2>2, WaitStep
<1> QED
  BY <1>3, <1>4, <1>5, <1>6 DEF FetchInv

\* A task leads a key without an entry, or follows the leader of the entry.
LEMMA JoinStep ==
  ASSUME FetchInv, TypeOK', NEW t \in Tasks, NEW k \in Keys, Join(t, k)
  PROVE  FetchInv'
<1> DEFINE leads == pending[k] = NoOne
<1>1. /\ pc[t] = "join" /\ st[t][k] = "miss" /\ batch' = batch
      /\ \A u \in Tasks, l \in Keys :
           st'[u][l] = IF u = t /\ l = k THEN (IF leads THEN "lead" ELSE "wait")
                       ELSE st[u][l]
      /\ \A u \in Tasks : u # t => pc'[u] = pc[u]
  BY DEF Join, Goto, FetchInv, TypeOK
<1>2. pc'[t] = "join" \/ pc'[t] = "fetch" \/ (\A l \in Keys : st'[t][l] # "lead")
  <2>1. pc'[t] = IF With(t, "miss") # {k} THEN "join"
                 ELSE IF leads \/ With(t, "lead") # {} THEN "fetch" ELSE "await"
    BY DEF Join, Goto, FetchInv, TypeOK
  <2> QED
    BY <1>1, <2>1 DEF With
<1>3. leads => /\ chan' = chan
               /\ \A l \in Keys : pending'[l] = IF l = k THEN t ELSE pending[l]
  BY DEF Join, FetchInv, TypeOK
<1>4. ~leads => /\ pending' = pending
                /\ \A u \in Tasks, l \in Keys :
                     chan'[u][l] = IF u = t /\ l = k THEN pending[k] ELSE chan[u][l]
  <2> SUFFICES ASSUME ~leads
               PROVE  /\ pending' = pending
                      /\ \A u \in Tasks, l \in Keys :
                           chan'[u][l] = IF u = t /\ l = k THEN pending[k]
                                         ELSE chan[u][l]
    OBVIOUS
  <2>1. pending' = pending /\ chan' = [chan EXCEPT ![t][k] = pending[k]]
    BY DEF Join
  <2> QED
    BY <2>1 DEF FetchInv, TypeOK
<1>5. AtWork'
  BY <1>1, <1>2 DEF FetchInv, AtWork
<1>6. OneKey'
  BY <1>1 DEF FetchInv, OneKey
<1>7. EntryHasLeader'
  <2> SUFFICES ASSUME NEW l \in Keys, pending'[l] # NoOne
               PROVE  st'[pending'[l]][l] \in {"lead", "sent"}
    BY DEF EntryHasLeader
  <2>1. CASE leads /\ l = k
    BY <1>1, <1>3, <2>1
  <2>2. CASE ~(leads /\ l = k)
    <3>1. pending'[l] = pending[l]
      BY <1>3, <1>4, <2>2
    <3>2. pending[l] \in Tasks /\ st[pending[l]][l] \in {"lead", "sent"}
      BY <3>1 DEF FetchInv, EntryHasLeader, TypeOK
    <3> QED
      BY <1>1, <3>1, <3>2
  <2> QED
    BY <2>1, <2>2
<1>8. WaitersHaveSender'
  <2>1. \A f \in Tasks, l \in Keys : st'[f][l] = "wait" =>
          \/ st[f][l] = "wait" /\ chan'[f][l] = chan[f][l]
          \/ pending[l] # NoOne /\ chan'[f][l] = pending[l]
    BY <1>1, <1>3, <1>4
  <2>2. \A u \in Tasks, l \in Keys : HasSender(u, l) => HasSender(u, l)'
    BY <1>1 DEF HasSender
  <2> QED
    BY <2>1, <2>2, WaitStep
<1> QED
  BY <1>5, <1>6, <1>7, <1>8 DEF FetchInv

\* A failed query takes the entries away and shuts their channels.
LEMMA FailStep ==
  ASSUME FetchInv, TypeOK', NEW t \in Tasks, FetchFails(t)
  PROVE  FetchInv'
<1> DEFINE K == With(t, "lead")
<1>1. K \in SUBSET Keys /\ \A k \in Keys : k \in K <=> st[t][k] = "lead"
  BY DEF With
<1>2. \A u \in Tasks, l \in Keys :
        st'[u][l] = IF u = t THEN "none" ELSE Shut(st, t, K)[u][l]
  BY <1>1, ChannelTypes DEF FetchFails, Fresh, FetchInv
<1>3. \A u \in Tasks, l \in Keys :
        st'[u][l] = IF u = t THEN "none"
                    ELSE IF l \in K /\ st[u][l] = "wait" /\ chan[u][l] = t THEN "shut"
                    ELSE st[u][l]
  BY <1>1, <1>2, ShutEffect DEF FetchInv
<1>4. /\ pc[t] = "fetch" /\ UNCHANGED <<batch, chan>>
      /\ \A u \in Tasks : u # t => pc'[u] = pc[u]
      /\ \A l \in Keys : pending'[l] = IF l \in K THEN NoOne ELSE pending[l]
  BY DEF FetchFails, Goto, FetchInv, TypeOK
<1>5. \A k \in Keys : st[t][k] \notin {"sent", "own"}
  BY <1>4 DEF FetchInv, AtWork
<1>6. AtWork'
  BY <1>3, <1>4 DEF FetchInv, AtWork
<1>7. OneKey'
  BY <1>3, <1>4 DEF FetchInv, OneKey
<1>8. EntryHasLeader'
  <2> SUFFICES ASSUME NEW l \in Keys, pending'[l] # NoOne
               PROVE  st'[pending'[l]][l] \in {"lead", "sent"}
    BY DEF EntryHasLeader
  <2>1. l \notin K /\ pending'[l] = pending[l]
    BY <1>4
  <2>2. pending[l] \in Tasks /\ st[pending[l]][l] \in {"lead", "sent"}
    BY <2>1 DEF FetchInv, EntryHasLeader, TypeOK
  <2>3. pending[l] # t
    BY <1>1, <1>5, <2>1, <2>2
  <2> QED
    BY <1>3, <2>1, <2>2, <2>3
<1>9. WaitersHaveSender'
  <2>1. \A f \in Tasks, l \in Keys : st'[f][l] = "wait" =>
          st[f][l] = "wait" /\ chan'[f][l] = chan[f][l]
    BY <1>3, <1>4
  <2>2. \A u \in Tasks, l \in Keys : HasSender(u, l) =>
          \/ HasSender(u, l)'
          \/ \A f \in Tasks : st'[f][l] = "wait" => chan'[f][l] # u
    <3> SUFFICES ASSUME NEW u \in Tasks, NEW l \in Keys, HasSender(u, l)
                 PROVE  \/ HasSender(u, l)'
                        \/ \A f \in Tasks : st'[f][l] = "wait" => chan'[f][l] # u
      OBVIOUS
    <3>1. CASE u = t
      <4>1. l \in K
        BY <1>1, <1>5, <3>1 DEF HasSender
      <4> QED
        BY <1>3, <1>4, <3>1, <4>1
    <3>2. CASE u # t
      BY <1>3, <1>4, <3>2 DEF HasSender
    <3> QED
      BY <3>1, <3>2
  <2> QED
    BY <2>1, <2>2, WaitStep
<1> QED
  BY <1>6, <1>7, <1>8, <1>9 DEF FetchInv

\* The leader's cache write is followed by the end of its senders.
LEMMA WriteStep ==
  ASSUME FetchInv, TypeOK', NEW t \in Tasks, CacheWrite(t)
  PROVE  FetchInv'
<1> DEFINE K == With(t, "own")
<1>1. K \in SUBSET Keys /\ \A k \in Keys : k \in K <=> st[t][k] = "own"
  BY DEF With
<1>2. \A u \in Tasks, l \in Keys :
        st'[u][l] = IF u = t /\ l \in K THEN "have" ELSE Shut(st, t, K)[u][l]
  BY <1>1, ChannelTypes DEF CacheWrite, FetchInv
<1>3. \A u \in Tasks, l \in Keys :
        st'[u][l] = IF u = t /\ l \in K THEN "have"
                    ELSE IF l \in K /\ st[u][l] = "wait" /\ chan[u][l] = t THEN "shut"
                    ELSE st[u][l]
  BY <1>1, <1>2, ShutEffect DEF FetchInv
<1>4. /\ pc[t] = "write" /\ UNCHANGED <<batch, chan, pending>>
      /\ \A u \in Tasks : u # t => pc'[u] = pc[u]
  BY DEF CacheWrite, Goto, FetchInv, TypeOK
<1>5. \A k \in Keys : st[t][k] \notin {"lead", "sent"}
  BY <1>4 DEF FetchInv, AtWork
<1>6. AtWork'
  BY <1>1, <1>3, <1>4, <1>5 DEF FetchInv, AtWork
<1>7. OneKey'
  <2>1. \A u \in Tasks, l \in Keys : st'[u][l] # "none" => st[u][l] # "none"
    BY <1>1, <1>3
  <2> QED
    BY <1>4, <2>1 DEF FetchInv, OneKey
<1>8. EntryHasLeader'
  <2> SUFFICES ASSUME NEW l \in Keys, pending[l] # NoOne
               PROVE  st'[pending[l]][l] \in {"lead", "sent"}
    BY <1>4 DEF EntryHasLeader
  <2>1. pending[l] \in Tasks /\ st[pending[l]][l] \in {"lead", "sent"}
    BY DEF FetchInv, EntryHasLeader, TypeOK
  <2> QED
    BY <1>3, <1>5, <2>1
<1>9. WaitersHaveSender'
  <2>1. \A f \in Tasks, l \in Keys : st'[f][l] = "wait" =>
          st[f][l] = "wait" /\ chan'[f][l] = chan[f][l]
    BY <1>3, <1>4
  <2>2. \A u \in Tasks, l \in Keys : HasSender(u, l) =>
          \/ HasSender(u, l)'
          \/ \A f \in Tasks : st'[f][l] = "wait" => chan'[f][l] # u
    <3> SUFFICES ASSUME NEW u \in Tasks, NEW l \in Keys, HasSender(u, l)
                 PROVE  \/ HasSender(u, l)'
                        \/ \A f \in Tasks : st'[f][l] = "wait" => chan'[f][l] # u
      OBVIOUS
    <3>1. CASE u = t
      <4>1. l \in K
        BY <1>1, <1>5, <3>1 DEF HasSender
      <4> QED
        BY <1>3, <1>4, <3>1, <4>1
    <3>2. CASE u # t
      BY <1>3, <1>4, <3>2 DEF HasSender
    <3> QED
      BY <3>1, <3>2
  <2> QED
    BY <2>1, <2>2, WaitStep
<1> QED
  BY <1>6, <1>7, <1>8, <1>9 DEF FetchInv

\* A leader that has sent has told everybody who waited; a single read keeps
\* its sender for those who came between sending and removing.
LEMMA PublishStep ==
  ASSUME FetchInv, TypeOK', NEW t \in Tasks, NEW k \in Keys,
         SendCount(t, k) \/ PublishBatch(t, k)
  PROVE  FetchInv'
<1>1. /\ pc[t] = "publish" /\ st[t][k] = "lead" /\ UNCHANGED <<batch, chan>>
      /\ \A u \in Tasks : u # t => pc'[u] = pc[u]
  BY DEF SendCount, PublishBatch, Goto, FetchInv, TypeOK
<1>2. \A u \in Tasks, l \in Keys : u # t \/ l # k =>
        st'[u][l] = Tell(st, t, k)[u][l]
  BY ChannelTypes DEF SendCount, PublishBatch, FetchInv
<1>3. \A u \in Tasks, l \in Keys : u # t \/ l # k =>
        st'[u][l] = IF l = k /\ st[u][k] = "wait" /\ chan[u][k] = t THEN "told"
                    ELSE st[u][l]
  BY <1>2, TellEffect DEF FetchInv
<1>4. \/ st'[t][k] = "sent" /\ ~batch[t] /\ pc'[t] = "publish" /\ pending' = pending
      \/ /\ st'[t][k] = "own" /\ batch[t]
         /\ pc'[t] = IF With(t, "lead") = {k} THEN "write" ELSE "publish"
         /\ \A l \in Keys : pending'[l] = IF l = k THEN NoOne ELSE pending[l]
  <2>1. CASE SendCount(t, k)
    BY <2>1, ChannelTypes DEF SendCount, FetchInv
  <2>2. CASE PublishBatch(t, k)
    BY <2>2, ChannelTypes DEF PublishBatch, Goto, FetchInv, TypeOK
  <2> QED
    BY <2>1, <2>2
<1>5. AtWork'
  <2>1. \A u \in Tasks, l \in Keys : u # t \/ l # k =>
          st'[u][l] = st[u][l] \/ st'[u][l] = "told"
    BY <1>3
  <2>2. \A l \in Keys : l # k /\ st[t][l] = "lead" => pc'[t] = "publish"
    BY <1>1, <1>4 DEF With
  <2>3. \A l \in Keys : l # k => st[t][l] # "sent"
    BY <1>1 DEF FetchInv, AtWork, OneKey
  <2>4. pc'[t] \in {"publish", "write"}
    BY <1>4
  <2> QED
    BY <1>1, <1>4, <2>1, <2>2, <2>3, <2>4 DEF FetchInv, AtWork
<1>6. OneKey'
  <2>1. \A u \in Tasks, l \in Keys : st'[u][l] # "none" => st[u][l] # "none"
    BY <1>1, <1>3
  <2> QED
    BY <1>1, <2>1 DEF FetchInv, OneKey
<1>7. EntryHasLeader'
  <2> SUFFICES ASSUME NEW l \in Keys, pending'[l] # NoOne
               PROVE  st'[pending'[l]][l] \in {"lead", "sent"}
    BY DEF EntryHasLeader
  <2>1. pending'[l] = pending[l]
    BY <1>4
  <2>2. pending[l] \in Tasks /\ st[pending[l]][l] \in {"lead", "sent"}
    BY <2>1 DEF FetchInv, EntryHasLeader, TypeOK
  <2> QED
    BY <1>3, <1>4, <2>1, <2>2
<1>8. WaitersHaveSender'
  <2>1. \A f \in Tasks, l \in Keys : st'[f][l] = "wait" =>
          st[f][l] = "wait" /\ chan'[f][l] = chan[f][l]
    BY <1>1, <1>3, <1>4
  <2>2. \A u \in Tasks, l \in Keys : HasSender(u, l) =>
          \/ HasSender(u, l)'
          \/ \A f \in Tasks : st'[f][l] = "wait" => chan'[f][l] # u
    <3> SUFFICES ASSUME NEW u \in Tasks, NEW l \in Keys, HasSender(u, l)
                 PROVE  \/ HasSender(u, l)'
                        \/ \A f \in Tasks : st'[f][l] = "wait" => chan'[f][l] # u
      OBVIOUS
    <3>1. CASE u = t /\ l = k
      BY <1>1, <1>3, <1>4, <3>1
    <3>2. CASE ~(u = t /\ l = k)
      BY <1>1, <1>3, <3>2 DEF HasSender
    <3> QED
      BY <3>1, <3>2
  <2> QED
    BY <2>1, <2>2, WaitStep
<1> QED
  BY <1>5, <1>6, <1>7, <1>8 DEF FetchInv

\* The single read removes its entry and keeps its own sender.
LEMMA RemoveStep ==
  ASSUME FetchInv, TypeOK', NEW t \in Tasks, NEW k \in Keys, RemoveEntry(t, k)
  PROVE  FetchInv'
<1>1. /\ pc[t] = "publish" /\ st[t][k] = "sent" /\ ~batch[t] /\ UNCHANGED <<batch, chan>>
      /\ \A u \in Tasks : u # t => pc'[u] = pc[u]
      /\ pc'[t] = "write"
      /\ \A u \in Tasks, l \in Keys :
           st'[u][l] = IF u = t /\ l = k THEN "own" ELSE st[u][l]
      /\ \A l \in Keys : pending'[l] = IF l = k THEN NoOne ELSE pending[l]
  BY DEF RemoveEntry, Goto, FetchInv, TypeOK
<1>2. \A l \in Keys : l # k => st[t][l] = "none"
  BY <1>1 DEF FetchInv, OneKey
<1>3. AtWork'
  BY <1>1, <1>2 DEF FetchInv, AtWork
<1>4. OneKey'
  <2>1. \A u \in Tasks, l \in Keys : st'[u][l] # "none" => st[u][l] # "none"
    BY <1>1
  <2> QED
    BY <1>1, <2>1 DEF FetchInv, OneKey
<1>5. EntryHasLeader'
  <2> SUFFICES ASSUME NEW l \in Keys, pending'[l] # NoOne
               PROVE  st'[pending'[l]][l] \in {"lead", "sent"}
    BY DEF EntryHasLeader
  <2>1. l # k /\ pending'[l] = pending[l]
    BY <1>1
  <2>2. pending[l] \in Tasks /\ st[pending[l]][l] \in {"lead", "sent"}
    BY <2>1 DEF FetchInv, EntryHasLeader, TypeOK
  <2> QED
    BY <1>1, <2>1, <2>2
<1>6. WaitersHaveSender'
  <2>1. \A f \in Tasks, l \in Keys : st'[f][l] = "wait" =>
          st[f][l] = "wait" /\ chan'[f][l] = chan[f][l]
    BY <1>1
  <2>2. \A u \in Tasks, l \in Keys : HasSender(u, l) => HasSender(u, l)'
    BY <1>1 DEF HasSender
  <2> QED
    BY <2>1, <2>2, WaitStep
<1> QED
  BY <1>3, <1>4, <1>5, <1>6 DEF FetchInv

\* While no future is dropped, every step keeps the invariant.
LEMMA FetchStep ==
  ASSUME Cancels = {}, FetchInv, [Next]_vars
  PROVE  FetchInv'
<1>0. TypeOK'
  BY TypeStep DEF FetchInv
<1>1. ASSUME NEW t \in Tasks, TaskStep(t)
      PROVE  FetchInv'
  <2>1. CASE Fetch(t)
    BY <1>0, <2>1 DEF Fetch, Goto, FetchInv, TypeOK, AtWork, OneKey, EntryHasLeader,
       WaitersHaveSender
  <2> QED
    BY <1>0, <1>1, <2>1, FollowerStep, JoinStep, FailStep, WriteStep, PublishStep,
       RemoveStep DEF TaskStep
<1>2. ASSUME NEW t \in Tasks, NEW K \in SUBSET Keys, NEW b \in BOOLEAN, Request(t, K, b)
      PROVE  FetchInv'
  BY <1>0, <1>2, RequestStep
<1>3. ASSUME NEW t \in Tasks, Cancel(t)
      PROVE  FetchInv'
  BY <1>3 DEF Cancel
<1>4. CASE \/ \E k \in Keys : Expire(k) \/ \E v \in 0 .. MaxVersion : Mutate(k, v)
           \/ \E w \in through : WriteThrough(w)
           \/ UNCHANGED vars
  <2>1. UNCHANGED <<pending, pc, batch, st, chan>>
    BY <1>4 DEF Expire, Mutate, WriteThrough, taskVars, vars
  <2> QED
    BY <1>0, <2>1 DEF FetchInv, AtWork, OneKey, EntryHasLeader, WaitersHaveSender
<1> QED
  BY <1>1, <1>2, <1>3, <1>4 DEF Next

\* While no future is dropped, an entry of pending_fetches has a leader at work,
\* and whoever waits does so on a channel that will be sent on or closed: no
\* reader needs its timeout.
THEOREM NoLostWakeUp ==
  ASSUME Cancels = {}
  PROVE  Spec => [](EntryHasLeader /\ WaitersHaveSender)
<1>1. Init => FetchInv
  BY FetchAssumption DEF Init, FetchInv, TypeOK, PC, Status, AtWork, OneKey,
     EntryHasLeader, WaitersHaveSender
<1>2. FetchInv /\ [Next]_vars => FetchInv'
  BY FetchStep
<1>3. FetchInv => EntryHasLeader /\ WaitersHaveSender
  BY DEF FetchInv
<1> QED
  BY <1>1, <1>2, <1>3, PTL DEF Spec

=============================================================================
