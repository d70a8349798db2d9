----------------------------- MODULE CountFetch -----------------------------
(***************************************************************************)
(* LikeCountCache of services/like_count_cache.rs: count reads (single and *)
(* batch) with stampede coalescing through pending_fetches, against the    *)
(* cache writes of mutations.                                              *)
(*                                                                         *)
(* A count is represented by the version of the database row it was read   *)
(* from.  L1 and Redis are one cache here: a lookup may miss an entry that *)
(* exists (an expired L1 entry with Redis down) and a write may be lost.   *)
(*                                                                         *)
(* A watch channel lives as long as one of its senders: the one in the map *)
(* and, on the single-read path only, a clone that the leader keeps until  *)
(* it returns.  subscribe() marks the current value as seen, so a follower *)
(* gets only what is sent after it subscribed.                             *)
(***************************************************************************)
EXTENDS Integers, FiniteSets

CONSTANTS
  Keys, Tasks,
  Cancels,      \* tasks whose future may be dropped (client disconnect)
  Timeouts,     \* whether await_shared_count may run into its timeout
  MaxVersion,   \* bound on committed mutations per key
  NoOne, NoValue

ASSUME FetchAssumption ==
  /\ IsFiniteSet(Keys)
  /\ Cancels \subseteq Tasks
  /\ Timeouts \in BOOLEAN
  /\ MaxVersion \in Nat
  /\ NoOne \notin Tasks
  /\ NoValue \notin Nat

VARIABLES
  db,        \* committed version of each key's count
  cache,     \* cached version or NoValue
  through,   \* write_count calls of mutations still under way: <<key, version>>
  pending,   \* pending_fetches: the task that inserted the key's entry, or NoOne
  pc,        \* where each task is
  batch,     \* whether the task runs batch_counts
  st,        \* st[t][k]: what task t still has to do about key k
  chan,      \* chan[t][k]: the leader whose channel t subscribed to
  val        \* val[t][k]: the version t has for k

taskVars == <<pc, batch, st, chan, val>>
vars == <<db, cache, through, pending, pc, batch, st, chan, val>>

PC == {"idle", "lookup", "join", "fetch", "publish", "write", "await"}

(* none: not asked for      miss: missed in the cache                      *)
(* lead: leader, entry in the map        sent: leader, value sent, entry   *)
(* own: leader, entry removed            still in the map                  *)
(* wait: follower waiting   told: follower got the value                   *)
(* shut: follower got no value           have: answered                    *)
Status == {"none", "miss", "lead", "sent", "own", "wait", "told", "shut", "have"}

Init ==
  /\ db = [k \in Keys |-> 0]
  /\ cache = [k \in Keys |-> NoValue]
  /\ through = {}
  /\ pending = [k \in Keys |-> NoOne]
  /\ pc = [t \in Tasks |-> "idle"]
  /\ batch = [t \in Tasks |-> FALSE]
  /\ st = [t \in Tasks |-> [k \in Keys |-> "none"]]
  /\ chan = [t \in Tasks |-> [k \in Keys |-> NoOne]]
  /\ val = [t \in Tasks |-> [k \in Keys |-> NoValue]]

With(t, s) == {k \in Keys : st[t][k] = s}

Goto(t, l) == pc' = [pc EXCEPT ![t] = l]

\* The task ends, with an answer or an error.
Fresh(f, t, x) == [f EXCEPT ![t] = [k \in Keys |-> x]]

\* The followers that wait on t's channel for k.
Followers(t, k) == {f \in Tasks : st[f][k] = "wait" /\ chan[f][k] = t}

\* st after t's channels for the keys K lose their last sender.
Shut(s, t, K) ==
  [f \in Tasks |-> [k \in Keys |->
     IF k \in K /\ f \in Followers(t, k) THEN "shut" ELSE s[f][k]]]

\* send(Some(v)): the followers waiting on t's channel for k have the value.
Tell(s, t, k) ==
  [f \in Tasks |-> IF f \in Followers(t, k) THEN [s[f] EXCEPT ![k] = "told"]
                   ELSE s[f]]
\* Mutant: the channel is marked changed, with no value in it.
TellNothing(t, k) == val

TellValue(t, k) ==
  [f \in Tasks |-> IF f \in Followers(t, k) THEN [val[f] EXCEPT ![k] = val[t][k]]
                   ELSE val[f]]

-----------------------------------------------------------------------------
\* get_count_value for one key, batch_counts for several.
Request(t, K, b) ==
  /\ pc[t] = "idle"
  /\ K # {} /\ (~b => Cardinality(K) = 1)
  /\ Goto(t, "lookup")
  /\ batch' = [batch EXCEPT ![t] = b]
  /\ st' = [st EXCEPT ![t] = [k \in Keys |-> IF k \in K THEN "miss" ELSE "none"]]
  /\ chan' = Fresh(chan, t, NoOne)
  /\ val' = Fresh(val, t, NoValue)
  /\ UNCHANGED <<db, cache, through, pending>>

\* cache.get or cache.mget.
Lookup(t) ==
  /\ pc[t] = "lookup"
  /\ \E hits \in SUBSET {k \in With(t, "miss") : cache[k] # NoValue} :
       /\ st' = [st EXCEPT ![t] = [k \in Keys |-> IF k \in hits THEN "have" ELSE @[k]]]
       /\ val' = [val EXCEPT ![t] = [k \in Keys |->
                                       IF k \in hits THEN cache[k] ELSE @[k]]]
       /\ Goto(t, IF hits = With(t, "miss") THEN "idle" ELSE "join")
  /\ UNCHANGED <<db, cache, through, pending, batch, chan>>

\* Mutant: the entry is inserted without looking whether there is one.
JoinUnchecked(t, k) ==
  /\ pc[t] = "join" /\ st[t][k] = "miss"
  /\ st' = [st EXCEPT ![t][k] = "lead"]
  /\ pending' = [pending EXCEPT ![k] = t]
  /\ Goto(t, IF With(t, "miss") = {k} THEN "fetch" ELSE "join")
  /\ UNCHANGED <<db, cache, through, batch, chan, val>>

\* Mutant: a batch waits for the keys it follows before it fetches its own.
JoinAwaitsFirst(t, k) ==
  LET leads == pending[k] = NoOne
      last  == With(t, "miss") = {k}
  IN
  /\ pc[t] = "join" /\ st[t][k] = "miss"
  /\ st' = [st EXCEPT ![t][k] = IF leads THEN "lead" ELSE "wait"]
  /\ IF leads THEN pending' = [pending EXCEPT ![k] = t] /\ UNCHANGED chan
              ELSE chan' = [chan EXCEPT ![t][k] = pending[k]] /\ UNCHANGED pending
  /\ Goto(t, IF ~last THEN "join"
             ELSE IF ~leads \/ With(t, "wait") # {} THEN "await" ELSE "fetch")
  /\ UNCHANGED <<db, cache, through, batch, val>>

\* pending_fetches.entry(key), one key after the other: lead a vacant one,
\* subscribe to an occupied one.
Join(t, k) ==
  LET leads == pending[k] = NoOne
      last  == With(t, "miss") = {k}
  IN
  /\ pc[t] = "join" /\ st[t][k] = "miss"
  /\ st' = [st EXCEPT ![t][k] = IF leads THEN "lead" ELSE "wait"]
  /\ IF leads THEN pending' = [pending EXCEPT ![k] = t] /\ UNCHANGED chan
              ELSE chan' = [chan EXCEPT ![t][k] = pending[k]] /\ UNCHANGED pending
  /\ Goto(t, IF ~last THEN "join"
             ELSE IF leads \/ With(t, "lead") # {} THEN "fetch" ELSE "await")
  /\ UNCHANGED <<db, cache, through, batch, val>>

\* Mutant: a key without a row counts -1.
FetchNoRow(t) ==
  /\ pc[t] = "fetch"
  /\ val' = [val EXCEPT ![t] = [k \in Keys |->
                IF k \in With(t, "lead") THEN (IF db[k] = 0 THEN -1 ELSE db[k])
                                         ELSE @[k]]]
  /\ Goto(t, "publish")
  /\ UNCHANGED <<db, cache, through, pending, batch, st, chan>>

\* One database query for all the keys the task leads.
Fetch(t) ==
  /\ pc[t] = "fetch"
  /\ val' = [val EXCEPT ![t] = [k \in Keys |->
                                  IF k \in With(t, "lead") THEN db[k] ELSE @[k]]]
  /\ Goto(t, "publish")
  /\ UNCHANGED <<db, cache, through, pending, batch, st, chan>>

\* Mutants: the error path leaves the entries behind, or keeps a sender alive.
FetchFailsLeaking(t) ==
  /\ pc[t] = "fetch"
  /\ st' = Fresh(st, t, "none")
  /\ Goto(t, "idle")
  /\ UNCHANGED <<db, cache, through, pending, batch, chan, val>>
FetchFailsOpen(t) ==
  LET K == With(t, "lead") IN
  /\ pc[t] = "fetch"
  /\ pending' = [k \in Keys |-> IF k \in K THEN NoOne ELSE pending[k]]
  /\ st' = Fresh(st, t, "none")
  /\ Goto(t, "idle")
  /\ UNCHANGED <<db, cache, through, batch, chan, val>>

\* The query fails: the entries go, their channels close, an error is returned.
FetchFails(t) ==
  LET K == With(t, "lead") IN
  /\ pc[t] = "fetch"
  /\ pending' = [k \in Keys |-> IF k \in K THEN NoOne ELSE pending[k]]
  /\ st' = Fresh(Shut(st, t, K), t, "none")
  /\ Goto(t, "idle")
  /\ UNCHANGED <<db, cache, through, batch, chan, val>>

\* get_count_value sends first ...
SendCount(t, k) ==
  /\ pc[t] = "publish" /\ ~batch[t] /\ st[t][k] = "lead"
  /\ st' = [Tell(st, t, k) EXCEPT ![t][k] = "sent"]
  /\ val' = TellValue(t, k)
  /\ UNCHANGED <<db, cache, through, pending, pc, batch, chan>>

\* ... and removes the entry afterwards, keeping its own sender.
RemoveEntry(t, k) ==
  /\ pc[t] = "publish" /\ ~batch[t] /\ st[t][k] = "sent"
  /\ pending' = [pending EXCEPT ![k] = NoOne]
  /\ st' = [st EXCEPT ![t][k] = "own"]
  /\ Goto(t, "write")
  /\ UNCHANGED <<db, cache, through, batch, chan, val>>

\* batch_counts takes the entry out and sends through it. Nobody can subscribe
\* to the channel once it is out of the map, so this is one step.
PublishBatch(t, k) ==
  /\ pc[t] = "publish" /\ batch[t] /\ st[t][k] = "lead"
  /\ pending' = [pending EXCEPT ![k] = NoOne]
  /\ st' = [Tell(st, t, k) EXCEPT ![t][k] = "own"]
  /\ val' = TellValue(t, k)
  /\ Goto(t, IF With(t, "lead") = {k} THEN "write" ELSE "publish")
  /\ UNCHANGED <<db, cache, through, batch, chan>>

\* Mutant: the batch returns when it has answered the keys it leads.
CacheWriteReturns(t) ==
  LET K == With(t, "own") IN
  /\ pc[t] = "write"
  /\ cache' \in {cache, [k \in Keys |-> IF k \in K THEN val[t][k] ELSE cache[k]]}
  /\ st' = [Shut(st, t, K) EXCEPT ![t] = [k \in Keys |->
                                           IF k \in K THEN "have" ELSE @[k]]]
  /\ Goto(t, "idle")
  /\ UNCHANGED <<db, through, pending, batch, chan, val>>

\* write_count or set_many by the leader, which may be lost; then the single
\* read returns and drops its sender, and the batch turns to the keys it follows.
CacheWrite(t) ==
  LET K == With(t, "own")
      s == [Shut(st, t, K) EXCEPT ![t] = [k \in Keys |->
                                            IF k \in K THEN "have" ELSE @[k]]]
  IN
  /\ pc[t] = "write"
  /\ cache' \in {cache, [k \in Keys |-> IF k \in K THEN val[t][k] ELSE cache[k]]}
  /\ st' = s
  /\ Goto(t, IF \A k \in Keys : s[t][k] \in {"none", "have"} THEN "idle" ELSE "await")
  /\ UNCHANGED <<db, through, pending, batch, chan, val>>

Unanswered(t) == {k \in Keys : st[t][k] \notin {"none", "have"}}

\* await_shared_count returns the value that was sent.
Receive(t, k) ==
  /\ pc[t] = "await" /\ st[t][k] = "told"
  /\ st' = [st EXCEPT ![t][k] = "have"]
  /\ Goto(t, IF Unanswered(t) = {k} THEN "idle" ELSE "await")
  /\ UNCHANGED <<db, cache, through, pending, batch, chan, val>>

\* Mutant: no timeout.
GiveUpNever(t, k) == FALSE /\ UNCHANGED vars

\* The timeout of await_shared_count.
GiveUp(t, k) ==
  /\ Timeouts
  /\ pc[t] = "await" /\ st[t][k] = "wait"
  /\ st' = [st EXCEPT ![t][k] = "shut"]
  /\ UNCHANGED <<db, cache, through, pending, pc, batch, chan, val>>

\* No value: the follower queries the database itself. The batch also writes
\* what it read to the cache, the single read does not.
Backfill(t, k) ==
  /\ pc[t] = "await" /\ st[t][k] = "shut"
  /\ val' = [val EXCEPT ![t][k] = db[k]]
  /\ st' = [st EXCEPT ![t][k] = IF batch[t] THEN "own" ELSE "have"]
  /\ Goto(t, IF batch[t] THEN "write" ELSE "idle")
  /\ UNCHANGED <<db, cache, through, pending, batch, chan>>

BackfillFails(t, k) ==
  /\ pc[t] = "await" /\ st[t][k] = "shut"
  /\ st' = Fresh(st, t, "none")
  /\ Goto(t, "idle")
  /\ UNCHANGED <<db, cache, through, pending, batch, chan, val>>

\* The task is at an await, where its future can be dropped.
Suspended(t) ==
  \/ pc[t] \in {"lookup", "fetch", "write", "await"}
  \/ pc[t] = "publish" /\ With(t, "sent") \cup With(t, "own") = {}

\* The task's future is dropped: its own senders go, the one in the map stays.
Cancel(t) ==
  /\ t \in Cancels /\ Suspended(t)
  /\ st' = Fresh(Shut(st, t, With(t, "own")), t, "none")
  /\ Goto(t, "idle")
  /\ UNCHANGED <<db, cache, through, pending, batch, chan, val>>

-----------------------------------------------------------------------------
\* A like or unlike commits version v of the count, or finds nothing to change
\* and reads it; either way its write_count follows.
Mutate(k, v) ==
  /\ v \in {db[k], db[k] + 1} /\ v <= MaxVersion
  /\ db' = [db EXCEPT ![k] = v]
  /\ through' = through \cup {<<k, v>>}
  /\ UNCHANGED <<cache, pending, taskVars>>

\* write_count by the mutation, or its loss.
WriteThrough(w) ==
  /\ w \in through
  /\ through' = through \ {w}
  /\ cache' \in {cache, [cache EXCEPT ![w[1]] = w[2]]}
  /\ UNCHANGED <<db, pending, taskVars>>

Expire(k) ==
  /\ cache[k] # NoValue
  /\ cache' = [cache EXCEPT ![k] = NoValue]
  /\ UNCHANGED <<db, through, pending, taskVars>>

TaskStep(t) ==
  \/ Lookup(t) \/ Fetch(t) \/ FetchFails(t) \/ CacheWrite(t)
  \/ \E k \in Keys :
       \/ Join(t, k) \/ SendCount(t, k) \/ RemoveEntry(t, k) \/ PublishBatch(t, k)
       \/ Receive(t, k) \/ GiveUp(t, k) \/ Backfill(t, k) \/ BackfillFails(t, k)

Next ==
  \/ \E t \in Tasks : \/ \E K \in SUBSET Keys, b \in BOOLEAN : Request(t, K, b)
                      \/ TaskStep(t)
                      \/ Cancel(t)
  \/ \E k \in Keys : Expire(k) \/ \E v \in 0 .. MaxVersion : Mutate(k, v)
  \/ \E w \in through : WriteThrough(w)

Spec == Init /\ [][Next]_vars

\* The executor runs every task that can run.
FairSpec == Spec /\ \A t \in Tasks : WF_vars(TaskStep(t))

-----------------------------------------------------------------------------
TypeOK ==
  /\ db \in [Keys -> Nat]
  /\ cache \in [Keys -> Nat \cup {NoValue}]
  /\ through \subseteq Keys \X Nat
  /\ pending \in [Keys -> Tasks \cup {NoOne}]
  /\ pc \in [Tasks -> PC]
  /\ batch \in [Tasks -> BOOLEAN]
  /\ st \in [Tasks -> [Keys -> Status]]
  /\ chan \in [Tasks -> [Keys -> Tasks \cup {NoOne}]]
  /\ val \in [Tasks -> [Keys -> Nat \cup {NoValue}]]

\* No two tasks ever fetch the same key as leaders: whoever leads a key owns its
\* entry, even if other readers time out or are dropped.
SoleLeader ==
  \A k \in Keys, t \in Tasks : st[t][k] \in {"lead", "sent"} => pending[k] = t

\* An entry of pending_fetches has a leader at work: it never outlives the task
\* that inserted it, or all later readers of the key would wait in vain.
EntryHasLeader ==
  \A k \in Keys : pending[k] # NoOne => st[pending[k]][k] \in {"lead", "sent"}

\* No lost wake-up: whoever waits, waits on a channel whose leader is still
\* going to send on it or close it.
WaitersHaveSender ==
  \A f \in Tasks, k \in Keys :
    st[f][k] = "wait" =>
      /\ chan[f][k] # NoOne
      /\ \/ st[chan[f][k]][k] \in {"lead", "sent"}
         \/ st[chan[f][k]][k] = "own" /\ ~batch[chan[f][k]]

\* An answered key carries a count that was really read, and no key that was
\* asked for is left over when its task returns: the zeros with which
\* batch_counts fills its result first are all overwritten.
AnswersAreCounts ==
  \A t \in Tasks, k \in Keys :
    /\ st[t][k] = "have" => val[t][k] \in 0 .. db[k]
    /\ pc[t] = "idle" => st[t][k] \in {"none", "have"}

\* Every read is answered, even if no timeout ever fires: two batches that
\* each lead a key the other follows do not wait for each other.
AllAnswered == \A t \in Tasks : pc[t] # "idle" ~> pc[t] = "idle"

=============================================================================
