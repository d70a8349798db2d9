----------------------------- MODULE SocialApi ------------------------------
(***************************************************************************)
(* The service as its clients use it: requests that pass the checks of     *)
(* FrontEnd act on the likes and the caches of LikeViews, next to          *)
(* leaderboard refresh cycles and entries that expire.  The likes and the  *)
(* replies of the commands follow LikeLedger.                              *)
(***************************************************************************)
EXTENDS FrontEnd, LikeViews

CONSTANT Readers   \* the tasks that read and refresh; all of them mutate

ASSUME ReadersAssumption == Readers \subseteq Tasks

VARIABLE passed    \* ghost: flaws of the requests that went on to mutate

apiVars == <<vars, frontVars, passed>>

(* The flaws, none or one, with which some front end serves op.            *)
Served ==
  [op \in Operations |->
     {D \in {{}} \cup {{f} : f \in Requires[op]} :
        \E tr \in Transports : Outcome(tr, op, D) = "Ok"}]

(* Mutations of other contents do not touch the count or the status of     *)
(* Focus.                                                                  *)
Mutable == IF \E k \in hot : Kind(k) \in {"lc", "ls"} THEN {Focus} ELSE Contents

Command(t) ==
  \E c \in Mutable :
    /\ \/ \E D \in Served["like"] : Like(t, c) /\ passed' = passed \cup D
       \/ \E D \in Served["unlike"] : Unlike(t, c) /\ passed' = passed \cup D
    /\ UNCHANGED frontVars

Query(t) ==
  /\ \/ Served["count"] # {} /\ GetCount(t, Focus)
     \/ Served["status"] # {} /\ GetStatus(t, Focus)
     \/ Served["batch_statuses"] # {} /\ BatchStatuses(t, Contents)
     \/ \E f \in Filters :
          \/ Served["user_likes"] # {} /\ GetUserLikes(t, f)
          \/ Served["leaderboard"] # {} /\ GetLeaderboard(t, f)
  /\ UNCHANGED <<frontVars, passed>>

Step(t) ==
  /\ \/ ReadRedis(t) \/ FillL1(t) \/ ReadDb(t) \/ DbFails(t)
     \/ WriteL1(t) \/ WriteRedis(t) \/ Publish(t)
  /\ UNCHANGED <<frontVars, passed>>

(* The client that walks through its pages is the one that reads.          *)
Walk == (NextPage \/ EndWalk) /\ UNCHANGED <<frontVars, passed>>
Free(t) == t \notin Readers \/ walk.pc = "idle"

Drop(t) == Dropped(t) /\ UNCHANGED <<frontVars, passed>>
Cycle(t) == t \in Readers /\ Refresh(t) /\ UNCHANGED <<frontVars, passed>>
TtlL1 == (\E k \in hot : ExpireL1(k)) /\ UNCHANGED <<frontVars, passed>>
TtlL2 == (\E k \in hot : ExpireL2(k)) /\ UNCHANGED <<frontVars, passed>>

(* A behaviour follows a request at the front ends, which involves no      *)
(* cache, or the caches.                                                   *)
ApiInit ==
  /\ Init
  /\ request \in Requests \cup {NoRequest}
  /\ answer = Unanswered
  /\ passed = {}
  /\ request # NoRequest => hot = {BoardKey}

FrontStep == (Retire \/ \E tr \in Transports : Handle(tr)) /\ UNCHANGED <<vars, passed>>

ApiNext ==
  \/ FrontStep
  \/ /\ request = NoRequest
     /\ \/ \E t \in Tasks :
             \/ Free(t) /\ Command(t)
             \/ t \in Readers /\ Free(t) /\ Query(t)
             \/ Step(t) \/ Drop(t) \/ Cycle(t)
        \/ Walk \/ TtlL1 \/ TtlL2

(* Tasks are polled and what has a TTL expires.  The refresh task wakes up *)
(* again and again, and Redis does not fail it for ever.                   *)
Reached(t) ==
  /\ Step(t) /\ task[t].pc = "far"
  /\ \A k \in DOMAIN Head(task[t].todo) : l2'[k] = Stamp(Head(task[t].todo))[k]

Fairness ==
  /\ \A t \in Tasks : WF_apiVars(Step(t))
  /\ \A t \in Readers : SF_apiVars(Cycle(t)) /\ SF_apiVars(Reached(t))
  /\ WF_apiVars(TtlL1) /\ WF_apiVars(TtlL2)

ApiSpec == ApiInit /\ [][ApiNext]_apiVars /\ Fairness

-----------------------------------------------------------------------------
(* Types.  A user has at most one like of a content, the unique constraint *)
(* the commands rely on.                                                   *)
TypeOK ==
  /\ hot \in Choices
  /\ \A v \in 1..Now : \A q, r \in log[v] : q # r => q.c # r.c /\ q.id # r.id
  /\ Now <= MaxVersion
  /\ DOMAIN l1 = hot /\ DOMAIN l2 = hot
  /\ \A t \in Tasks :
       task[t].pc \in {"idle", "redis", "local", "query", "near", "far", "publish"}
  /\ walk.pc \in {"idle", "paging", "done"}
  /\ lost \subseteq {"l1", "l2"}

(* Whatever the caches hold was true: every entry equals what its key      *)
(* stood for in the version of the database it was read from, through the  *)
(* cached full page, the write-through and the batch paths.                *)
CachedWasTrue ==
  \A k \in hot : \A e \in {l1[k], l2[k]} : e # None => e.val = Truth(k, log[e.ver])

(* When nothing is under way, an entry that is out of date was already out *)
(* of date when it was written, by a task that had read before a mutation, *)
(* or its level missed the write of a mutation (Redis failed, the client   *)
(* went away): no mutation forgets to write or invalidate a key.           *)
StaleOnlyByRace ==
  (\A t \in Tasks : task[t].pc = "idle") =>
    \A k \in hot : WritesBack(k) =>
      /\ Current(k, l1[k]) \/ l1[k].late \/ "l1" \in lost
      /\ Current(k, l2[k]) \/ l2[k].late \/ "l2" \in lost

(* A client that follows the cursors to the end, while likes come and go,  *)
(* sees no like twice and every like that was there all the time, also     *)
(* when the first page came from a cache and when several likes have the   *)
(* same created_at.                                                        *)
WalkExact ==
  walk.pc = "done" =>
    \A r \in UNION {log[v] : v \in 1..Now} :
      LET seen == {i \in DOMAIN walk.pages : r \in walk.pages[i]} IN
      /\ Cardinality(seen) <= 1
      /\ Matches(walk.filter, r.c) /\ (\A v \in walk.from..Now : r \in log[v]) =>
           seen # {}

(* An event that is about to be published tells of one change that took    *)
(* place, of the row it names and with the count the change left.          *)
EventsMatchChanges ==
  \A t \in Tasks : task[t].pc = "publish" =>
    LET v == task[t].event
        gone == log[v - 1] \ log[v]
        new == log[v] \ log[v - 1]
    IN /\ v \in 2..Now
       /\ \E r \in gone \cup new :
            /\ task[t].reply = Reply(IF r \in new THEN "Inserted" ELSE "Removed", log[v], r.c)
            /\ gone \cup new = {r}

(* Nobody changes likes but who has a valid token, is let through by the   *)
(* write limit (which fails open) and names a content that exists: a       *)
(* request refused any of these never got as far as a mutation, on either  *)
(* transport.                                                              *)
WritesAuthorised == passed = {}

(* The likes and the command replies, for this user: the abstract ledger.  *)
Liking == {<<User, r.c>> : r \in Rows}
Replies == [t \in Tasks |-> task[t].reply]
Ledger == INSTANCE LikeLedger
  WITH Users <- {User}, Contents <- Contents, Sessions <- Tasks,
       NoReply <- NoReply, likes <- Liking, reply <- Replies

(* Every step is a step of LikeLedger: likes change one at a time, and a   *)
(* command replies with the count of the moment it took effect, whatever   *)
(* the caches hold.                                                        *)
LedgerSteps == [][Ledger!Next]_<<Liking, Replies>>

(* Once mutations cease, every cache comes to agree with the database for  *)
(* good, whatever races and lost writes there were before.                 *)
Converges == <>[](\A k \in hot : Current(k, l1[k]) /\ Current(k, l2[k]))

=============================================================================
