----------------------------- MODULE LikeViews ------------------------------
(***************************************************************************)
(* What users see of the likes: CacheManager of cache.rs, the queries of   *)
(* services/like_queries.rs, the cache writes and events of                *)
(* services/like_commands.rs and the leaderboard refresh, around the likes *)
(* of one user.  A mutation commits in one step here; LikeStore has its    *)
(* statements and both are related to LikeLedger.                          *)
(*                                                                         *)
(* Cache entries with different keys do not interact, so a behaviour       *)
(* follows a few keys, chosen by Init, and one replica's L1.  An entry     *)
(* carries two ghosts: the version of the database it was read from, and   *)
(* whether it was out of date when it was written.                         *)
(***************************************************************************)
EXTENDS Integers, Sequences, FiniteSets

CONSTANTS
  Contents,      \* contents, a set of numbers; odd and even ones differ in type
  Focus,         \* the content whose keys are followed
  Seeds,         \* rows to start with
  Times,         \* values of created_at, a set of positive numbers
  Tasks,         \* requests being handled, and refresh cycles
  MaxVersion,    \* bound on versions of the database
  PageCap,       \* max_limit, the rows a cached first page holds
  MaxLimit,      \* bound on the page sizes clients ask for
  User, None, NoReply

ASSUME ViewsAssumption ==
  /\ Contents \subseteq Nat /\ IsFiniteSet(Contents) /\ Focus \in Contents
  /\ Times \subseteq Nat \ {0} /\ Times # {}
  /\ Seeds \in 0..Cardinality(Contents)
  /\ {MaxVersion, PageCap, MaxLimit} \subseteq Nat \ {0}
  /\ MaxLimit <= PageCap
  /\ None \notin [id : Nat, at : Nat, c : Contents]
  /\ NoReply \notin [kind : {"Inserted", "AlreadyExisted", "Removed", "NotLiked"},
                     count : Nat]

VARIABLES
  hot,        \* the keys that are followed
  log,        \* the versions of table likes: sets of rows [id, at, c]
  l1, l2,     \* the entry of each key in moka and in Redis, or None
  task,       \* what each task is doing
  walk,       \* a client's walk through the pages of its likes
  lost        \* ghost: the levels that missed a mutation's write

vars == <<hot, log, l1, l2, task, walk, lost>>

-----------------------------------------------------------------------------
(* The tables.                                                             *)

Type(c) == IF c % 2 = 1 THEN "odd" ELSE "even"
Filters == {"_", "odd", "even"}
Matches(f, c) == f \in {"_", Type(c)}

Now == Len(log)
Rows == log[Now]
RowsOf(S, c) == {r \in S : r.c = c}
Liked(c) == RowsOf(Rows, c) # {}

(* ORDER BY created_at DESC, id DESC.                                      *)
Newer(q, r) == q.at > r.at \/ (q.at = r.at /\ q.id > r.id)
Newest(S, n) == {r \in S : Cardinality({q \in S : Newer(q, r)}) < n}
Oldest(S) == CHOOSE r \in S : \A q \in S : q = r \/ Newer(q, r)

\* Mutant: created_at alone is compared.
BeyondInTime(cursor, r) == cursor = None \/ r.at < cursor.at

(* (created_at, id) < cursor; the cursor is the row it was made from.      *)
Beyond(cursor, r) == cursor = None \/ Newer(cursor, r)

\* Mutant: as many rows as the page has.
UserLikesExact(f, cursor, limit) ==
  Newest({r \in Rows : Matches(f, r.c) /\ Beyond(cursor, r)}, limit)

(* repositories::get_user_likes asks for one row more than the page has.   *)
UserLikes(f, cursor, limit) ==
  Newest({r \in Rows : Matches(f, r.c) /\ Beyond(cursor, r)}, limit + 1)

LikeCount(c) == Cardinality(RowsOf(Rows, c))

(* The time of the like, 0 (the empty string) when there is none.          *)
LikeStatus(c) == IF Liked(c) THEN (CHOOSE r \in Rows : r.c = c).at ELSE 0

(* Of a time window that has not slid past any like: it is counted from    *)
(* likes, and one user makes every count 1.                                *)
Leaders(f) == {r.c : r \in {q \in Rows : Matches(f, q.c)}}

-----------------------------------------------------------------------------
(* Keys and what is cached under them.                                     *)

CountKey(c) == <<"lc", c>>
StatusKey(c) == <<"ls", c>>
PageKey(f) == <<"ul", f>>
BoardKey == <<"lb", "_">>
TypedBoardKey(f) == <<"lbf", f>>
Kind(k) == k[1]

(* A cache miss loads one of these.                                        *)
FirstPage(f) ==
  LET rows == UserLikes(f, None, PageCap) IN
    [rows |-> Newest(rows, PageCap), more |-> Cardinality(rows) > PageCap]

Load(k) ==
  CASE Kind(k) = "lc" -> LikeCount(k[2])
    [] Kind(k) = "ls" -> LikeStatus(k[2])
    [] Kind(k) = "ul" -> FirstPage(k[2])
    [] OTHER          -> Leaders(k[2])

(* What a key should show in version S of the table.                       *)
Truth(k, S) ==
  LET mine == {r \in S : Matches(k[2], r.c)} IN
  CASE Kind(k) = "lc" -> IF RowsOf(S, k[2]) = {} THEN 0 ELSE 1
    [] Kind(k) = "ls" -> IF RowsOf(S, k[2]) = {} THEN 0
                         ELSE (CHOOSE r \in RowsOf(S, k[2]) : TRUE).at
    [] Kind(k) = "ul" -> [rows |-> Newest(mine, PageCap),
                          more |-> Cardinality(mine) > PageCap]
    [] OTHER          -> {r.c : r \in mine}

\* Mutant: first pages are cached without an expiry too.
ExpiresNotPages(k) == Kind(k) \notin {"lb", "ul"}

(* The sorted set has no expiry; everything else is written with one.      *)
Expires(k) == k # BoardKey

Current(k, e) == e = None \/ e.val = Truth(k, Rows)
Read(k) == [val |-> Load(k), ver |-> Now, late |-> FALSE]

(* Entries as they go into a cache, and the cache afterwards.              *)
Stamp(puts) ==
  [k \in DOMAIN puts |-> IF puts[k] = None THEN None
                         ELSE [puts[k] EXCEPT !.late = ~Current(k, puts[k])]]
Put(cache, puts) ==
  [k \in DOMAIN cache |-> IF k \in DOMAIN puts THEN Stamp(puts)[k] ELSE cache[k]]

Idle == [pc |-> "idle", keys |-> {}, hold |-> <<>>, todo |-> <<>>,
         event |-> 0, reply |-> NoReply]
AtHome == [pc |-> "idle", filter |-> "_", limit |-> 1, cursor |-> None,
           pages |-> <<>>, from |-> 1]

Choices ==
  {{CountKey(Focus)}, {BoardKey}, {TypedBoardKey(Type(Focus))},
   {StatusKey(Focus)}, {PageKey("_")}, {PageKey(Type(Focus))}}

Init ==
  /\ hot \in Choices
  /\ LET first == CHOOSE f \in [1..Seeds -> Contents] :
                    \A i, j \in 1..Seeds : i # j => f[i] # f[j]
         early == CHOOSE t \in Times : \A u \in Times : t <= u
     IN log = <<{[id |-> i, at |-> early, c |-> first[i]] : i \in 1..Seeds}>>
  /\ l1 = [k \in hot |-> None]
  /\ l2 = [k \in hot |-> None]
  /\ task = [t \in Tasks |-> Idle]
  /\ walk = AtHome
  /\ lost = {}

-----------------------------------------------------------------------------
(* The walk.  A first page comes from the cache or through it; the others  *)
(* are read from the database.                                             *)

(* build_paginated_response: a cached page cut down to the limit.          *)
Items(page, limit) == Newest(page.rows, limit)
HasMore(page, limit) ==
  \/ Cardinality(page.rows) > limit
  \/ Cardinality(page.rows) = limit /\ page.more

(* A client that gets a first page may go on from it.                      *)
MayWalk(k, e) ==
  IF Kind(k) # "ul" \/ walk.pc # "idle" THEN UNCHANGED walk
  ELSE walk' \in {walk} \cup
    {[pc |-> IF HasMore(e.val, n) THEN "paging" ELSE "done",
      filter |-> k[2], limit |-> n, from |-> e.ver,
      cursor |-> IF HasMore(e.val, n) THEN Oldest(Items(e.val, n)) ELSE None,
      pages |-> <<Items(e.val, n)>>] : n \in 1..MaxLimit}

(* get_user_likes with a cursor.                                           *)
NextPage ==
  LET rows == UserLikes(walk.filter, walk.cursor, walk.limit)
      items == Newest(rows, walk.limit)
      more == Cardinality(rows) > walk.limit
  IN
  /\ walk.pc = "paging"
  /\ walk' = [walk EXCEPT !.pc = IF more THEN "paging" ELSE "done",
                          !.cursor = IF more THEN Oldest(items) ELSE None,
                          !.pages = Append(@, items)]
  /\ UNCHANGED <<hot, log, l1, l2, task, lost>>

EndWalk ==
  /\ walk.pc = "done"
  /\ walk' = AtHome
  /\ UNCHANGED <<hot, log, l1, l2, task, lost>>

-----------------------------------------------------------------------------
(* Reading: L1, then Redis, then the database, whose answer is written     *)
(* back to both.  A Redis error is a miss.                                 *)

Become(t, r) == task' = [task EXCEPT ![t] = r]

Lookup(t, K) ==
  LET missing == {k \in K : l1[k] = None} IN
  /\ task[t].pc = "idle" /\ K # {} /\ K \subseteq hot
  /\ IF missing = {}
       THEN /\ \A k \in K : MayWalk(k, l1[k])
            /\ UNCHANGED task
       ELSE /\ Become(t, [Idle EXCEPT !.pc = "redis", !.keys = missing])
            /\ UNCHANGED walk
  /\ UNCHANGED <<hot, log, l1, l2, lost>>

Get(t, k) == Lookup(t, {k})
MGet(t, K) == Lookup(t, K)

ReadRedis(t) ==
  /\ task[t].pc = "redis"
  /\ \E hits \in {{}, {k \in task[t].keys : l2[k] # None}} :
       /\ Become(t, [task[t] EXCEPT !.pc = IF hits = {} THEN "query" ELSE "local",
                                    !.keys = @ \ hits,
                                    !.hold = [k \in hits |-> l2[k]]])
       /\ IF hits = {} THEN UNCHANGED walk
          ELSE \A k \in hits : MayWalk(k, l2[k])
  /\ UNCHANGED <<hot, log, l1, l2, lost>>

FillL1(t) ==
  /\ task[t].pc = "local"
  /\ l1' = Put(l1, task[t].hold)
  /\ Become(t, IF task[t].keys = {} THEN Idle
               ELSE [task[t] EXCEPT !.pc = "query", !.hold = <<>>])
  /\ UNCHANGED <<hot, log, l2, walk, lost>>

(* Leaderboards are only read here; the refresh task writes them.          *)
WritesBack(k) == Kind(k) \in {"lc", "ls", "ul"}

ReadDb(t) ==
  LET keys == task[t].keys IN
  /\ task[t].pc = "query"
  /\ Become(t, IF \E k \in keys : WritesBack(k)
                 THEN [Idle EXCEPT !.pc = "near",
                                   !.todo = <<[k \in keys |-> Read(k)]>>]
                 ELSE Idle)
  /\ \A k \in keys : MayWalk(k, Read(k))
  /\ UNCHANGED <<hot, log, l1, l2, lost>>

DbFails(t) ==
  /\ task[t].pc = "query"
  /\ Become(t, Idle)
  /\ UNCHANGED <<hot, log, l1, l2, walk, lost>>

-----------------------------------------------------------------------------
(* The queries.                                                            *)

GetCount(t, c) == Get(t, CountKey(c))
GetStatus(t, c) == Get(t, StatusKey(c))
GetUserLikes(t, f) == Get(t, PageKey(f))
BatchStatuses(t, C) == MGet(t, {StatusKey(c) : c \in C} \cap hot)
GetLeaderboard(t, f) == Get(t, IF f = "_" THEN BoardKey ELSE TypedBoardKey(f))

-----------------------------------------------------------------------------
(* Writing: L1 first, then Redis, where a pipeline may get through in part *)
(* or not at all.  Prefix invalidation of L1 does nothing: the caches are  *)
(* built without support for it.                                           *)

Finished(r) == IF r.event # 0 THEN [r EXCEPT !.pc = "publish"] ELSE Idle

(* set, set_many and del_many on L1.  Sorted sets are only cached there by *)
(* who reads them.                                                         *)
WriteL1(t) ==
  LET puts == Head(task[t].todo) IN
  /\ task[t].pc = "near"
  /\ l1' = Put(l1, [k \in DOMAIN puts \ {BoardKey} |-> puts[k]])
  /\ Become(t, [task[t] EXCEPT !.pc = "far"])
  /\ UNCHANGED <<hot, log, l2, walk, lost>>

WriteRedis(t) ==
  LET puts == Head(task[t].todo)
      rest == Tail(task[t].todo)
  IN
  /\ task[t].pc = "far"
  /\ \E done \in SUBSET DOMAIN puts :
       /\ l2' = Put(l2, [k \in done |-> puts[k]])
       /\ lost' = IF done # DOMAIN puts /\ task[t].reply # NoReply
                    THEN lost \cup {"l2"} ELSE lost
  /\ Become(t, IF rest = <<>> THEN Finished(task[t])
               ELSE [task[t] EXCEPT !.pc = "near", !.todo = rest])
  /\ UNCHANGED <<hot, log, l1, walk>>

-----------------------------------------------------------------------------
(* The commands.                                                           *)

\* Mutant: the count is the one before the change.
ReplyBefore(kind, S, c) == [kind |-> kind, count |-> LikeCount(c)]

Reply(kind, S, c) == [kind |-> kind, count |-> Cardinality(RowsOf(S, c))]

(* One cache call of a mutation, if it is about a key that is followed.    *)
Followed(puts) ==
  LET mine == DOMAIN puts \cap hot
  IN IF mine = {} THEN <<>> ELSE << [k \in mine |-> puts[k]] >>

(* write_count, update_status_cache and invalidate_user_likes after a      *)
(* mutation of c that left the table as S.                                 *)
Entry(val, v) == [val |-> val, ver |-> v, late |-> FALSE]

\* Mutant: the page of the content's type is forgotten.
InvalidateUserLikesAll(c) == [k \in {PageKey("_")} |-> None]

InvalidateUserLikes(c) ==
  [k \in {PageKey("_"), PageKey(Type(c))} |-> None]
WriteThrough(c, S, v) ==
  LET at == IF RowsOf(S, c) = {} THEN 0 ELSE (CHOOSE r \in RowsOf(S, c) : TRUE).at
  IN Followed([k \in {CountKey(c)} |-> Entry(Cardinality(RowsOf(S, c)), v)])
       \o Followed([k \in {StatusKey(c)} |-> Entry(at, v)])

Respond(t, todo, event, reply) ==
  LET r == [Idle EXCEPT !.pc = "near", !.todo = todo, !.event = event, !.reply = reply]
  IN Become(t, IF todo = <<>> THEN Finished(r) ELSE r)

\* Mutant: the INSERT does not mind the row that is there.
InsertedAgain(t, c) ==
  /\ Now < MaxVersion
  /\ LET S == Rows \cup {[id |-> Seeds + Now, at |-> Now, c |-> c]} IN
       /\ log' = Append(log, S)
       /\ Respond(t, WriteThrough(c, S, Now + 1), Now + 1, Reply("Inserted", S, c))

Inserted(t, c) ==
  /\ ~Liked(c) /\ Now < MaxVersion
  /\ \E at \in Times :
       LET S == Rows \cup {[id |-> Seeds + Now, at |-> at, c |-> c]} IN
       /\ log' = Append(log, S)
       /\ Respond(t, WriteThrough(c, S, Now + 1) \o Followed(InvalidateUserLikes(c)),
                  Now + 1, Reply("Inserted", S, c))

\* Mutant: an event is published although nothing changed.
AlreadyExistedTold(t, c) ==
  /\ Liked(c)
  /\ Respond(t, WriteThrough(c, Rows, Now), Now, Reply("AlreadyExisted", Rows, c))
  /\ UNCHANGED log

AlreadyExisted(t, c) ==
  /\ Liked(c)
  /\ Respond(t, WriteThrough(c, Rows, Now), 0, Reply("AlreadyExisted", Rows, c))
  /\ UNCHANGED log

(* The row that stopped the INSERT was gone when it was looked for.        *)
ConcurrentlyRemoved(t, c) ==
  /\ ~Liked(c) /\ \E v \in 1..Now : RowsOf(log[v], c) # {}
  /\ UNCHANGED <<log, task>>

Like(t, c) ==
  /\ task[t].pc = "idle"
  /\ Inserted(t, c) \/ AlreadyExisted(t, c) \/ ConcurrentlyRemoved(t, c)
  /\ UNCHANGED <<hot, l1, l2, walk, lost>>

(* The event is published when a row was removed, the rest always done.    *)
Unlike(t, c) ==
  LET S == Rows \ RowsOf(Rows, c)
      v == IF Liked(c) THEN Now + 1 ELSE Now
  IN
  /\ task[t].pc = "idle" /\ v <= MaxVersion
  /\ log' = IF Liked(c) THEN Append(log, S) ELSE log
  /\ Respond(t, WriteThrough(c, S, v) \o Followed(InvalidateUserLikes(c)),
             IF Liked(c) THEN v ELSE 0,
             Reply(IF Liked(c) THEN "Removed" ELSE "NotLiked", S, c))
  /\ UNCHANGED <<hot, l1, l2, walk, lost>>

Publish(t) ==
  /\ task[t].pc = "publish"
  /\ Become(t, Idle)
  /\ UNCHANGED <<hot, log, l1, l2, walk, lost>>

(* The client of a command goes away after the commit: the future is       *)
(* dropped with what it still had to write.                                *)
Dropped(t) ==
  /\ task[t].reply # NoReply
  /\ lost' = lost \cup (CASE task[t].pc = "near" -> {"l1", "l2"}
                          [] task[t].pc = "far" -> {"l2"}
                          [] OTHER -> {})
  /\ Become(t, Idle)
  /\ UNCHANGED <<hot, log, l1, l2, walk>>

-----------------------------------------------------------------------------
(* refresh_window for the boards that are followed: a query, then          *)
(* replace_sorted_set (no members: the key is deleted) or set.             *)
Refresh(t) ==
  LET boards == {k \in hot : ~WritesBack(k)} IN
  /\ task[t].pc = "idle" /\ boards # {}
  /\ Become(t, [Idle EXCEPT !.pc = "near",
         !.todo = <<[k \in boards |-> IF k = BoardKey /\ Load(k) = {} THEN None
                                      ELSE Read(k)]>>])
  /\ UNCHANGED <<hot, log, l1, l2, walk, lost>>

(* A TTL runs out.                                                         *)
ExpireL1(k) ==
  /\ l1[k] # None
  /\ l1' = [l1 EXCEPT ![k] = None]
  /\ UNCHANGED <<hot, log, l2, task, walk, lost>>

ExpireL2(k) ==
  /\ l2[k] # None /\ Expires(k)
  /\ l2' = [l2 EXCEPT ![k] = None]
  /\ UNCHANGED <<hot, log, l1, task, walk, lost>>

=============================================================================
