# Social API: a TLA+ model

Social API is a Rust microservice (`crates/social-api`) that records which user likes
which content. It keeps the likes and a denormalised counter in PostgreSQL, caches counts,
statuses and validation results in process (L1) and in Redis, validates tokens and contents
with two external APIs behind circuit breakers, limits request rates with a Redis script and
streams like events to subscribers. This directory models the parts of it where concurrency
and failure make a test unlikely to find a mistake, checks the models with TLC and proves the
most important invariants with TLAPS. `S/` below stands for `crates/social-api/src/`.

## The system's parts

| Part | State | Operations | What is hard about it | What makes it correct |
|---|---|---|---|---|
| Circuit breaker `S/clients/circuit_breaker.rs` | one record under a mutex: state, two counters, time of the last failure, window of outcomes, probe flag | `allow_request`, `record_success`, `record_failure` | admission and report are two lock holds with a remote call between them; reports arrive late | trips only on fresh evidence; never stuck; one probe at a time; closes only on real answers |
| Content gate `S/services/like_commands.rs`, `S/clients/*content_client.rs` | the breaker, `cv:` cache entries | `validate_content` | cache hits, dropped requests, late answers | the probe slot comes back; cached results do not close the breaker |
| Token gate `S/auth.rs`, `S/clients/*profile_client.rs` | the breaker, `tok:` cache entries | `authenticate_token` | as above | as above |
| Like store `S/repositories.rs`, `migrations/` | tables `likes`, `like_counts` | `insert_like`, `delete_like`, reads | multi-statement transactions at READ COMMITTED, row locks, pooled connections, conflicts, lost commit replies | counter = number of rows; each call takes effect once and ends |
| Count cache `S/services/like_count_cache.rs` | cache entries, `pending_fetches` | `get_count_value`, `batch_counts`, `write_count` | leader/follower hand-over, dropped leaders, timeouts, batches waiting for each other | one leader per key, no lost wake-up, every read answered |
| Rate limiter `S/middleware/rate_limit.rs` | a sorted set per key, a counter per process | `check_rate_limit_inner` | several replicas, clocks, delayed requests, Redis down | never more than the limit in a window; no unjustified denial; honest Retry-After |
| Like commands `S/services/like_commands.rs` | none of its own | `like`, `unlike` | the order gate, transaction, count cache, status cache, page invalidation, event; each await may be the last | caches converge on the committed state; an event tells of a change that took place |
| Like queries `S/services/like_queries.rs` | status and first-page cache entries | `get_status`, `get_user_likes`, `batch_statuses`, `get_leaderboard` | a fill racing an update; keyset pagination under writes, from a cached page cut to another limit | cached values were true once; a walk neither skips nor repeats |
| Cache manager `S/cache.rs` | L1 (moka) and Redis | get, set, mget, del, sorted sets, publish, script | two levels written one after the other; Redis may be down | only a race or a lost write leaves a stale entry, and it ends |
| Pub/Sub manager `S/services/pubsub_manager.rs`, streams `S/realtime.rs`, `S/handlers/stream.rs` | a map of broadcast senders, a bridge task each | `subscribe`, bridge loop, stream end | check-then-remove races, reconnects, copies of the map | idle bridges end; nobody joins a dead channel |
| Start and shutdown `S/main.rs`, `S/shutdown.rs`, `S/state.rs`, `S/middleware/inflight.rs` | cancellation token, in-flight counter, tasks, pools | start, signal, graceful stop, drain, close | dropped requests, deadlines, streams that last | it ends, and pools close after the last request |
| Leaderboard refresh `S/tasks/leaderboard_refresh.rs` | sorted sets and typed boards in Redis | periodic rebuild | readers and failures during a rebuild | boards come to agree with the database |
| Front ends `S/server.rs`, `S/handlers/`, `S/extractors/`, `S/grpc/` | none | nine operations on two transports | eighteen hand-made orders of checks | no unauthorised write; both transports judge a request alike, but for named exceptions |
| Configuration, pools `S/config.rs`, `S/db.rs` | read or created once | `from_env`, `from_config` | start fails half-way | see Start and shutdown |

The parts interact by calls only. `like` and `unlike` first pass the token gate and the rate
limiter, then the content gate, then run a transaction of the like store, then write count and
status through to the caches the queries use, delete the user's first pages and publish an
event, which the bridges of the Pub/Sub manager bring to the streams of every replica. Breakers, caches and `pending_fetches` are
shared by all request tasks, which interleave at every `.await`; a client that disconnects
drops its task's future at whichever await it has reached.

## Modules

| Module | Models |
|---|---|
| `CircuitBreaker` | the breaker's record and methods, as operators |
| `BreakerGate` | requests around a breaker: what both gates share, and the breaker's properties |
| `ContentGate`, `ProfileGate` | the two gates: what each does on a cache hit and on a rejection |
| `LikeLedger` | abstract: a set of likes and replies with exact counts |
| `LikeStore` | the transactions, statement by statement; implements `LikeLedger` |
| `RateLimit` | replicas, the Lua script, the sorted set, for one key |
| `CountFetch` | the count cache's coalesced reads against dropped tasks and mutations |
| `LikeViews` | both cache levels, the queries, the cache writes and events of the commands, the leaderboard refresh |
| `FrontEnd` | the checks of every HTTP route and gRPC method, and the errors clients see |
| `SocialApi` | composes `FrontEnd` and `LikeViews`; implements `LikeLedger` |
| `LiveStream` | subscribers, the map of senders, bridges, the end of streams |
| `Lifecycle` | composes `LiveStream` with start, requests in flight, shutdown |
| `*Proofs` | the theorems, one module per component; `BreakerGateProofs` has what both gates' proofs need of the breaker |

The configurations instantiate the modules directly; `PROJECT.json` maps each definition to
the lines it stands for.

### Circuit breaker and gates

`breaker` is the record `Inner`. Each method takes the mutex once and so is one operator
applied in one step. An `Instant` is represented by its age, saturated where the code stops
telling ages apart (`recovery_timeout`, `rate_window`), so time is unbounded and the state
space is not. `consecutive_failures` is saturated at the threshold for the same reason.

A request is `idle`, then `validating` (admitted, in the cache lookup), `remote` (in the
external call), `answered` (the answer is in the cache, the report is to come). A failure is
reported in the step that ends the call, because there is no await in between. `upstream = "up"`
means that the API answers properly within the client's timeout. A cache lookup may miss a
key that is cached, which stands for Redis being down. A request the breaker rejects changes
nothing and has no action. `probes`, `late` and `heard` are history variables: they say which
requests were admitted in the current HalfOpen episode and are still out, how many answers of
older requests were recorded in it, and how many remote answers counted as successes.

### Like store

A session is a call under way; the sessions of one member of `Pools` are those of one replica and
share its writer pool of `PoolSize` connections (`Connected`, `Acquires`). Its `pc` names the statement it has got to; its
writes are applied by `Commit` and until then are visible to others only as locks: a likes row
is locked from the INSERT or DELETE on, the counter's row from the count statement on. An
INSERT that meets an uncommitted row, and a count statement that meets a locked counter, are
simply not enabled. A DELETE of a committed row that another transaction is deleting waits
(`waiting`), because its snapshot is fixed by then: it finds nothing if the other commits, and
starts over if it rolls back. `Abort` stands for every way a transaction can fail. `Commit`
may lose its reply. A call that finds its like gone has committed by then, and asks the pool for a
connection again to read the count (`ReadAfterRemoval`). PostgreSQL's part is external and modelled from the isolation level the
code uses (the default).

`LikeLedger` says what callers may rely on: a change takes effect once and atomically, and
the count in a reply is exact at one moment between call and reply; a change whose reply is
lost still takes effect at most once.

### Rate limiter

A request is stamped with its replica's clock, at most `Skew` off, and the replica's next
sequence number; within `Delay` the script runs on it in one step. The ZSET's member is the
text `now:seq` with score `now`, so the set is a set of pairs. `Deny` may lose its answer, and
`FailOpen` is a script that never ran. The reset header of admitted requests is left out.
`Slack = 2 * Skew + Delay` is how far apart two stamps can be that reach Redis together.

### Count cache

A count is represented by the version of the database row. `st[t][k]` says what task `t` has
still to do about key `k`; `pending[k]` is the task that inserted the entry of
`pending_fetches`. A watch channel is identified by its leader and closes when its last
sender goes: the one in the map, and on the single path the leader's clone. A dropped leader's
clone goes, the one in the map does not.

### Caches, queries and commands (`LikeViews`)

`log` is the sequence of committed versions of table `likes`, for one user; a mutation appends
one in the step that stands for its transaction (`LikeStore` has the statements, and both follow
`LikeLedger`). A task is a request or a refresh cycle. A read is a step for each level it asks:
L1 (`Lookup`), Redis (`ReadRedis`; an error is a miss), filling L1 (`FillL1`), the database
(`ReadDb`, `DbFails`). What is to be written is a list of puts, and each is written to L1
(`WriteL1`) and then to Redis (`WriteRedis`), which may take any part of it. After a commit the
list is `write_count`, `update_status_cache`, `invalidate_user_likes`, then `Publish`; `Dropped` is
the client that leaves anywhere in between. Prefix invalidation has no effect on L1, because the
moka caches are built without `support_invalidation_closures` and the error is discarded; what is
deleted by name goes.

Keys do not interact, so `Init` chooses the key a behaviour follows (`hot`): a count, a status, a
first page with or without a type, a sorted-set board, a typed board. An entry carries the
version it was read from and whether it was out of date when written (`late`), both ghosts.
`walk` is a client that follows `next_cursor` from a first page, cached or not. A row's key in a
cursor is the pair `(created_at, id)`, so the cursor is represented by the row.

### Front ends (`FrontEnd`, `SocialApi`)

A request is an operation and a set of flaws (no token, over its limit, an id that does not parse,
a dependency that is down, ...). A handler is the sequence of its checks, each a flaw and the error
it is refused with; `Outcome` is the first that applies. `Handle` answers the request on one transport. `SocialApi`
lets a command go on to `LikeViews` exactly when some transport serves it (`Served`), and notes in the ghost
`passed` with which flaws that happened. `over_write`, `over_read` and `over_ip` mean that the
limiter refuses the request; a limiter that cannot reach Redis lets it pass, which is no flaw here
(`FailOpen` in `RateLimit`).

The two transports are not the same, and `TransportsAgree` says exactly where they differ:

* a malformed `content_id` in a JSON body (`like` and both batches) is answered 422 by axum's `Json`,
  where the handlers and the specification document 400 and gRPC says `InvalidArgument` (a finding);
* a leaderboard window that is not given is `all` to HTTP and refused by gRPC;
* a public read is charged to the same address by both when that is in `x-forwarded-for`, or in
  `x-real-ip` with the other absent; with a blank `x-forwarded-for` HTTP charges "unknown" and gRPC goes
  on to `x-real-ip`; without either HTTP charges "unknown" and gRPC the peer's address;
* a limit that is given is clamped alike; one that is not is 20 (likes) and 10 (leaderboard) for HTTP,
  while gRPC clamps protobuf's 0 to 1, except that a request without the pagination message gets 20.

### Streams and the life of the process (`LiveStream`, `Lifecycle`)

One Redis channel is followed, with several generations of its broadcast channel (`Chans`).
`subscribe` is cut where it lets go of the map: `FindChannel`, `JoinFound` (the entry is held in
between, so writers wait), `RemoveStale`, `JoinWinner` or `Register`, `SpawnBridge`. A broadcast channel
is closed for its receivers when no sender is left: the one in the map, the bridge's, and those in
the copies of the map that bridges were handed. `Lifecycle` adds `main`: `FromEnv`, `Connect`, `SpawnTasks`,
`BindAndServe` (an `expect` that fails ends the process in each of them; the gRPC port is bound in its own
task, whose failure goes unnoticed). A server takes requests until it notices the token (`HttpCloses`,
`GrpcCloses`), so a stream may still open after the signal; it is down when whatever is open has ended
(`HttpStops`, `GrpcStops`). Then come
`Drained` or `DrainTimeout`, `RefreshAwaited` or `RefreshTimeout`, `ClosePools`. `inflight` counts as
`track_inflight` does, so a dropped HTTP request is never uncounted (`leaks`, a ghost).

## Runs

| Run | Instance | Checks |
|---|---|---|
| `content_gate` | 3 callers, 1 key, thresholds 2, window of at most 4 records, any caller may vanish | the breaker's invariants, `ProbesBounded`, `SuccessesWereHeard`, and the action property `TripsJustified` |
| `profile_recovery` | 2 callers, nobody vanishes, fairness | `ProbeSlotIsHeld`, and `Recovers`: an API that stays up is reached again |
| `like_store` | 2 users, 1 content, 3 calls at 2 replicas with 1 connection each, fairness | exact counter, pending writes, refinement of `LikeLedger`, and `CallsEnd`: a call that got its connection ends |
| `rate_limit` | 1 replica, limit 2, window 2 s of 3 units, skew 1, delay 1 | limit, justified denials, Retry-After |
| `count_fetch` | 2 keys, 2 tasks, no timeouts | entries have leaders, waiters have senders, no key of a batch is left unanswered, everybody is answered |
| `count_dropped` | 1 key, 2 tasks that may be dropped, timeouts, 2 mutations | one leader, answers are counts, everybody is answered |
| `social_api` | 3 contents of 2 types, 2 liked at first, 2 tasks of which one reads and refreshes, 2 timestamps, pages of at most 2 | see below |
| `lifecycle` | 1 HTTP and 1 gRPC client, 2 broadcast channels, 1 reconnect, 1 dropped request, a gRPC client that may not read | `DrainWaitsForLeaksOnly`, `Terminates`, `IdleBridgesEnd` |
| `content_recovery` (violation) | as `profile_recovery`, content gate | `Recovers` fails |
| `rate_limit_replicas` (violation) | 2 replicas, no skew, no delay | `LimitHolds` fails |
| `count_leak` (violation) | 1 key, one task may be dropped | `WaitersHaveSender` fails |
| `stream_stranded` (violation) | 2 subscribers, 2 broadcast channels, 1 reconnect | `NoDeadReuse` fails |

`social_api` starts with every request (an operation and any set of its flaws) at both front ends
(`TransportsAgree`), or with an empty cache and one followed key, where it checks:

* `WritesAuthorised`: no request with a flaw gets as far as a mutation, on either transport;
* `CachedWasTrue`: an entry equals what its key stood for in the version it was read from, so a
  cached full page, a write-through and a batch never mix versions or cut a page wrongly;
* `StaleOnlyByRace`: at rest, an entry is out of date only if it was already when written (a read
  before a mutation, two mutations that write in the other order) or its level missed a write;
* `Converges`: once mutations cease (`MaxVersion`), every entry comes to be right for good;
* `WalkExact`: following cursors shows no like twice and misses none that was there all along;
* `EventsMatchChanges`: an event tells of one change, with the count it left;
* `LedgerSteps`: commands implement `LikeLedger` (`INSTANCE ... WITH` the likes and replies of the user).

What the violations show:

* **`content_recovery`.** `validate_content` asks `allow_request` before the validator looks into
  the cache. If the request that becomes the HalfOpen probe is served from the cache, nothing is
  reported, `probe_in_flight` stays set, and every later request is rejected although the
  Content API is up. The token gate reports cached users and has no such state
  (`profile_recovery`, theorem `SlotIsHeld`). With disconnecting clients both gates have it.
* **`rate_limit_replicas`.** The member's sequence number is unique in one process only. Two
  replicas that stamp in the same millisecond with equal numbers (both start at 0) add one
  entry between them.
* **`count_leak`.** A leader dropped during its query leaves its entry behind. `count_dropped`
  shows that the timeout still gets every reader answered, and `count_fetch` that without
  dropped tasks no timeout is ever needed.

* **`stream_stranded`.** The bridge task is given `channels.clone()`, and a DashMap's clone is a
  copy: the clean-up after a bridge removes the entry of the copy. When a bridge gives up while
  somebody listens, the entry of the dead channel stays in the shared map, and because it has
  receivers, every new subscriber joins it. `IdleBridgesEnd` shows that the other race of this
  code, a stale entry seen and then removed by name, leaves no bridge behind.

Further disagreements without a run (also under "findings" of `PROJECT.json`): a stream's channel
uses the text of the id as the client wrote it, the publisher the canonical one
(`handlers/stream.rs:53`, `like_events.rs:21`); a malformed id in a
JSON body is answered 422, where 400 is documented (`handlers/likes.rs:58`); the drain deadline starts after the servers have
stopped, so it bounds nothing but the wait for dropped requests (`main.rs:127`); the concurrency
limit queues rather than sheds (`server.rs:172`); a corrupt status is reported as "not liked"
rather than treated as a miss (`like_queries.rs:419`).

`DrainWaitsForLeaksOnly` is about requests and streams: the pools close under none of them. The refresh
task is another matter: after `RefreshTimeout` main closes the pools although a cycle may still be running,
whose later queries then fail.

Two comments of the source are also at odds with the model, without a run of their own:
`repositories.rs:24` says the count of `ConcurrentlyRemoved` is 0, while the code rightly reads
it; and the comment at `repositories.rs:164` describes a missing `like_counts` row, which
`PendingFits` excludes. The test message at `circuit_breaker.rs:449`, "exactly one concurrent
probe should be allowed in HalfOpen", is true only as long as no request admitted before the
breaker opened answers during HalfOpen; `ProbesBounded` states what holds in general.

### Bounds and why they are enough

* Breaker: thresholds of 2 let a counter be below, at and reset from its limit; with
  `MinCallsForRate` 3 the rate check trips before and after the streak does; `MaxWindow` bounds
  the outcomes within one `RateWindow` (guard `Roomy`), 4 being one more than the rate check
  needs. Three callers give a probe, a late answer and a bystander.
* Like store: contents interact in no way, so one is enough; two users and three calls give
  conflicts on the row and on the counter at once. One pool has two calls for its one connection, so
  they compete for it; the other replica's call brings the lock conflicts and makes likes vanish.
  The safety properties are proved for every `Pools` and `PoolSize`, so the small pools hide nothing of them.
* Rate limiter: `MaxTime` of one and a half windows lets entries age out and the key expire;
  `MaxSeq` is twice the limit. The run may stop at these bounds, so deadlock is not checked.
* Count cache: a circular wait needs two keys and two tasks; leaks and timeouts need one key.
  `MaxVersion` bounds the committed mutations.

* Views: two tasks give every race of a reader or a refresh with a mutation, and of two mutations;
  the invariants were also checked with both tasks reading (with the same result), `Converges` was not.
  Three contents of two types fill a page of two and leave one row over; two timestamps make ties.
  Three versions are two mutations, enough for a like to go and come back. With one key followed, the
  mutations of other contents matter for pages and boards only (`Mutable`).
* Streams: the races in the map need two subscribers; a third would repeat one of them. Two broadcast
  channels are the registered one and its predecessor; `Register` waits when both are in use. One
  reconnect stands for ten: it is counted, and then used up. `MaxLeaks` bounds dropped requests.
  `lifecycle` and `stream_stranded` may stop (the process exits), so deadlock is not checked.

### Fairness and why the code justifies it

Tasks that can run do run (tokio's scheduler), remote calls and waits end (5 s client timeouts,
`await_shared_count`'s timeout), the clock advances, and requests keep arriving (`Admit` is
fair; `Recovers` says nothing of a service nobody calls). `UpstreamFlips`, cache expiry,
disconnects and mutations have no fairness. In `like_store`, a call whose next statement is
possible again and again executes it at last (strong fairness): PostgreSQL queues the waiters of a
lock and sqlx those of a pool. New calls, failures and rollbacks are not fair, and neither
`acquire_timeout` nor a lock timeout is relied on. In `count_fetch`, `Timeouts` is `FALSE`: liveness
there does not lean on the timeout.

In `social_api`, tasks are polled, TTLs run out, and for boards, whose sorted set has no TTL, the
refresh task wakes up again and again and Redis does not fail its writes for ever: strong fairness
of `Cycle` and `Reached`, which the endless loop of `spawn_leaderboard_refresh` justifies as long as
Redis comes back. No request, failure or drop is fair. In `lifecycle`, `main` and the tasks are polled, requests are
answered, a Redis connection attempt ends one way or the other, and a client that is not in `Slow`
reads its stream. The signal is not fair: `Terminates` is about what follows it.

## Proofs

All theorems are for every value of the constants that satisfies the named assumptions
(`BreakerAssumption`, `GateAssumption`, `StoreAssumption`, `RateAssumption`, `FetchAssumption`,
`ViewsAssumption`, `ReadersAssumption`, `StreamAssumption`, `LifecycleAssumption`): any number of tasks, contents, replicas
and versions, any page size, limit, window and threshold.

**`LikeStoreProofs`.** `CountsMatchLikes` is not inductive: `Commit` overwrites the counter with a
number computed earlier. The inductive invariant `IInv` adds `LocksExclusive` (nobody else
writes the row or counter a session has written), `PendingFits` (the pending count is one off
the committed one, the pending row is really absent or present) and `CountHasRow` (a liked
content has a counter row). Most steps leave the tables and the pending data alone
(`QuietStep`); `CommitStep` is the heart, with one lemma each for adding and removing a liker
(`AddLiker`, `RemoveLiker`). From it follow `CountsExact`, `TransactionsFit` and, with the
invariant that a session in a call has no reply yet, `Refinement`: every step is a ledger step
or a stutter. `LocksExclusive` restates what PostgreSQL's locks give and is only a part of the invariant.

**`BreakerGateProofs`, `ContentGateProofs`, `ProfileGateProofs`.** `Sound(b)`
collects what every record of the breaker satisfies: type, the counters' relation to the state,
the failure time of an open breaker, the window's order and the streak it must show. Each
operator preserves it; the window lemmas say that `PushCall` keeps a suffix and appends.
`GateInv` adds that the probes of an episode are bounded (`ProbesCounted`: a free slot means one
fewer probe out than the bound allows). The gates' theorems follow with one step per action.
`SlotIsHeld` assumes `Disconnects = {}`, without which it is false.
`TripsAreJustified` is an action property: `PushCall` prunes exactly what is older than the window
(`PruningExact`), so what `should_trip` counts is what is fresh (`TripEvidence`), and no other step
of a gate opens a closed breaker (`GateTrips`).

**`RateLimitProofs`.** `RateInv` says of the requests under way and let through that stamps are off by at
most `Skew` (`Stamped`), that nothing takes longer than `Delay` (`Prompt`) and that a replica numbers its requests
apart (`Numbered`); of the sorted set that every member was let through (`Backed`), that the key
outlives every window (`OutlivesWindow`), and, the heart, that no request is dropped from it while some clock can still
count it (`Kept`): without the last, `Allow` could count too few. `CountsOwn` then shows that the
script counts every request of the same replica that can share a window with the new one, each by a member
of its own. That is `EachReplicaLimited`, and `LimitKept` if there is one replica (its hypothesis, which run
`rate_limit_replicas` shows to be needed). `DenialsAreJustified` uses `Backed` in the other direction;
`RetryAfterIsEnough` is arithmetic about the oldest entry.

**`CountFetchProofs`.** `SoleLeader` is inductive with the types. `AnswersAreCounts` follows from
`WasRead`: whatever is cached, being written through or held by a task in a status or stage that has a
value is no newer than the row (`ValueStep` says which steps keep it), and from `Settled`: a task that has
returned has no key left to fetch or to wait for (`SettledStep`, with `OneKey`: a single read is about one key). `NoLostWakeUp` assumes `Cancels = {}`,
without which it is false (`count_leak`). Its invariant `FetchInv` adds `AtWork` (a leader with an entry or a
sender has not returned) and `OneKey`; `WaitStep` isolates what a step owes to those who wait.

**`LifecycleProofs`.** `DrainWaitsForLeaksOnly` needs: `InflightExact` (the counter is the leaks plus the
HTTP requests whose handler has not returned), `ClientsAreServed` (a server that is neither up nor closing has no client)
and `ServersFollowMain` (after `serve` both servers are down, and HTTP closes for the token only), besides the
streams' own invariant that who has no stream holds no receiver.

**`SocialApiProofs`.** None of the properties of `SocialApi` is inductive, because values travel: from the
database into a task, from a task into L1 and Redis, from Redis into a task and L1. `ApiInv` says the same of all places:

* `VersionsOK`: every version is a table (finite, one row per content and per id), and ids grow with versions;
* `CachesOK`, `TasksOK`: whatever is cached, held or still to be written was the truth of its version
  (`Was`), and an event that is due tells of the change that made its version (`Told`);
* `WalkOK`: the pages shown are disjoint and lie before the cursor, and every row that was there all the time
  has been shown or lies behind it.

The first part of the module is about the order of the rows: `Newest(S, n)` is cut by counting the rows that are newer,
and from the fact that this rank is a bijection onto an interval (`RankBijective`, from finite cardinalities, without
induction over sequences) follow its size, that cutting twice is cutting once, and that the oldest row of a page
separates the page from the rest (`NewestSize`, `NewestOfNewest`, `CursorCuts`). So a query for one row more computes
`has_more` and the page exactly (`FirstPageExact`), and a cache miss loads the truth (`LoadIsTruth`). Then there is a lemma per
action; what was true of a version stays true when the log grows (`WasExtends`, `TaskExtends`, `WalkExtends`).
`TypeCorrect`, `CacheEntriesWereTrue`, `WalksAreExact` and `EventsTellChanges` follow from `ApiInv`.

`StaleByRaceOnly` needs a second invariant, `Covered` (checked with TLC before it was proved): at every moment, not only at
rest, an entry out of date was written late, or its level lost a write, or a command that has committed has that level
still before it (`OwesL1`, `OwesL2`). Its core is `TruthElsewhere` with `CommandWrites`: a mutation of a content changes what
a key shows only if the key is one of the four the command writes or invalidates.

`FollowsLedger` shows that each step is a step of `LikeLedger` on the user's likes and the replies. `TransportsAlike` and
`OnlyAuthorisedWrites` rest on `HandlerChecks`: each of the eighteen handlers catches exactly the flaws its operation
`Requires` (the gRPC leaderboard also a missing window), and the ones that need a token check for it first; `FirstRefusal` says what the
answer is then, `IdErrors` which handlers leave a malformed id to axum's `Json`, and `FrontAgrees` puts the exact differences together.

### Only model-checked

Liveness (`Recovers`, `CallsEnd`, `AllAnswered`, `Converges`, `Terminates`, `IdleBridgesEnd`), which this prover does not reach.
Every invariant and every action property of the passing runs is also a theorem: `LimitHolds` for one replica,
`WaitersHaveSender` and `EntryHasLeader` without dropped tasks and `ProbeSlotIsHeld` without disconnecting clients,
the hypotheses the violation runs show to be needed.

## Not modelled

* What goes through a stream that stays open: payloads, heartbeats, messages skipped by a receiver
  that fell behind. The broadcast channel never makes its sender wait, so nothing else depends on it.
* The concurrency limit (requests wait in front of everything else) and waiting for connections of the
  reader pool and of Redis; `LikeStore` has the writer pool's.
* The L1 of other replicas (each is a further cache level with the same TTL and no invalidation
  from outside) and the lag of a read replica behind the writer.
* Rows that slide out of a leaderboard's time window during a behaviour, and the all-time board's
  rows with a count of zero.
* Texts: UUIDs, timestamps, cursors' base64, JSON and protobuf layout, the wording of errors.
* Health, metrics, logging, request ids (they are observed, not read, by the rest), the OpenAPI
  description and the mock services.

## Plan

Done: breaker and gates, like store with its refinement, rate limiter, count cache, caches and
queries with the front ends, streams and the life of the process.

Every safety property of a passing run is proved. Left:

1. Safety of `LiveStream` in its own right: which subscribers can be stranded, and that a registered channel has a bridge as
   long as no bridge gives up (the run `stream_stranded` shows what fails otherwise).
2. The refinement of `LikeLedger` by `LikeStore` and `SocialApi` is proved separately; their composition (a mutation of
   `LikeViews` is the commit of a session of `LikeStore`) is stated in prose only.
