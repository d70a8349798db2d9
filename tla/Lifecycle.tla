----------------------------- MODULE Lifecycle ------------------------------
(***************************************************************************)
(* The process from main.rs: configuration, pools, application state,      *)
(* background tasks, the HTTP and the gRPC server, and the shutdown that a *)
(* signal starts (shutdown.rs), composed with the like event streams of    *)
(* LiveStream, whose clients keep a server from stopping.                  *)
(*                                                                         *)
(* A server that notices the token accepts nothing more and ends when its  *)
(* last request and stream have ended; nothing bounds that wait.  Only     *)
(* afterwards main reads the in-flight count of middleware/inflight.rs,    *)
(* which a request dropped halfway (its client went away) leaves too high. *)
(***************************************************************************)
EXTENDS LiveStream

CONSTANTS
  Slow,      \* clients that may stop reading their stream
  MaxLeaks   \* requests dropped halfway

ASSUME LifecycleAssumption ==
  /\ Slow \subseteq Subs
  /\ MaxLeaks \in Nat

VARIABLES
  phase,     \* where main is
  http,      \* the two servers: "off", "up", "closing", "down"
  grpc,
  inflight,  \* AppState's inflight_count
  refresh,   \* the leaderboard refresh task: "off", "run", "over"
  leaks      \* ghost: the HTTP requests dropped halfway so far

mainVars == <<phase, http, grpc>>
lifeVars == <<mainVars, refresh, inflight, leaks>>
vars == <<streamVars, lifeVars>>

Phases == {"config", "infra", "tasks", "bind", "serve", "drain", "refresh",
           "close", "exit", "panic"}
Gone == phase \in {"exit", "panic"}
Drainable == {"drain", "refresh", "close", "exit"}

Init ==
  /\ StreamInit
  /\ phase = "config"
  /\ http = "off" /\ grpc = "off"
  /\ inflight = 0
  /\ refresh = "off"
  /\ leaks = 0

-----------------------------------------------------------------------------
(* Start.  A step that fails is an expect: main panics and the process     *)
(* ends with all its tasks.                                                *)

Proceed(from, to) ==
  /\ phase = from
  /\ phase' \in {to, "panic"}
  /\ UNCHANGED <<streamVars, http, grpc, refresh, inflight, leaks>>

(* A required variable that is missing panics; the others have defaults.   *)
FromEnv == Proceed("config", "infra")

(* The two pools, the migrations and the Redis pool.                       *)
Connect == Proceed("infra", "tasks")

(* AppState::new falls back to HTTP validators when gRPC ones cannot       *)
(* connect, but expects an HTTP client; then the two tasks are spawned.    *)
SpawnTasks ==
  /\ phase = "tasks"
  /\ \/ phase' = "bind" /\ refresh' = "run"
     \/ phase' = "panic" /\ UNCHANGED refresh
  /\ UNCHANGED <<streamVars, http, grpc, inflight, leaks>>

(* The HTTP port is bound in main, the gRPC port in the task that serves:  *)
(* a failure there panics that task alone, and main ignores how it ended.  *)
BindAndServe ==
  /\ phase = "bind"
  /\ \/ /\ phase' = "serve"
        /\ http' = "up" /\ grpc' \in {"up", "down"}
     \/ /\ phase' = "panic"
        /\ UNCHANGED <<http, grpc>>
  /\ UNCHANGED <<streamVars, refresh, inflight, leaks>>

-----------------------------------------------------------------------------
(* Signals, requests and streams.                                          *)

Signal ==
  /\ phase # "config" /\ ~Gone
  /\ Cancel
  /\ UNCHANGED lifeVars

Server(s) == IF s \in Grpc THEN grpc ELSE http
Serves(s) == Server(s) \in {"up", "closing"}

(* track_inflight counts HTTP requests from their arrival until the        *)
(* handler returns, which for SSE is before the body is polled.            *)
RequestStarts(s) ==
  /\ Server(s) = "up" /\ Open(s)
  /\ inflight' = IF s \in Grpc THEN inflight ELSE inflight + 1
  /\ UNCHANGED <<mainVars, refresh, leaks>>

\* Mutant: every request that ends is uncounted, gRPC ones too.
RequestEndsUncounted(s) ==
  /\ Serves(s)
  /\ Answer(s) \/ FindChannel(s)
  /\ inflight' = inflight - 1
  /\ UNCHANGED <<mainVars, refresh, leaks>>

RequestEnds(s) ==
  /\ Serves(s)
  /\ Answer(s) \/ FindChannel(s)
  /\ inflight' = IF s \in Grpc THEN inflight ELSE inflight - 1
  /\ UNCHANGED <<mainVars, refresh, leaks>>

(* The client goes away and the server drops the future at its await: the  *)
(* decrement after it never runs.                                          *)
RequestDropped(s) ==
  /\ Serves(s) /\ pc[s] = "open"
  /\ s \in Grpc \/ leaks < MaxLeaks
  /\ Disconnect(s)
  /\ leaks' = IF s \in Grpc THEN leaks ELSE leaks + 1
  /\ UNCHANGED <<mainVars, refresh, inflight>>

StreamStep(s) ==
  /\ Serves(s) /\ pc[s] # "open"
  /\ Subscribing(s) \/ Streaming(s) \/ Disconnect(s)
  /\ UNCHANGED lifeVars

(* Bridges are detached: they go on until the process ends.                *)
BridgeStep(c) ==
  /\ ~Gone
  /\ Bridging(c) \/ Redis(c)
  /\ UNCHANGED lifeVars

-----------------------------------------------------------------------------
(* Shutdown.                                                               *)

Busy(srv) == \E s \in Subs : pc[s] # "idle" /\ (s \in Grpc <=> srv = "grpc")

HttpCloses ==
  /\ http = "up" /\ token
  /\ http' = "closing"
  /\ UNCHANGED <<streamVars, phase, grpc, refresh, inflight, leaks>>

GrpcCloses ==
  /\ grpc = "up" /\ token
  /\ grpc' = "closing"
  /\ UNCHANGED <<streamVars, phase, http, refresh, inflight, leaks>>

HttpStops ==
  /\ http = "closing" /\ ~Busy("http")
  /\ http' = "down"
  /\ UNCHANGED <<streamVars, phase, grpc, refresh, inflight, leaks>>

GrpcStops ==
  /\ grpc = "closing" /\ ~Busy("grpc")
  /\ grpc' = "down"
  /\ UNCHANGED <<streamVars, phase, http, refresh, inflight, leaks>>

Advance(from, to) ==
  /\ phase = from
  /\ phase' = to
  /\ UNCHANGED <<streamVars, http, grpc, refresh, inflight, leaks>>

\* Mutant: main goes on as soon as the HTTP server has stopped.
ServersJoinedFirst == http = "down" /\ Advance("serve", "drain")

ServersJoined == http = "down" /\ grpc = "down" /\ Advance("serve", "drain")

(* The deadline starts when the servers have stopped.                      *)
Drained == inflight = 0 /\ Advance("drain", "refresh")
DrainTimeout == inflight # 0 /\ Advance("drain", "refresh")

(* The refresh task looks at the token between cycles only.                *)
RefreshStops ==
  /\ refresh = "run" /\ token /\ ~Gone
  /\ refresh' = "over"
  /\ UNCHANGED <<streamVars, mainVars, inflight, leaks>>

(* It is waited for, but not beyond a timeout; the pool metrics task, which *)
(* touches nothing shared, is waited for in the same way.                   *)
RefreshAwaited == refresh = "over" /\ Advance("refresh", "close")
RefreshTimeout == refresh = "run" /\ Advance("refresh", "close")
ClosePools == Advance("close", "exit")

-----------------------------------------------------------------------------
Startup == FromEnv \/ Connect \/ SpawnTasks \/ BindAndServe
Stopping ==
  \/ HttpCloses \/ GrpcCloses \/ HttpStops \/ GrpcStops
  \/ ServersJoined \/ Drained \/ DrainTimeout
  \/ RefreshStops \/ RefreshAwaited \/ RefreshTimeout \/ ClosePools

Next ==
  \/ Startup \/ Signal \/ Stopping
  \/ \E s \in Subs : \/ RequestStarts(s) \/ RequestEnds(s) \/ RequestDropped(s)
                     \/ StreamStep(s)
  \/ \E c \in Chans : BridgeStep(c)

(* main and the tasks are polled, requests are answered, Redis answers or  *)
(* fails; a client that reads lets its stream run.  A slow client may not. *)
Fairness ==
  /\ WF_vars(Startup \/ Stopping)
  /\ \A s \in Subs :
       /\ WF_vars(\/ RequestEnds(s)
                  \/ StreamStep(s) /\ Subscribing(s))
       /\ s \notin Slow =>
            WF_vars(StreamStep(s) /\ StreamShutdown(s))
  /\ \A c \in Chans :
       WF_vars(/\ ~Gone /\ UNCHANGED lifeVars
               /\ Bridging(c) \/ Connected(c) \/ ConnectFails(c))

Spec == Init /\ [][Next]_vars /\ Fairness

-----------------------------------------------------------------------------
(* Types; inflight_count is an AtomicUsize and must not wrap below zero.   *)
TypeOK ==
  /\ token \in BOOLEAN
  /\ reg \in Chans \cup {NoChan}
  /\ pc \in [Subs -> PC]
  /\ rx \in [Subs -> Chans \cup {NoChan}]
  /\ bridge \in [Chans -> Stages]
  /\ attempt \in [Chans -> 0..MaxAttempts]
  /\ copy \in [Chans -> Chans \cup {NoChan}]
  /\ phase \in Phases
  /\ {http, grpc} \subseteq {"off", "up", "closing", "down"}
  /\ inflight \in 0..Cardinality(Subs) + MaxLeaks
  /\ refresh \in {"off", "run", "over"}
  /\ leaks \in 0..MaxLeaks

(* The pools are closed under no request and no stream, and the drain wait *)
(* of main is for nobody: once both servers have stopped none is left, so  *)
(* whatever main still counts as in flight are requests whose futures were *)
(* dropped, which will never be uncounted.  The refresh task is another    *)
(* matter: main gives up waiting for it after a timeout.                   *)
DrainWaitsForLeaksOnly ==
  phase \in Drainable =>
    /\ token
    /\ \A s \in Subs : pc[s] = "idle" /\ rx[s] = NoChan
    /\ inflight = leaks

(* A signal ends the process, at whatever stage of start-up, serving or    *)
(* streaming it arrives: nobody waits for anybody forever, except the      *)
(* graceful stop of a server for a client that does not read its stream.   *)
Terminates == token ~> (Gone \/ \E s \in Slow : pc[s] = "streaming")

(* A bridge without receivers ends, with its Redis connection, also when   *)
(* its registration was removed or replaced under it (the race between     *)
(* seeing a stale entry and removing it).                                  *)
IdleBridgesEnd ==
  \A c \in Chans :
    ~Over(c) /\ Receivers(c) = {} ~> (Over(c) \/ Receivers(c) # {} \/ Gone)

=============================================================================
