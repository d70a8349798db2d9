----------------------------- MODULE LiveStream -----------------------------
(***************************************************************************)
(* PubSubManager of services/pubsub_manager.rs and the like event streams  *)
(* of realtime.rs, handlers/stream.rs and the gRPC StreamLikes: clients of *)
(* one Redis channel share a tokio broadcast channel that a bridge task    *)
(* feeds from Redis.                                                       *)
(*                                                                         *)
(* The channels map is a DashMap inside the manager's Arc.  The bridge     *)
(* task is handed channels.clone(), and cloning a DashMap copies it: the   *)
(* clean-up after a bridge works on that copy, which dies with the task.   *)
(* A broadcast channel is closed for its receivers once no sender is left: *)
(* the one in the map, the bridge's own, and the ones in such copies.      *)
(*                                                                         *)
(* Messages and heartbeats change none of this and are left out: the       *)
(* broadcast channel never makes its sender wait, and a receiver that fell *)
(* behind skips what it missed and goes on.                                *)
(***************************************************************************)
EXTENDS Integers, FiniteSets

CONSTANTS
  Subs,         \* clients that send requests and open streams
  Grpc,         \* those of them that use gRPC
  Chans,        \* names for the broadcast channels alive at one time
  MaxAttempts,  \* MAX_RECONNECT_ATTEMPTS
  NoChan

ASSUME StreamAssumption ==
  /\ IsFiniteSet(Subs)
  /\ Grpc \subseteq Subs
  /\ MaxAttempts \in Nat
  /\ NoChan \notin Chans

VARIABLES
  token,    \* whether the shutdown token is cancelled
  reg,      \* the sender the channels map holds for this channel, or NoChan
  pc,       \* where each client's request or stream is
  rx,       \* the broadcast channel each client has a receiver of
  bridge,   \* where the bridge task of each channel is
  attempt,  \* its reconnect attempts so far
  copy      \* the sender in the copy of the map it was handed

clientVars == <<pc, rx>>
bridgeVars == <<bridge, attempt, copy>>
streamVars == <<token, reg, pc, rx, bridge, attempt, copy>>

PC == {"idle", "open", "join", "stale", "create", "spawn", "streaming"}

(* done and gaveup: the task is over.  Unsubscribing from Redis takes at   *)
(* most two seconds and delays what follows a connection, nothing else.    *)
Stages == {"none", "check", "connect", "forward", "backoff", "done", "gaveup"}

Ended == {"done", "gaveup"}

StreamInit ==
  /\ token = FALSE
  /\ reg = NoChan
  /\ pc = [s \in Subs |-> "idle"]
  /\ rx = [s \in Subs |-> NoChan]
  /\ bridge = [c \in Chans |-> "none"]
  /\ attempt = [c \in Chans |-> 0]
  /\ copy = [c \in Chans |-> NoChan]

Receivers(c) == {s \in Subs : rx[s] = c}
Over(c) == bridge[c] \in Ended \cup {"none"}
Spawning(c) == \E s \in Subs : pc[s] = "spawn" /\ rx[s] = c
HasSender(c) ==
  \/ reg = c \/ ~Over(c) \/ Spawning(c)
  \/ \E d \in Chans : ~Over(d) /\ copy[d] = c
Unused(c) == ~HasSender(c) /\ Receivers(c) = {}

-----------------------------------------------------------------------------
(* A request arrives: the servers take it until they notice the token.     *)
Open(s) ==
  /\ pc[s] = "idle"
  /\ pc' = [pc EXCEPT ![s] = "open"]
  /\ UNCHANGED <<token, reg, rx, bridgeVars>>

(* It is answered, or it is like_stream or StreamLikes and subscribes: the *)
(* SSE body when it is first polled, gRPC in the handler.                  *)
Answer(s) ==
  /\ pc[s] = "open"
  /\ pc' = [pc EXCEPT ![s] = "idle"]
  /\ UNCHANGED <<token, reg, rx, bridgeVars>>

(* subscribe.  It never awaits, so a client cannot leave in the middle.    *)
(* Between looking at receiver_count and subscribing it holds the entry of *)
(* the map (stage join): others can read it then, not write it.            *)
Writable == \A s \in Subs : pc[s] # "join"

Join(s, c) ==
  /\ rx' = [rx EXCEPT ![s] = c]
  /\ pc' = [pc EXCEPT ![s] = "streaming"]

FindChannel(s) ==
  /\ pc[s] = "open"
  /\ \/ /\ reg = NoChan
        /\ pc' = [pc EXCEPT ![s] = "create"]
     \/ /\ reg # NoChan
        /\ pc' = [pc EXCEPT ![s] = IF Receivers(reg) = {} THEN "stale" ELSE "join"]
  /\ UNCHANGED <<token, reg, rx, bridgeVars>>

JoinFound(s) ==
  /\ pc[s] = "join"
  /\ Join(s, reg)
  /\ UNCHANGED <<token, reg, bridgeVars>>

(* The entry was let go: the removal is by name and takes whatever is      *)
(* registered now.                                                         *)
RemoveStale(s) ==
  /\ pc[s] = "stale" /\ Writable
  /\ reg' = NoChan
  /\ pc' = [pc EXCEPT ![s] = "create"]
  /\ UNCHANGED <<token, rx, bridgeVars>>

JoinWinner(s) ==
  /\ pc[s] = "create" /\ reg # NoChan /\ Writable
  /\ Join(s, reg)
  /\ UNCHANGED <<token, reg, bridgeVars>>

Register(s) ==
  /\ pc[s] = "create" /\ reg = NoChan /\ Writable
  /\ \E c \in Chans : Unused(c)
  /\ LET c == CHOOSE d \in Chans : Unused(d) IN
       /\ reg' = c
       /\ rx' = [rx EXCEPT ![s] = c]
       /\ bridge' = [bridge EXCEPT ![c] = "none"]
  /\ pc' = [pc EXCEPT ![s] = "spawn"]
  /\ UNCHANGED <<token, attempt, copy>>

(* The copy of the map is taken after the entry was released.              *)
SpawnBridge(s) ==
  /\ pc[s] = "spawn"
  /\ bridge' = [bridge EXCEPT ![rx[s]] = "check"]
  /\ attempt' = [attempt EXCEPT ![rx[s]] = 0]
  /\ copy' = [copy EXCEPT ![rx[s]] = reg]
  /\ pc' = [pc EXCEPT ![s] = "streaming"]
  /\ UNCHANGED <<token, reg, rx>>

-----------------------------------------------------------------------------
(* create_like_event_stream and the two handlers that consume it.          *)

EndStream(s) ==
  /\ pc' = [pc EXCEPT ![s] = "idle"]
  /\ rx' = [rx EXCEPT ![s] = NoChan]
  /\ UNCHANGED <<token, reg, bridgeVars>>

\* Mutant: only gRPC streams look at the token.
StreamShutdownGrpc(s) ==
  /\ pc[s] = "streaming" /\ token /\ s \in Grpc
  /\ EndStream(s)

StreamShutdown(s) ==
  /\ pc[s] = "streaming" /\ token
  /\ EndStream(s)

(* SSE just ends; gRPC sends a shutdown event first.                       *)
StreamClosed(s) ==
  /\ pc[s] = "streaming" /\ ~HasSender(rx[s])
  /\ EndStream(s)

Disconnect(s) ==
  /\ pc[s] \in {"open", "streaming"}
  /\ EndStream(s)

-----------------------------------------------------------------------------
(* run_bridge_with_reconnect and run_single_connection.                    *)

(* A task that is over has dropped its counter and its copy of the map.    *)
Move(c, stage, tries) ==
  /\ bridge' = [bridge EXCEPT ![c] = stage]
  /\ attempt' = [attempt EXCEPT ![c] = IF stage \in Ended THEN 0 ELSE tries]
  /\ copy' = [copy EXCEPT ![c] = IF stage \in Ended THEN NoChan ELSE @]
  /\ UNCHANGED <<token, reg, clientVars>>

Go(c, stage) == Move(c, stage, attempt[c])

BridgeCheck(c) ==
  /\ bridge[c] = "check"
  /\ Go(c, IF token \/ Receivers(c) = {} THEN "done" ELSE "connect")

Connected(c) ==
  /\ bridge[c] = "connect"
  /\ Go(c, "forward")

Retry(c) ==
  IF attempt[c] + 1 > MaxAttempts THEN Go(c, "gaveup")
  ELSE Move(c, "backoff", attempt[c] + 1)

ConnectFails(c) ==
  /\ bridge[c] = "connect"
  /\ Retry(c)

\* Mutant: an idle bridge keeps waiting while it is the registered one.
IdleCheckStale(c) ==
  /\ bridge[c] = "forward" /\ Receivers(c) = {} /\ reg # c
  /\ Go(c, "done")

(* The idle check at the top of the loop, reached at least every           *)
(* IDLE_CHECK_INTERVAL.                                                    *)
IdleCheck(c) ==
  /\ bridge[c] = "forward" /\ Receivers(c) = {}
  /\ Go(c, "done")

BridgeShutdown(c) ==
  /\ bridge[c] = "forward" /\ token
  /\ Go(c, "done")

StreamLost(c) ==
  /\ bridge[c] = "forward"
  /\ Retry(c)

(* Backoff is cut short by the token, and nobody listening ends it too;    *)
(* the loop starts over with the same two checks.                          *)
BackoffOver(c) ==
  /\ bridge[c] = "backoff"
  /\ Go(c, IF token \/ Receivers(c) = {} THEN "done" ELSE "connect")

-----------------------------------------------------------------------------
Subscribing(s) ==
  \/ FindChannel(s) \/ JoinFound(s) \/ RemoveStale(s) \/ JoinWinner(s)
  \/ Register(s) \/ SpawnBridge(s)
Streaming(s) == StreamShutdown(s) \/ StreamClosed(s)
Bridging(c) ==
  \/ BridgeCheck(c) \/ IdleCheck(c) \/ BridgeShutdown(c) \/ BackoffOver(c)
Redis(c) == Connected(c) \/ ConnectFails(c) \/ StreamLost(c)

Cancel ==
  /\ ~token
  /\ token' = TRUE
  /\ UNCHANGED <<reg, clientVars, bridgeVars>>

StreamNext ==
  \/ Cancel
  \/ \E s \in Subs : \/ Open(s) \/ Answer(s) \/ Subscribing(s)
                     \/ Streaming(s) \/ Disconnect(s)
  \/ \E c \in Chans : Bridging(c) \/ Redis(c)

(* The runtime polls every task that is ready; Redis answers or fails.     *)
StreamFairness ==
  /\ \A s \in Subs : WF_streamVars(Subscribing(s)) /\ WF_streamVars(Streaming(s))
  /\ \A c \in Chans :
       /\ WF_streamVars(Bridging(c))
       /\ WF_streamVars(Connected(c) \/ ConnectFails(c))

StreamSpec == StreamInit /\ [][StreamNext]_streamVars /\ StreamFairness

(* "Clean up our sender registration after the bridge exits so future      *)
(* subscribers cannot reuse a dead sender after reconnect exhaustion"      *)
(* (pubsub_manager.rs): no subscriber finds the sender of a bridge that    *)
(* gave up.  The clean-up works on a copy of the map, so one does.         *)
NoDeadReuse ==
  [][\A s \in Subs :
       pc[s] = "open" /\ pc'[s] = "join" => bridge[reg] # "gaveup"]_streamVars

=============================================================================
