-------------------------- MODULE LifecycleProofs --------------------------
(***************************************************************************)
(* Lifecycle, for any number of clients, channels and reconnects: types,   *)
(* and that main closes its pools under no client and waits for none.      *)
(***************************************************************************)
EXTENDS Lifecycle, FiniteSetTheorems, TLAPS

(* What the variables of LiveStream satisfy: types, and a client without a *)
(* stream holds no receiver.                                               *)
StreamInv ==
  /\ token \in BOOLEAN
  /\ reg \in Chans \cup {NoChan}
  /\ pc \in [Subs -> PC]
  /\ rx \in [Subs -> Chans \cup {NoChan}]
  /\ bridge \in [Chans -> Stages]
  /\ attempt \in [Chans -> 0..MaxAttempts]
  /\ copy \in [Chans -> Chans \cup {NoChan}]
  /\ \A s \in Subs : pc[s] \in {"idle", "open"} => rx[s] = NoChan
  /\ \A s \in Subs : pc[s] = "join" => reg # NoChan
  /\ \A s \in Subs : pc[s] = "spawn" => rx[s] # NoChan

MainTypes ==
  /\ phase \in Phases
  /\ {http, grpc} \subseteq {"off", "up", "closing", "down"}
  /\ refresh \in {"off", "run", "over"}
  /\ leaks \in 0..MaxLeaks

(* The HTTP requests whose handler has not returned.                       *)
Counted == {s \in Subs \ Grpc : pc[s] = "open"}
InflightExact == inflight = leaks + Cardinality(Counted)

(* Only a server that is up or closing has clients.                        *)
ClientsAreServed == \A s \in Subs : pc[s] # "idle" => Serves(s)

(* The servers are off before main serves and down after it; the HTTP      *)
(* server closes only for the token.                                       *)
ServersFollowMain ==
  /\ phase \in {"config", "infra", "tasks", "bind"} => http = "off" /\ grpc = "off"
  /\ phase \in Drainable => http = "down" /\ grpc = "down"
  /\ http \in {"closing", "down"} => token

IInv ==
  /\ StreamInv
  /\ MainTypes
  /\ InflightExact
  /\ ClientsAreServed
  /\ ServersFollowMain

-----------------------------------------------------------------------------
(* Steps of LiveStream.                                                    *)

\* A client's step inside subscribe or its stream keeps the streams' invariant.
LEMMA ClientKeepsStreams ==
  ASSUME StreamInv, NEW s \in Subs,
         \/ Open(s) \/ Answer(s) \/ Subscribing(s) \/ Streaming(s) \/ Disconnect(s)
  PROVE  StreamInv'
<1> USE StreamAssumption DEF StreamInv, PC
<1>1. CASE Open(s)
  BY <1>1 DEF Open, bridgeVars
<1>2. CASE Answer(s)
  BY <1>2 DEF Answer, bridgeVars
<1>3. CASE FindChannel(s)
  BY <1>3 DEF FindChannel, bridgeVars
<1>4. CASE JoinFound(s)
  BY <1>4 DEF JoinFound, Join, bridgeVars
<1>5. CASE RemoveStale(s)
  BY <1>5 DEF RemoveStale, Writable, bridgeVars
<1>6. CASE JoinWinner(s)
  BY <1>6 DEF JoinWinner, Join, bridgeVars
<1>7. CASE Register(s)
  <2> DEFINE c == CHOOSE d \in Chans : Unused(d)
  <2>1. c \in Chans
    BY <1>7 DEF Register
  <2>2. /\ reg' = c
        /\ rx' = [rx EXCEPT ![s] = c]
        /\ bridge' = [bridge EXCEPT ![c] = "none"]
        /\ pc' = [pc EXCEPT ![s] = "spawn"]
        /\ UNCHANGED <<token, attempt, copy>>
    BY <1>7 DEF Register
  <2> HIDE DEF c
  <2> QED
    BY <2>1, <2>2 DEF Stages
<1>8. CASE SpawnBridge(s)
  <2>1. rx[s] \in Chans
    BY <1>8 DEF SpawnBridge
  <2> QED
    BY <1>8, <2>1 DEF SpawnBridge, Stages
<1>9. CASE Streaming(s) \/ Disconnect(s)
  BY <1>9 DEF Streaming, StreamShutdown, StreamClosed, Disconnect, EndStream, bridgeVars
<1> QED
  BY <1>1, <1>2, <1>3, <1>4, <1>5, <1>6, <1>7, <1>8, <1>9 DEF Subscribing

\* So does a bridge's, which touches no client.
LEMMA BridgeKeepsStreams ==
  ASSUME StreamInv, NEW c \in Chans, Bridging(c) \/ Redis(c)
  PROVE  StreamInv' /\ UNCHANGED <<token, reg, pc, rx>>
<1>1. \E stage \in Stages, tries \in 0..MaxAttempts : Move(c, stage, tries)
  BY StreamAssumption DEF StreamInv, Bridging, Redis, BridgeCheck, IdleCheck,
     BridgeShutdown, BackoffOver, Connected, ConnectFails, StreamLost, Retry, Go,
     Stages, Ended
<1>2. PICK stage \in Stages, tries \in 0..MaxAttempts : Move(c, stage, tries)
  BY <1>1
<1> QED
  BY <1>2, StreamAssumption DEF StreamInv, Move, clientVars

\* A client inside subscribe or its stream was not counted and will not be.
LEMMA StreamsAreUncounted ==
  ASSUME StreamInv, NEW s \in Subs, pc[s] # "open",
         Subscribing(s) \/ Streaming(s) \/ Disconnect(s)
  PROVE  Counted' = Counted
         /\ token' = token
         /\ \A r \in Subs : r # s => pc'[r] = pc[r]
<1>1. \E v \in PC \ {"open"} : pc' = [pc EXCEPT ![s] = v]
  BY DEF PC, Subscribing, FindChannel, JoinFound, RemoveStale, JoinWinner, Join,
     Register, SpawnBridge, Streaming, StreamShutdown, StreamClosed, Disconnect, EndStream
<1>2. token' = token
  BY DEF Subscribing, FindChannel, JoinFound, RemoveStale, JoinWinner, Register,
     SpawnBridge, Streaming, StreamShutdown, StreamClosed, Disconnect, EndStream
<1> QED
  BY <1>1, <1>2 DEF Counted, StreamInv

\* Counting makes sense: the clients are finitely many.
LEMMA CountedFinite ==
  /\ IsFiniteSet(Counted) /\ Cardinality(Counted) \in Nat
  /\ Cardinality(Counted) <= Cardinality(Subs)
  /\ Cardinality(Subs) \in Nat
<1>1. Counted \in SUBSET Subs
  BY DEF Counted
<1> QED
  BY <1>1, StreamAssumption, FS_Subset, FS_CardinalityType

-----------------------------------------------------------------------------
(* Steps of the process, one lemma for each kind.                          *)

\* Start-up touches no client: before main serves there is none.
LEMMA StartupStep ==
  ASSUME IInv, Startup
  PROVE  IInv'
<1> USE DEF IInv, InflightExact, ClientsAreServed, ServersFollowMain, Server, Serves,
            Drainable
<1>1. CASE FromEnv
  BY <1>1 DEF FromEnv, Proceed, StreamInv, MainTypes, Counted, streamVars, Phases
<1>2. CASE Connect
  BY <1>2 DEF Connect, Proceed, StreamInv, MainTypes, Counted, streamVars, Phases
<1>3. CASE SpawnTasks
  BY <1>3 DEF SpawnTasks, StreamInv, MainTypes, Counted, streamVars, Phases
<1>4. CASE BindAndServe
  <2>1. \A s \in Subs : pc[s] = "idle"
    BY <1>4 DEF BindAndServe
  <2>2. UNCHANGED streamVars /\ UNCHANGED <<inflight, leaks, refresh>>
    BY <1>4 DEF BindAndServe
  <2>3. StreamInv' /\ InflightExact'
    BY <2>2 DEF StreamInv, streamVars, Counted
  <2>4. MainTypes' /\ ServersFollowMain'
    BY <1>4 DEF BindAndServe, MainTypes, Phases
  <2>5. ClientsAreServed'
    BY <2>1, <2>2 DEF streamVars
  <2> QED
    BY <2>3, <2>4, <2>5
<1> QED
  BY <1>1, <1>2, <1>3, <1>4 DEF Startup

\* The token is cancelled; nothing else changes.
LEMMA SignalStep ==
  ASSUME IInv, Signal
  PROVE  IInv'
BY DEF IInv, Signal, Cancel, StreamInv, MainTypes, InflightExact, ClientsAreServed,
  ServersFollowMain, Server, Serves, Counted, lifeVars, mainVars, clientVars, bridgeVars

\* A request is counted when it arrives and uncounted when its handler
\* returns; one that is dropped stays counted and becomes a leak.
LEMMA RequestStep ==
  ASSUME IInv, NEW s \in Subs,
         RequestStarts(s) \/ RequestEnds(s) \/ RequestDropped(s)
  PROVE  IInv'
<1> USE DEF IInv
<1>1. UNCHANGED mainVars /\ UNCHANGED refresh /\ Serves(s)
  BY DEF RequestStarts, RequestEnds, RequestDropped, Serves
<1>2. StreamInv'
  BY ClientKeepsStreams DEF RequestStarts, RequestEnds, RequestDropped, Subscribing
<1>3. token' = token /\ \E v \in PC : pc' = [pc EXCEPT ![s] = v]
  BY DEF RequestStarts, RequestEnds, RequestDropped, Open, Answer, FindChannel,
     Disconnect, EndStream, PC
<1>4. ClientsAreServed' /\ ServersFollowMain'
  BY <1>1, <1>3
     DEF ClientsAreServed, ServersFollowMain, Server, Serves, mainVars, StreamInv
<1>5. MainTypes'
  BY <1>1, LifecycleAssumption
     DEF MainTypes, mainVars, RequestStarts, RequestEnds, RequestDropped
<1>6. InflightExact'
  <2>1. CASE s \in Grpc
    <3>1. Counted' = Counted
      BY <2>1, <1>3 DEF Counted, StreamInv
    <3>2. UNCHANGED <<inflight, leaks>>
      BY <2>1 DEF RequestStarts, RequestEnds, RequestDropped
    <3> QED
      BY <3>1, <3>2 DEF InflightExact
  <2>2. CASE s \notin Grpc /\ RequestStarts(s)
    <3>1. Counted' = Counted \cup {s} /\ s \notin Counted
      BY <2>2 DEF RequestStarts, Open, Counted, StreamInv
    <3>2. Cardinality(Counted') = Cardinality(Counted) + 1
      BY <3>1, CountedFinite, FS_AddElement
    <3> QED
      BY <2>2, <3>2, CountedFinite
         DEF RequestStarts, InflightExact, MainTypes
  <2>3. CASE s \notin Grpc /\ (RequestEnds(s) \/ RequestDropped(s))
    <3>1. Counted' = Counted \ {s} /\ s \in Counted
      BY <2>3 DEF RequestEnds, RequestDropped, Answer, FindChannel, Disconnect, EndStream,
         Counted, StreamInv
    <3>2. Cardinality(Counted') = Cardinality(Counted) - 1
      BY <3>1, CountedFinite, FS_RemoveElement
    <3> QED
      BY <2>3, <3>2, CountedFinite
         DEF RequestEnds, RequestDropped, InflightExact, MainTypes
  <2> QED
    BY <2>1, <2>2, <2>3
<1> QED
  BY <1>2, <1>4, <1>5, <1>6

\* Streams and bridges go on without being counted.
LEMMA StreamingStep ==
  ASSUME IInv, \/ \E s \in Subs : StreamStep(s)
               \/ \E c \in Chans : BridgeStep(c)
  PROVE  IInv'
<1> USE DEF IInv
<1>1. ASSUME NEW s \in Subs, StreamStep(s)
      PROVE  IInv'
  <2>1. /\ pc[s] # "open" /\ Serves(s) /\ UNCHANGED lifeVars
        /\ Subscribing(s) \/ Streaming(s) \/ Disconnect(s)
    BY <1>1 DEF StreamStep
  <2>2. StreamInv'
    BY <2>1, ClientKeepsStreams
  <2>3. /\ Counted' = Counted /\ token' = token
        /\ \A r \in Subs : r # s => pc'[r] = pc[r]
    BY <2>1, StreamsAreUncounted
  <2>4. MainTypes' /\ InflightExact'
    BY <2>1, <2>3 DEF lifeVars, mainVars, MainTypes, InflightExact
  <2>5. ClientsAreServed' /\ ServersFollowMain'
    BY <2>1, <2>3
       DEF lifeVars, mainVars, ClientsAreServed, ServersFollowMain, Server, Serves
  <2> QED
    BY <2>2, <2>4, <2>5
<1>2. ASSUME NEW c \in Chans, BridgeStep(c)
      PROVE  IInv'
  <2>1. StreamInv' /\ UNCHANGED <<token, reg, pc, rx>>
    BY <1>2, BridgeKeepsStreams DEF BridgeStep
  <2>2. UNCHANGED lifeVars
    BY <1>2 DEF BridgeStep
  <2> QED
    BY <2>1, <2>2 DEF lifeVars, mainVars, MainTypes, InflightExact, Counted,
       ClientsAreServed, ServersFollowMain, Server, Serves
<1> QED
  BY <1>1, <1>2

\* A server goes down when it has no client left, and main goes on when both
\* have.
LEMMA StoppingStep ==
  ASSUME IInv, Stopping
  PROVE  IInv'
<1> USE DEF IInv, streamVars
<1>1. UNCHANGED streamVars /\ UNCHANGED <<inflight, leaks>>
  BY DEF Stopping, HttpCloses, GrpcCloses, HttpStops, GrpcStops, ServersJoined, Drained,
     DrainTimeout,
     RefreshStops, RefreshAwaited, RefreshTimeout, ClosePools, Advance
<1>2. StreamInv' /\ InflightExact'
  BY <1>1 DEF StreamInv, InflightExact, Counted
<1>3. MainTypes' /\ ServersFollowMain'
  BY DEF MainTypes, ServersFollowMain, Phases, Drainable, Stopping, HttpCloses,
     GrpcCloses, HttpStops, GrpcStops,
     ServersJoined, Drained, DrainTimeout, RefreshStops, RefreshAwaited, RefreshTimeout,
     ClosePools, Advance, mainVars
<1>4. ClientsAreServed'
  BY <1>1 DEF ClientsAreServed, Server, Serves, Busy, Stopping, HttpCloses, GrpcCloses,
     HttpStops, GrpcStops,
     ServersJoined, Drained, DrainTimeout, RefreshStops, RefreshAwaited, RefreshTimeout,
     ClosePools, Advance, mainVars
<1> QED
  BY <1>2, <1>3, <1>4

-----------------------------------------------------------------------------
\* The process starts in the invariant.
LEMMA InitInv == Init => IInv
<1> SUFFICES ASSUME Init PROVE IInv
  OBVIOUS
<1> USE StreamAssumption, LifecycleAssumption DEF Init, StreamInit
<1>1. StreamInv
  <2>1. token \in BOOLEAN /\ reg \in Chans \cup {NoChan}
    OBVIOUS
  <2>2. pc \in [Subs -> PC] /\ rx \in [Subs -> Chans \cup {NoChan}]
    BY DEF PC
  <2>3. /\ bridge \in [Chans -> Stages]
        /\ attempt \in [Chans -> 0..MaxAttempts]
        /\ copy \in [Chans -> Chans \cup {NoChan}]
    BY DEF Stages
  <2> QED
    BY <2>1, <2>2, <2>3 DEF StreamInv
<1>2. Counted = {}
  BY DEF Counted
<1>3. InflightExact
  BY <1>2, FS_EmptySet DEF InflightExact
<1>4. MainTypes /\ ClientsAreServed /\ ServersFollowMain
  BY DEF MainTypes, ClientsAreServed, ServersFollowMain, Phases, Drainable
<1> QED
  BY <1>1, <1>3, <1>4 DEF IInv

\* Every step of the process keeps it.
LEMMA StepInv == IInv /\ [Next]_vars => IInv'
<1> SUFFICES ASSUME IInv, [Next]_vars PROVE IInv'
  OBVIOUS
<1>1. CASE Next
  BY <1>1, StartupStep, SignalStep, RequestStep, StreamingStep, StoppingStep DEF Next
<1>2. CASE UNCHANGED vars
  BY <1>2 DEF vars, streamVars, lifeVars, mainVars, IInv, StreamInv, MainTypes,
     InflightExact, Counted, ClientsAreServed, ServersFollowMain, Server, Serves
<1> QED
  BY <1>1, <1>2

\* Every behaviour of the process satisfies the invariant throughout.
THEOREM Invariance == Spec => []IInv
BY InitInv, StepInv, PTL DEF Spec

\* Types.  In particular inflight_count never wraps below zero, whichever
\* requests are dropped.
THEOREM TypeCorrect == Spec => []TypeOK
<1>1. IInv => TypeOK
  BY CountedFinite, LifecycleAssumption
     DEF IInv, StreamInv, MainTypes, InflightExact, TypeOK
<1> QED
  BY <1>1, Invariance, PTL

\* When main drains, waits for its tasks and closes the pools, no request or
\* stream is left, and the in-flight count is the number of requests whose
\* futures were dropped: the drain wait is for nobody.
THEOREM PoolsCloseUnderNobody == Spec => []DrainWaitsForLeaksOnly
<1>1. IInv => DrainWaitsForLeaksOnly
  <2> SUFFICES ASSUME IInv, phase \in Drainable
               PROVE  /\ token
                      /\ \A s \in Subs : pc[s] = "idle" /\ rx[s] = NoChan
                      /\ inflight = leaks
    BY DEF DrainWaitsForLeaksOnly
  <2>1. http = "down" /\ grpc = "down" /\ token
    BY DEF IInv, ServersFollowMain
  <2>2. \A s \in Subs : pc[s] = "idle" /\ rx[s] = NoChan
    BY <2>1 DEF IInv, ClientsAreServed, Server, Serves, StreamInv
  <2>3. Counted = {}
    BY <2>2 DEF Counted
  <2>4. inflight = leaks
    BY <2>3, FS_EmptySet DEF IInv, InflightExact, MainTypes
  <2> QED
    BY <2>1, <2>2, <2>4
<1> QED
  BY <1>1, Invariance, PTL

============================================================================
