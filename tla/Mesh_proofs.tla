----------------------------- MODULE Mesh_proofs ----------------------------
(***************************************************************************)
(* Theorems about the mesh, for any tasks, clients, monitor threads, nodes *)
(* and limits: the offline fallback, the encrypted routing over it, and    *)
(* the registry of the mesh nodes.                                         *)
(***************************************************************************)
EXTENDS MeshLayer, FaucetDns, TLAPS

(***************************************************************************)
(* What the callers of the fallback do to its queue and what its threads   *)
(* do are apart: no step of a thread but a callback touches the queue.     *)
(***************************************************************************)
service == <<environment, state, owner, mon, reachable, counters, streak>>

\* A callback ends; what it does to the queue is left open.
CallbackReturns(m) ==
  /\ mon[m] \in {"on_online", "on_offline"}
  /\ Goto(m, "sleep")
  /\ UNCHANGED <<environment, state, owner, reachable, counters, streak>>

ServiceStep ==
  \/ Flip \/ OwnerStep
  \/ \E m \in Monitors : MonitorRound(m) \/ CallbackReturns(m)
  \/ UNCHANGED service

ServiceTypeOK ==
  /\ network \in BOOLEAN
  /\ flips \in Nat
  /\ state \in {"online", "offline"}
  /\ monitorRunning \in BOOLEAN
  /\ monitorThread \in Monitors \union {NoMonitor}
  /\ mon \in [Monitors -> MonitorPoints]
  /\ reachable \in [Monitors -> BOOLEAN]
  /\ successes \in 0..Confirm
  /\ failures \in 0..1
  /\ joining \in BOOLEAN
  /\ streak \in 0..Confirm

QueueStep ==
  \/ \E t \in Tasks : Enqueue(t)
  \/ Drain
  \/ UNCHANGED tasks

QueueTypeOK ==
  /\ queue \in Seq(Tasks) /\ Len(queue) <= MaxQueue
  /\ accepted \in SUBSET Tasks
  /\ drained \in SUBSET Tasks

LEMMA TypesApart == OfflineTypeOK <=> ServiceTypeOK /\ QueueTypeOK
  BY DEF OfflineTypeOK, ServiceTypeOK, QueueTypeOK

LEMMA OfflineApart == [OfflineNext]_ofVars => ServiceStep /\ QueueStep
  <1> SUFFICES ASSUME [OfflineNext]_ofVars PROVE ServiceStep /\ QueueStep OBVIOUS
  <1> USE DEF ServiceStep, QueueStep, service, tasks, environment, owner, counters
  <1>1. ASSUME Flip \/ OwnerStep PROVE UNCHANGED tasks
    BY <1>1 DEF Flip, OwnerStep, StartMonitoring, StopMonitoring, JoinMonitor
  <1>2. ASSUME NEW m \in Monitors, MonitorRound(m) PROVE UNCHANGED tasks
    BY <1>2 DEF MonitorRound, MonitorTest, CheckConnectivity, Count, Decide, GoOnline,
                GoOffline, Sleep
  <1>3. ASSUME NEW m \in Monitors, IdleCallback(m) PROVE CallbackReturns(m) /\ UNCHANGED tasks
    BY <1>3 DEF IdleCallback, CallbackReturns
  <1>4. ASSUME NEW t \in Tasks, QueueTask(t) PROVE Enqueue(t) /\ UNCHANGED service
    BY <1>4 DEF QueueTask
  <1>5. ASSUME DrainQueue PROVE Drain /\ UNCHANGED service
    BY <1>5 DEF DrainQueue
  <1>6. CASE UNCHANGED ofVars
    BY <1>6 DEF ofVars
  <1>7. CASE OfflineNext
    BY <1>7, <1>1, <1>2, <1>3, <1>4, <1>5 DEF OfflineNext
  <1>8. QED BY <1>6, <1>7

LEMMA MeshApart ==
  ASSUME task \in [Clients -> Tasks], [MeshNext]_meshVars
  PROVE  ServiceStep /\ QueueStep
  <1> USE DEF ServiceStep, QueueStep, service, tasks, environment, owner, counters
  <1>1. ASSUME Flip \/ OwnerStep PROVE UNCHANGED tasks
    BY <1>1 DEF Flip, OwnerStep, StartMonitoring, StopMonitoring, JoinMonitor
  <1>2. ASSUME NEW m \in Monitors, MonitorRound(m) PROVE UNCHANGED tasks
    BY <1>2 DEF MonitorRound, MonitorTest, CheckConnectivity, Count, Decide, GoOnline,
                GoOffline, Sleep
  <1>3. ASSUME NEW m \in Monitors, OnMeshOffline(m)
        PROVE  CallbackReturns(m) /\ UNCHANGED tasks
    BY <1>3 DEF OnMeshOffline, IdleCallback, CallbackReturns
  <1>4. ASSUME NEW m \in Monitors, OnMeshOnline(m) PROVE CallbackReturns(m) /\ Drain
    BY <1>4 DEF OnMeshOnline, CallbackReturns
  <1>5. ASSUME NEW c \in Clients, Queue(c) PROVE Enqueue(task[c]) /\ UNCHANGED service
    BY <1>5 DEF Queue
  <1>6. CASE UNCHANGED ofVars
    BY <1>6 DEF ofVars
  <1>7. ASSUME NEW c \in Clients, ClientStep(c) \/ \E t \in Tasks : Call(c, t)
        PROVE  Queue(c) \/ UNCHANGED ofVars
    BY <1>7 DEF ClientStep, Call, ReadPayload, StorePayload, RouteFails, RouteEmpty,
                RouteEchoes, DecryptResult
  <1>8. CASE UNCHANGED meshVars
    BY <1>6, <1>8 DEF meshVars
  <1>9. CASE MeshNext
    BY <1>9, <1>1, <1>2, <1>3, <1>4, <1>5, <1>6, <1>7 DEF MeshNext, MeshMonitor
  <1>10. QED BY <1>8, <1>9

LEMMA ServiceTyped == ServiceTypeOK /\ ServiceStep => ServiceTypeOK'
  <1> SUFFICES ASSUME ServiceTypeOK, ServiceStep PROVE ServiceTypeOK' OBVIOUS
  <1> USE OfflineAssumption
      DEF ServiceTypeOK, MonitorPoints, environment, owner, counters, Goto
  <1>1. CASE Flip
    <2>1. network' \in BOOLEAN BY <1>1 DEF Flip
    <2>2. flips' \in Nat BY <1>1 DEF Flip
    <2>3. QED BY <1>1, <2>1, <2>2 DEF Flip
  <1>2. CASE OwnerStep
    <2>1. ASSUME NEW m \in Monitors, StartMonitoring(m) PROVE ServiceTypeOK'
      <3>1. monitorRunning' \in BOOLEAN BY <2>1 DEF StartMonitoring
      <3>2. mon' \in [Monitors -> MonitorPoints] /\ monitorThread' \in Monitors
        BY <2>1 DEF StartMonitoring
      <3>3. QED BY <2>1, <3>1, <3>2 DEF StartMonitoring
    <2>2. CASE StopMonitoring
      <3>1. monitorRunning' \in BOOLEAN /\ joining' \in BOOLEAN BY <2>2 DEF StopMonitoring
      <3>2. QED BY <2>2, <3>1 DEF StopMonitoring
    <2>3. CASE JoinMonitor
      <3>1. joining' \in BOOLEAN BY <2>3 DEF JoinMonitor
      <3>2. QED BY <2>3, <3>1 DEF JoinMonitor
    <2>4. QED BY <1>2, <2>1, <2>2, <2>3 DEF OwnerStep
  <1>3. ASSUME NEW m \in Monitors, MonitorRound(m) PROVE ServiceTypeOK'
    <2>1. CASE MonitorTest(m) BY <2>1 DEF MonitorTest
    <2>2. CASE CheckConnectivity(m)
      <3>1. reachable' \in [Monitors -> BOOLEAN] BY <2>2 DEF CheckConnectivity
      <3>2. streak' \in 0..Confirm BY <2>2 DEF CheckConnectivity, AtMost
      <3>3. mon' \in [Monitors -> MonitorPoints] BY <2>2 DEF CheckConnectivity
      <3>4. QED BY <2>2, <3>1, <3>2, <3>3 DEF CheckConnectivity
    <2>3. CASE Count(m)
      <3>1. successes' \in 0..Confirm /\ failures' \in 0..1 BY <2>3 DEF Count, AtMost
      <3>2. mon' \in [Monitors -> MonitorPoints] BY <2>3 DEF Count
      <3>3. QED BY <2>3, <3>1, <3>2 DEF Count
    <2>4. CASE Decide(m) BY <2>4 DEF Decide
    <2>5. CASE GoOnline(m) BY <2>5 DEF GoOnline
    <2>6. CASE GoOffline(m) BY <2>6 DEF GoOffline
    <2>7. CASE Sleep(m) BY <2>7 DEF Sleep
    <2>8. QED BY <1>3, <2>1, <2>2, <2>3, <2>4, <2>5, <2>6, <2>7 DEF MonitorRound
  <1>4. ASSUME NEW m \in Monitors, CallbackReturns(m) PROVE ServiceTypeOK'
    BY <1>4 DEF CallbackReturns
  <1>5. CASE UNCHANGED service
    BY <1>5 DEF service
  <1>6. QED BY <1>1, <1>2, <1>3, <1>4, <1>5 DEF ServiceStep

\* What a queue holds after a task was put at its end.
LEMMA AppendHolds ==
  ASSUME NEW q \in Seq(Tasks), NEW t \in Tasks
  PROVE  {Append(q, t)[i] : i \in DOMAIN Append(q, t)} = {q[i] : i \in DOMAIN q} \union {t}
  <1> DEFINE new == Append(q, t)
  <1>1. Len(new) = Len(q) + 1 /\ new[Len(q) + 1] = t /\ \A i \in 1..Len(q) : new[i] = q[i]
    OBVIOUS
  <1>2. DOMAIN new = 1..(Len(q) + 1) /\ DOMAIN q = 1..Len(q) /\ Len(q) \in Nat
    OBVIOUS
  <1>3. 1..(Len(q) + 1) = 1..Len(q) \union {Len(q) + 1}
    BY <1>2
  <1>4. QED BY <1>1, <1>2, <1>3

LEMMA QueueTyped == QueueTypeOK /\ QueueStep => QueueTypeOK'
  <1> SUFFICES ASSUME QueueTypeOK, QueueStep PROVE QueueTypeOK' OBVIOUS
  <1> USE OfflineAssumption DEF QueueTypeOK
  <1>1. ASSUME NEW t \in Tasks, Enqueue(t) PROVE QueueTypeOK'
    BY <1>1 DEF Enqueue
  <1>2. CASE Drain
    <2>1. Queued \subseteq Tasks BY DEF Queued
    <2>2. QED BY <1>2, <2>1 DEF Drain
  <1>3. CASE UNCHANGED tasks
    BY <1>3 DEF tasks
  <1>4. QED BY <1>1, <1>2, <1>3 DEF QueueStep

LEMMA KeptStep ==
  ASSUME QueueTypeOK, AcceptedIsKept, QueueStep PROVE AcceptedIsKept'
  <1>1. ASSUME NEW t \in Tasks, Enqueue(t) PROVE AcceptedIsKept'
    <2>1. CASE Len(queue) >= MaxQueue
      BY <1>1, <2>1 DEF Enqueue, AcceptedIsKept, Queued
    <2>2. CASE ~(Len(queue) >= MaxQueue)
      <3>1. /\ queue' = Append(queue, t)
            /\ accepted' = accepted \union {t}
            /\ drained' = drained
        BY <1>1, <2>2 DEF Enqueue
      <3>2. Queued' = Queued \union {t}
        BY <3>1, AppendHolds DEF Queued, QueueTypeOK
      <3>3. QED BY <3>1, <3>2 DEF AcceptedIsKept
    <2>3. QED BY <2>1, <2>2
  <1>2. CASE Drain
    <2>1. Queued' = {} BY <1>2 DEF Drain, Queued
    <2>2. QED BY <1>2, <2>1 DEF Drain, AcceptedIsKept
  <1>3. CASE UNCHANGED tasks
    BY <1>3 DEF tasks, AcceptedIsKept, Queued
  <1>4. QED BY <1>1, <1>2, <1>3 DEF QueueStep

LEMMA OfflineStart == OfflineInit => OfflineTypeOK /\ AcceptedIsKept
  <1> SUFFICES ASSUME OfflineInit PROVE OfflineTypeOK /\ AcceptedIsKept OBVIOUS
  <1> USE OfflineAssumption DEF OfflineInit
  <1>1. network \in BOOLEAN /\ monitorRunning \in BOOLEAN /\ joining \in BOOLEAN
    OBVIOUS
  <1>2. mon \in [Monitors -> MonitorPoints] /\ reachable \in [Monitors -> BOOLEAN]
    BY DEF MonitorPoints
  <1>3. ServiceTypeOK BY <1>1, <1>2 DEF ServiceTypeOK
  <1>4. QueueTypeOK BY DEF QueueTypeOK
  <1>5. AcceptedIsKept BY DEF AcceptedIsKept, Queued
  <1>6. QED BY <1>3, <1>4, <1>5, TypesApart

\* Every variable of the fallback keeps its type, and the queue its limit.
THEOREM OfflineTyping == OfflineSpec => []OfflineTypeOK
  <1>1. OfflineTypeOK /\ [OfflineNext]_ofVars => OfflineTypeOK'
    BY TypesApart, OfflineApart, ServiceTyped, QueueTyped DEF OfflineTypeOK, ServiceTypeOK, QueueTypeOK
  <1>2. QED BY <1>1, OfflineStart, PTL DEF OfflineSpec

\* A task that queue_task accepted is in the queue until drain_queue returns it, for
\* any limit of the queue and any callers.
THEOREM AcceptedStays == OfflineSpec => []AcceptedIsKept
  <1>1. OfflineTypeOK /\ AcceptedIsKept /\ [OfflineNext]_ofVars => AcceptedIsKept'
    BY TypesApart, OfflineApart, KeptStep
  <1>2. QED BY <1>1, OfflineStart, OfflineTyping, PTL DEF OfflineSpec

-----------------------------------------------------------------------------
(* The clients.  Several of them may work on one task object; what a call  *)
(* has stored in it stays encrypted, whoever encrypts it again.            *)

ClientTypeOK ==
  /\ client \in [Clients -> ClientPoints]
  /\ task \in [Clients -> Tasks]
  /\ layers \in [Tasks -> Nat]
  /\ inHand \in [Clients -> Nat]
  /\ answer \in [Clients -> SUBSET Nat]
  /\ routed \in SUBSET Tasks
  /\ calls \in 0..MaxCalls

\* Without this the result might have no layer to lose.
Encrypted ==
  \A c \in Clients :
    /\ client[c] = "route" => layers[task[c]] > 0
    /\ client[c] = "decrypt" => inHand[c] > 0

ClientInv == ClientTypeOK /\ Encrypted

LEMMA ClientsStep == ClientInv /\ [MeshNext]_meshVars => ClientInv'
  <1> SUFFICES ASSUME ClientInv, [MeshNext]_meshVars PROVE ClientInv' OBVIOUS
  <1> USE MeshAssumption
      DEF ClientInv, ClientTypeOK, Encrypted, ClientPoints, ClientGoto, Answer, NoAnswer
  <1>1. ASSUME NEW c \in Clients, NEW t \in Tasks, Call(c, t) PROVE ClientInv'
    <2>1. calls' \in 0..MaxCalls BY <1>1 DEF Call
    <2>2. client' \in [Clients -> ClientPoints] /\ task' \in [Clients -> Tasks]
      BY <1>1 DEF Call
    <2>3. Encrypted' BY <1>1 DEF Call
    <2>4. QED BY <1>1, <2>1, <2>2, <2>3 DEF Call
  <1>2. ASSUME NEW c \in Clients, ReadPayload(c) PROVE ClientInv'
    BY <1>2 DEF ReadPayload
  <1>3. ASSUME NEW c \in Clients, StorePayload(c) PROVE ClientInv'
    BY <1>3 DEF StorePayload
  <1>4. ASSUME NEW c \in Clients, Queue(c) \/ RouteFails(c) \/ RouteEmpty(c) PROVE ClientInv'
    BY <1>4 DEF Queue, RouteFails, RouteEmpty
  <1>5. ASSUME NEW c \in Clients, RouteEchoes(c) PROVE ClientInv'
    BY <1>5 DEF RouteEchoes
  <1>6. ASSUME NEW c \in Clients, DecryptResult(c) PROVE ClientInv'
    <2>1. inHand[c] - 1 \in Nat BY <1>6 DEF DecryptResult
    <2>2. answer' \in [Clients -> SUBSET Nat] BY <1>6, <2>1 DEF DecryptResult
    <2>3. QED BY <1>6, <2>2 DEF DecryptResult
  <1>7. CASE UNCHANGED clients
    BY <1>7 DEF clients
  <1>8. ASSUME NEW m \in Monitors, MeshMonitor(m) PROVE UNCHANGED clients
    BY <1>8 DEF MeshMonitor, OnMeshOffline, OnMeshOnline
  <1>9. CASE UNCHANGED meshVars
    BY <1>7, <1>9 DEF meshVars, clients
  <1>10. CASE MeshNext
    BY <1>10, <1>1, <1>2, <1>3, <1>4, <1>5, <1>6, <1>7, <1>8 DEF MeshNext, ClientStep
  <1>11. QED BY <1>9, <1>10

MeshInv ==
  /\ ServiceTypeOK /\ QueueTypeOK
  /\ ClientInv

LEMMA MeshInvariant == MeshSpec => []MeshInv
  <1>1. MeshInit => MeshInv
    <2> SUFFICES ASSUME MeshInit PROVE MeshInv OBVIOUS
    <2>1. ServiceTypeOK /\ QueueTypeOK BY OfflineStart, TypesApart DEF MeshInit
    <2>2. ClientInv
      BY MeshAssumption DEF MeshInit, ClientInv, ClientTypeOK, Encrypted, ClientPoints, NoAnswer
    <2>3. QED BY <2>1, <2>2 DEF MeshInv
  <1>2. MeshInv /\ [MeshNext]_meshVars => MeshInv'
    <2> SUFFICES ASSUME MeshInv, [MeshNext]_meshVars PROVE MeshInv' OBVIOUS
    <2>1. ServiceStep /\ QueueStep BY MeshApart DEF MeshInv, ClientInv, ClientTypeOK
    <2>2. ServiceTypeOK' /\ QueueTypeOK' BY <2>1, ServiceTyped, QueueTyped DEF MeshInv
    <2>3. ClientInv' BY ClientsStep DEF MeshInv
    <2>4. QED BY <2>2, <2>3 DEF MeshInv
  <1>3. QED BY <1>1, <1>2, PTL DEF MeshSpec

\* Every variable keeps its type, for any clients and also when they share a task
\* object: a result that is decrypted was encrypted.
THEOREM MeshTyping == MeshSpec => []MeshTypeOK
  <1>1. MeshInv => MeshTypeOK
    BY TypesApart DEF MeshInv, ClientInv, ClientTypeOK, MeshTypeOK
  <1>2. QED BY <1>1, MeshInvariant, PTL

-----------------------------------------------------------------------------
(* The monitor thread.  With one of them, the count of successes it acts   *)
(* on is never ahead of the probes, and nothing switches the state while   *)
(* its callback runs.                                                      *)

OneMonitor == \A m, n \in Monitors : m = n

CountInv(m) ==
  IF mon[m] = "count" THEN reachable[m] => AtMost(successes + 1, Confirm) <= streak
                      ELSE successes <= streak

MonitorInv ==
  \A m \in Monitors :
    /\ CountInv(m)
    /\ mon[m] = "online" => streak >= Confirm
    /\ mon[m] = "on_online" => state = "online"

LEMMA MonitorStepInv ==
  ASSUME OneMonitor, ServiceTypeOK, MonitorInv, ServiceStep PROVE MonitorInv'
  <1> USE OfflineAssumption
      DEF ServiceTypeOK, MonitorInv, CountInv, OneMonitor, AtMost, Goto,
          environment, owner, counters
  <1>1. CASE Flip BY <1>1 DEF Flip
  <1>2. CASE OwnerStep BY <1>2 DEF OwnerStep, StartMonitoring, StopMonitoring, JoinMonitor
  <1>3. ASSUME NEW m \in Monitors, MonitorRound(m) PROVE MonitorInv'
    <2>1. CASE MonitorTest(m) BY <2>1 DEF MonitorTest
    <2>2. CASE CheckConnectivity(m) BY <2>2 DEF CheckConnectivity
    <2>3. CASE Count(m) BY <2>3 DEF Count
    <2>4. CASE Decide(m) BY <2>4 DEF Decide
    <2>5. CASE GoOnline(m) \/ GoOffline(m) BY <2>5 DEF GoOnline, GoOffline
    <2>6. CASE Sleep(m) BY <2>6 DEF Sleep
    <2>7. QED BY <1>3, <2>1, <2>2, <2>3, <2>4, <2>5, <2>6 DEF MonitorRound
  <1>4. ASSUME NEW m \in Monitors, CallbackReturns(m) PROVE MonitorInv'
    BY <1>4 DEF CallbackReturns
  <1>5. CASE UNCHANGED service BY <1>5 DEF service
  <1>6. QED BY <1>1, <1>2, <1>3, <1>4, <1>5 DEF ServiceStep

LEMMA MonitorStart == OfflineInit => MonitorInv
  BY OfflineAssumption DEF OfflineInit, MonitorInv, CountInv

\* The only way back online is the switch of the monitor.
LEMMA SwitchIsConfirmed ==
  ASSUME MonitorInv, ServiceStep, state = "offline", state' = "online"
  PROVE  streak >= Confirm
  <1>1. PICK m \in Monitors : GoOnline(m)
    BY DEF ServiceStep, Flip, OwnerStep, StartMonitoring, StopMonitoring, JoinMonitor,
       MonitorRound, MonitorTest, CheckConnectivity, Count, Decide, GoOffline, Sleep,
       CallbackReturns, service
  <1>2. QED BY <1>1 DEF GoOnline, MonitorInv

\* With one monitor thread the service goes back online only after the threshold of
\* consecutive successful probes, for any threshold: in the fallback alone ...
THEOREM OfflineReconnectConfirmed == ASSUME OneMonitor PROVE OfflineSpec => ReconnectConfirmed
  <1>1. OfflineTypeOK /\ MonitorInv /\ [OfflineNext]_ofVars => MonitorInv'
    BY MonitorStepInv, OfflineApart, TypesApart
  <1>2. MonitorInv /\ [OfflineNext]_ofVars
          => [state = "offline" /\ state' = "online" => streak >= Confirm]_ofVars
    BY OfflineApart, SwitchIsConfirmed
  <1>3. QED BY <1>1, <1>2, MonitorStart, OfflineTyping, PTL DEF OfflineSpec, ReconnectConfirmed

LEMMA MeshMonitorInvariant == ASSUME OneMonitor PROVE MeshSpec => []MonitorInv
  <1>1. MeshInv /\ MonitorInv /\ [MeshNext]_meshVars => MonitorInv'
    BY MonitorStepInv, MeshApart DEF MeshInv, ClientInv, ClientTypeOK
  <1>2. MeshInit => MonitorInv BY MonitorStart DEF MeshInit
  <1>3. QED BY <1>1, <1>2, MeshInvariant, PTL DEF MeshSpec

\* ... and with the clients of the mesh and its callbacks.
THEOREM MeshReconnectConfirmed == ASSUME OneMonitor PROVE MeshSpec => ReconnectConfirmed
  <1>1. MeshInv /\ MonitorInv /\ [MeshNext]_meshVars
          => [state = "offline" /\ state' = "online" => streak >= Confirm]_ofVars
    BY MeshApart, SwitchIsConfirmed DEF MeshInv, ClientInv, ClientTypeOK
  <1>2. QED BY <1>1, MeshInvariant, MeshMonitorInvariant, PTL DEF MeshSpec, ReconnectConfirmed

\* Queued tasks are released only while the service is online, with one monitor
\* thread: on_mesh_online runs in it, and nobody else can switch the state.
THEOREM ReleasesOnline == ASSUME OneMonitor PROVE MeshSpec => ReleasedOnline
  <1>1. ASSUME MonitorInv, MeshNext, drained' # drained PROVE state = "online"
    <2>1. PICK m \in Monitors : OnMeshOnline(m)
      BY <1>1 DEF MeshNext, Flip, OwnerStep, StartMonitoring, StopMonitoring, JoinMonitor,
         MeshMonitor, MonitorRound, MonitorTest, CheckConnectivity, Count, Decide, GoOnline,
         GoOffline, Sleep, OnMeshOffline, IdleCallback, ClientStep, Queue, Enqueue, Call,
         ReadPayload, StorePayload, RouteFails, RouteEmpty, RouteEchoes, DecryptResult,
         ofVars, tasks
    <2>2. QED BY <1>1, <2>1 DEF OnMeshOnline, MonitorInv
  <1>2. MonitorInv /\ [MeshNext]_meshVars => [drained' # drained => state = "online"]_meshVars
    BY <1>1
  <1>3. QED BY <1>2, MeshMonitorInvariant, PTL DEF MeshSpec, ReleasedOnline

-----------------------------------------------------------------------------
(***************************************************************************)
(* The registry of nodes (FaucetDns), whose specification is Spec here.     *)
(***************************************************************************)
Messages == Requests \union {Cleanup}

Beat(n) == [kind |-> "heartbeat", node |-> n]

\* The message m is in the queue q.
In(m, q) == \E i \in 1..Len(q) : q[i] = m

LEMMA InAppend ==
  ASSUME NEW S, NEW q \in Seq(S), NEW x \in S, NEW m
  PROVE  In(m, Append(q, x)) <=> In(m, q) \/ x = m
  BY DEF In

LEMMA InTail ==
  ASSUME NEW S, NEW q \in Seq(S), q # << >>, NEW m
  PROVE  /\ Head(q) \in S /\ Tail(q) \in Seq(S)
         /\ In(m, q) <=> In(m, Tail(q)) \/ Head(q) = m
  <1>1. Head(q) \in S /\ Tail(q) \in Seq(S) /\ Head(q) = q[1] /\ Len(q) \in Nat /\ Len(q) >= 1
        /\ Len(Tail(q)) = Len(q) - 1
    OBVIOUS
  <1>2. \A i \in 1..Len(Tail(q)) : Tail(q)[i] = q[i + 1]
    BY <1>1
  <1>3. ASSUME NEW i \in 1..Len(q), i # 1 PROVE i - 1 \in 1..Len(Tail(q)) /\ Tail(q)[i - 1] = q[i]
    <2>1. i - 1 \in 1..Len(Tail(q)) /\ (i - 1) + 1 = i
      BY <1>1, <1>3
    <2>2. Tail(q)[i - 1] = q[(i - 1) + 1]
      BY <1>2, <2>1
    <2>3. QED BY <2>1, <2>2
  <1>4. \A i \in 1..Len(Tail(q)) : i + 1 \in 1..Len(q)
    BY <1>1
  <1>5. 1 \in 1..Len(q)
    BY <1>1
  <1>6. In(m, q) => In(m, Tail(q)) \/ Head(q) = m
    BY <1>1, <1>3 DEF In
  <1>7. In(m, Tail(q)) => In(m, q)
    BY <1>2, <1>4 DEF In
  <1>8. Head(q) = m => In(m, q)
    BY <1>1, <1>5 DEF In
  <1>9. QED BY <1>1, <1>6, <1>7, <1>8

LEMMA MessageKinds ==
  ASSUME NEW m \in Messages
  PROVE  /\ m.kind = "cleanup" => m = Cleanup
         /\ m.kind # "cleanup" => m \in Requests /\ m.node \in Nodes
         /\ \A n \in Nodes : m = Beat(n) <=> m.kind = "heartbeat" /\ m.node = n
         /\ m.kind = "cleanup" <=> m = Cleanup
  <1>1. CASE m = Cleanup
    BY <1>1 DEF Cleanup, Beat
  <1>2. CASE m \in Requests
    BY <1>2 DEF Requests, Cleanup, Beat
  <1>3. QED BY <1>1, <1>2 DEF Messages

LEMMA RegistryTyped == TypeOK /\ [Next]_vars => TypeOK'
  <1> SUFFICES ASSUME TypeOK, [Next]_vars PROVE TypeOK' OBVIOUS
  <1> USE FaucetAssumption DEF TypeOK, Banned
  <1>a. mailbox \in Seq(Messages)
    BY DEF Messages
  <1>b. mailbox' \in Seq(Messages) <=> mailbox' \in Seq(Requests \cup {Cleanup})
    BY DEF Messages
  <1>c. ASSUME NEW kind, Receive(kind)
        PROVE  /\ mailbox' \in Seq(Messages) /\ stalled' \in 0..MaxLate
               /\ kind # "cleanup" => Head(mailbox).node \in Nodes
    <2>1. Head(mailbox) \in Messages /\ Tail(mailbox) \in Seq(Messages)
      BY <1>a, <1>c, InTail DEF Receive
    <2>2. kind # "cleanup" => Head(mailbox).node \in Nodes
      BY <1>c, <2>1, MessageKinds DEF Receive
    <2>3. QED BY <1>c, <2>1, <2>2 DEF Receive
  <1>1. ASSUME NEW msg \in Requests, Send(msg) PROVE TypeOK'
    <2>1. msg \in Messages /\ msg.node \in Nodes
      BY DEF Requests, Messages
    <2>2. mailbox' \in Seq(Messages)
      BY <1>1, <1>a, <2>1 DEF Send
    <2>3. silence' \in [Nodes -> Nat]
      BY <1>1, <2>1 DEF Send, Zero
    <2>4. QED BY <1>1, <1>b, <2>2, <2>3 DEF Send
  <1>2. CASE Tick
    <2>1. mailbox' \in Seq(Messages)
      BY <1>2, <1>a DEF Tick, Messages
    <2>2. age' \in [Nodes -> Nat] /\ silence' \in [Nodes -> Nat]
      BY <1>2 DEF Tick
    <2>3. stalled' \in 0..MaxLate /\ timer' \in 0..HeartbeatTimeout
      BY <1>2 DEF Tick
    <2>4. QED BY <1>2, <1>b, <2>1, <2>2, <2>3 DEF Tick
  <1>3. CASE Register
    <2>1. mailbox' \in Seq(Messages) /\ stalled' \in 0..MaxLate /\ Head(mailbox).node \in Nodes
      BY <1>3, <1>c DEF Register
    <2>2. /\ status' \in [Nodes -> {"none", "active"} \cup Banned]
          /\ age' \in [Nodes -> Nat] /\ silence' \in [Nodes -> Nat] /\ lively' \subseteq Nodes
      <3> DEFINE n == Head(mailbox).node
      <3>1. CASE status[n] = "none"
        <4>1. /\ status' = [status EXCEPT ![n] = "active"]
              /\ age' = Zero(age, n) /\ silence' = Zero(silence, n) /\ lively' = lively \cup {n}
          BY <1>3, <3>1 DEF Register
        <4>2. status' \in [Nodes -> {"none", "active"} \cup Banned]
          BY <4>1
        <4>3. age' \in [Nodes -> Nat] /\ silence' \in [Nodes -> Nat]
          BY <4>1 DEF Zero
        <4>4. QED BY <2>1, <4>1, <4>2, <4>3
      <3>2. CASE status[n] # "none"
        BY <1>3, <3>2 DEF Register
      <3>3. QED BY <3>1, <3>2
    <2>3. QED BY <1>3, <1>b, <2>1, <2>2 DEF Register
  <1>4. CASE Heartbeat
    <2>1. mailbox' \in Seq(Messages) /\ stalled' \in 0..MaxLate /\ Head(mailbox).node \in Nodes
      BY <1>4, <1>c DEF Heartbeat
    <2>2. age' \in [Nodes -> Nat]
      BY <1>4, <2>1 DEF Heartbeat, Zero
    <2>3. QED BY <1>4, <1>b, <2>1, <2>2 DEF Heartbeat
  <1>5. ASSUME NEW kind \in {"revoke", "isolate"}, NEW new \in Banned, Ban(kind, new)
        PROVE  TypeOK'
    <2>1. mailbox' \in Seq(Messages) /\ stalled' \in 0..MaxLate /\ Head(mailbox).node \in Nodes
      BY <1>5, <1>c DEF Ban
    <2>2. /\ status' \in [Nodes -> {"none", "active"} \cup Banned]
          /\ age' \in [Nodes -> Nat] /\ silence' \in [Nodes -> Nat] /\ lively' \subseteq Nodes
      <3> DEFINE n == Head(mailbox).node
      <3>1. CASE status[n] # "none"
        <4>1. /\ status' = [status EXCEPT ![n] = new]
              /\ age' = Zero(age, n) /\ silence' = Zero(silence, n) /\ lively' = lively \ {n}
          BY <1>5, <3>1 DEF Ban
        <4>2. status' \in [Nodes -> {"none", "active"} \cup Banned]
          BY <4>1
        <4>3. age' \in [Nodes -> Nat] /\ silence' \in [Nodes -> Nat]
          BY <4>1 DEF Zero
        <4>4. QED BY <4>1, <4>2, <4>3
      <3>2. CASE status[n] = "none"
        BY <1>5, <3>2 DEF Ban
      <3>3. QED BY <3>1, <3>2
    <2>3. QED BY <1>5, <1>b, <2>1, <2>2 DEF Ban
  <1>6. CASE Crash
    <2>1. mailbox' \in Seq(Messages)
      BY <1>6 DEF Crash
    <2>2. stalled' \in 0..MaxLate /\ timer' \in 0..HeartbeatTimeout
      BY <1>6 DEF Crash
    <2>3. up' \in BOOLEAN
      BY <1>6 DEF Crash
    <2>4. QED BY <1>6, <1>b, <2>1, <2>2, <2>3 DEF Crash
  <1>7. CASE Authenticate
    <2>1. CASE Receive("authenticate") /\ UNCHANGED <<up, status, age, timer, silence, lively>>
      BY <2>1, <1>b, <1>c
    <2>2. QED BY <1>6, <1>7, <2>1 DEF Authenticate
  <1>13. CASE AuthenticateAttested
    BY <1>13, <1>b, <1>c DEF AuthenticateAttested
  <1>8. CASE CleanNodes
    <2>1. mailbox' \in Seq(Messages) /\ stalled' \in 0..MaxLate
      BY <1>8, <1>c DEF CleanNodes
    <2>2. /\ status' \in [Nodes -> {"none", "active"} \cup Banned]
          /\ age' \in [Nodes -> Nat] /\ silence' \in [Nodes -> Nat] /\ lively' \subseteq Nodes
      BY <1>8 DEF CleanNodes
    <2>3. QED BY <1>8, <1>b, <2>1, <2>2 DEF CleanNodes
  <1>9. CASE CleanNodesFails
    BY <1>6, <1>9 DEF CleanNodesFails
  <1>10. CASE Restart
    BY <1>10 DEF Restart
  <1>11. CASE UNCHANGED vars
    BY <1>11 DEF vars
  <1>12. QED
    BY <1>1, <1>2, <1>3, <1>4, <1>5, <1>7, <1>13, <1>8, <1>9, <1>10, <1>11
       DEF Next, Revoke, Isolate

\* Every variable keeps its type, whatever is sent and whenever the server crashes.
THEOREM RegistryTyping == Spec => []TypeOK
  <1>1. Init => TypeOK
    BY FaucetAssumption DEF Init, TypeOK, Banned
  <1>2. QED BY <1>1, RegistryTyped, PTL DEF Spec

-----------------------------------------------------------------------------
(* How old a record can be.  A message in the mailbox was sent no longer    *)
(* ago than the mailbox has been non-empty, so a heartbeat is handled late *)
(* by MaxLate at most; and a cleanup is on its way or waits, so an active  *)
(* record never grows older than two intervals and that delay.             *)

Waits(n) == In(Beat(n), mailbox)

MailboxInv ==
  /\ mailbox = << >> => stalled = 0
  /\ up /\ timer = 0 => In(Cleanup, mailbox)
  /\ ~up => mailbox = << >>
  /\ ~up => lively = {} /\ \A n \in Nodes : status[n] = "none" /\ age[n] = 0 /\ silence[n] = 0

Overdue == IF timer = 0 THEN stalled ELSE 0

AgeInv(n) ==
  /\ Waits(n) => silence[n] <= stalled
  /\ silence[n] <= age[n] + MaxLate
  /\ status[n] = "active" => age[n] + timer < 2 * HeartbeatTimeout + Overdue

\* A node that is never silent for long is active, and its record is as young as
\* its last heartbeat, or one that is under way will make it so.
LivelyInv(n) ==
  n \in lively =>
    /\ status[n] = "active"
    /\ silence[n] <= BeatInterval
    /\ Waits(n) => age[n] <= BeatInterval + stalled
    /\ ~Waits(n) => age[n] <= silence[n]

RegistryInv == MailboxInv /\ \A n \in Nodes : AgeInv(n) /\ LivelyInv(n)

LEMMA ReceiveFacts ==
  ASSUME TypeOK, NEW kind, Receive(kind)
  PROVE  /\ Head(mailbox) \in Messages /\ Head(mailbox).kind = kind
         /\ \A m : In(m, mailbox) <=> In(m, mailbox') \/ Head(mailbox) = m
         /\ mailbox' = << >> => stalled' = 0
         /\ \A m : In(m, mailbox') => stalled' = stalled
  <1>1. mailbox \in Seq(Messages) /\ mailbox # << >> /\ mailbox' = Tail(mailbox)
    BY DEF Receive, TypeOK, Messages
  <1>2. \A m : In(m, mailbox) <=> In(m, mailbox') \/ Head(mailbox) = m
    BY <1>1, InTail
  <1>3. Head(mailbox) \in Messages
    BY <1>1, InTail
  <1>4. stalled' = IF mailbox' = << >> THEN 0 ELSE stalled
    BY DEF Receive
  <1>5. \A m : In(m, mailbox') => mailbox' # << >>
    BY DEF In
  <1>6. QED BY <1>2, <1>3, <1>4, <1>5 DEF Receive

\* The numbers of a state.
LEMMA Numbers ==
  ASSUME TypeOK, NEW n \in Nodes
  PROVE  /\ age[n] \in Nat /\ silence[n] \in Nat /\ timer \in Nat /\ stalled \in Nat
         /\ timer <= HeartbeatTimeout /\ stalled <= MaxLate /\ Overdue \in Nat
         /\ HeartbeatTimeout \in Nat /\ HeartbeatTimeout > 0
         /\ MaxLate \in Nat /\ BeatInterval \in Nat
  BY FaucetAssumption DEF TypeOK, Overdue

\* A record that was made afresh, or is gone.
ResetSafe ==
  \A n \in Nodes :
    age[n] = 0 /\ silence[n] = 0 /\ (n \in lively => status[n] = "active")
      => AgeInv(n) /\ LivelyInv(n)

LEMMA RecordReset == TypeOK => ResetSafe
  <1> SUFFICES ASSUME TypeOK, NEW n \in Nodes, age[n] = 0, silence[n] = 0,
                      n \in lively => status[n] = "active"
               PROVE  AgeInv(n) /\ LivelyInv(n)
    BY DEF ResetSafe
  <1>1. 0 + timer < 2 * HeartbeatTimeout + Overdue
    BY Numbers
  <1>2. QED BY <1>1, Numbers DEF AgeInv, LivelyInv

\* A message that does not concern a record, and does not reach the cleanup.
LEMMA RecordSpared ==
  ASSUME TypeOK, MailboxInv, NEW n \in Nodes, AgeInv(n), LivelyInv(n),
         NEW kind, Receive(kind), kind # "cleanup", Head(mailbox) # Beat(n), timer' = timer,
         age'[n] = age[n], silence'[n] = silence[n], status'[n] = status[n],
         n \in lively' => n \in lively
  PROVE  AgeInv(n)' /\ LivelyInv(n)'
  <1>1. (Waits(n)' <=> Waits(n)) /\ (Waits(n)' => stalled' = stalled)
    BY ReceiveFacts DEF Waits
  <1>2. timer = 0 => stalled' = stalled
    <2>1. Head(mailbox) # Cleanup
      BY ReceiveFacts DEF Cleanup
    <2>2. timer = 0 => In(Cleanup, mailbox)
      BY DEF MailboxInv, Receive
    <2>3. QED BY <2>1, <2>2, ReceiveFacts
  <1>3. Overdue' = Overdue
    BY <1>2 DEF Overdue
  <1>4. AgeInv(n)'
    BY <1>1, <1>3 DEF AgeInv
  <1>5. LivelyInv(n)'
    BY <1>1 DEF LivelyInv
  <1>6. QED BY <1>4, <1>5

LEMMA MailboxReceived ==
  ASSUME TypeOK, MailboxInv, NEW kind, Receive(kind), up' = up,
         timer' = 0 => timer = 0 /\ kind # "cleanup"
  PROVE  MailboxInv'
  <1>1. up /\ up' /\ (mailbox' = << >> => stalled' = 0)
    BY ReceiveFacts DEF Receive
  <1>2. timer' = 0 => In(Cleanup, mailbox')
    <2>1. timer' = 0 => Head(mailbox) # Cleanup
      BY ReceiveFacts DEF Cleanup
    <2>2. timer' = 0 => In(Cleanup, mailbox)
      BY <1>1 DEF MailboxInv
    <2>3. QED BY <2>1, <2>2, ReceiveFacts
  <1>3. QED BY <1>1, <1>2 DEF MailboxInv

LEMMA SendStep ==
  ASSUME TypeOK, RegistryInv, NEW msg \in Requests, Send(msg)
  PROVE  RegistryInv'
  <1>1. msg \in Messages /\ mailbox \in Seq(Messages) /\ msg.node \in Nodes
    BY DEF Messages, TypeOK, Requests
  <1>2. mailbox' = Append(mailbox, msg) /\ up /\ UNCHANGED <<up, status, age, timer, stalled, lively>>
    BY DEF Send
  <1>3. \A m : In(m, mailbox') <=> In(m, mailbox) \/ msg = m
    BY <1>1, <1>2, InAppend
  <1>4. mailbox' # << >>
    BY <1>1, <1>2
  <1>5. MailboxInv'
    BY <1>2, <1>3, <1>4 DEF MailboxInv, RegistryInv
  <1>6. ASSUME NEW n \in Nodes PROVE AgeInv(n)' /\ LivelyInv(n)'
    <2>1. AgeInv(n) /\ LivelyInv(n) /\ Overdue' = Overdue
      BY <1>2 DEF RegistryInv, Overdue
    <2>2. CASE msg = Beat(n)
      <3>1. silence'[n] = 0
        BY <2>2, <1>1 DEF Send, Beat, Zero, TypeOK
      <3>2. Waits(n)'
        BY <1>3, <2>2 DEF Waits
      <3>3. AgeInv(n)'
        BY <1>2, <2>1, <3>1, Numbers DEF AgeInv
      <3>4. n \in lively => age[n] <= BeatInterval + stalled
        BY <2>1, Numbers DEF LivelyInv
      <3>5. LivelyInv(n)'
        BY <1>2, <2>1, <3>1, <3>2, <3>4, Numbers DEF LivelyInv
      <3>6. QED BY <3>3, <3>5
    <2>3. CASE msg # Beat(n)
      <3>1. silence'[n] = silence[n]
        <4>1. ~(msg.kind = "heartbeat" /\ msg.node = n)
          BY <1>1, <2>3, MessageKinds
        <4>2. QED BY <4>1, <1>1 DEF Send, Zero, TypeOK
      <3>2. Waits(n)' <=> Waits(n)
        BY <1>3, <2>3 DEF Waits
      <3>3. AgeInv(n)'
        BY <1>2, <2>1, <3>1, <3>2 DEF AgeInv
      <3>4. LivelyInv(n)'
        BY <1>2, <2>1, <3>1, <3>2 DEF LivelyInv
      <3>5. QED BY <3>3, <3>4
    <2>4. QED BY <2>2, <2>3
  <1>7. QED BY <1>5, <1>6 DEF RegistryInv

LEMMA TickStep ==
  ASSUME TypeOK, RegistryInv, Tick
  PROVE  RegistryInv'
  <1>1. mailbox \in Seq(Messages) /\ Cleanup \in Messages
    BY DEF Messages, TypeOK
  <1>2. /\ up /\ UNCHANGED <<up, status>>
        /\ mailbox' = IF timer = 1 THEN Append(mailbox, Cleanup) ELSE mailbox
        /\ timer' = IF timer = 0 THEN 0 ELSE timer - 1
        /\ stalled' = IF mailbox = << >> THEN 0 ELSE stalled + 1
    BY DEF Tick
  <1>3. \A m : In(m, mailbox') <=> In(m, mailbox) \/ (timer = 1 /\ m = Cleanup)
    BY <1>1, <1>2, InAppend
  <1>4. \A m : In(m, mailbox) => mailbox # << >>
    BY DEF In
  <1>5. timer \in Nat /\ stalled \in Nat
    BY DEF TypeOK
  <1>6. MailboxInv'
    <2>1. timer' = 0 => timer = 0 \/ timer = 1
      BY <1>2, <1>5
    <2>2. timer' = 0 => In(Cleanup, mailbox')
      BY <2>1, <1>2, <1>3 DEF RegistryInv, MailboxInv
    <2>3. mailbox' = << >> => mailbox = << >>
      BY <1>1, <1>2
    <2>4. QED BY <1>2, <2>2, <2>3 DEF MailboxInv
  <1>7. ASSUME NEW n \in Nodes PROVE AgeInv(n)' /\ LivelyInv(n)'
    <2>1. AgeInv(n) /\ LivelyInv(n)
      BY DEF RegistryInv
    <2>2. Waits(n)' <=> Waits(n)
      <3>1. Beat(n) # Cleanup
        BY DEF Beat, Cleanup
      <3>2. QED BY <1>3, <3>1 DEF Waits
    <2>3. Waits(n) => stalled' = stalled + 1
      BY <1>2, <1>4 DEF Waits
    <2>4. timer = 0 => stalled' = stalled + 1
      BY <1>2, <1>4 DEF RegistryInv, MailboxInv
    <2>5. CASE status[n] = "active"
      <3>1. age'[n] = age[n] + 1 /\ silence'[n] = silence[n] + 1
        BY <2>5 DEF Tick
      <3>2. Waits(n)' => silence'[n] <= stalled'
        BY <2>1, <2>2, <2>3, <3>1, Numbers DEF AgeInv
      <3>3. silence'[n] <= age'[n] + MaxLate
        BY <2>1, <3>1, Numbers DEF AgeInv
      <3>4. age'[n] + timer' < 2 * HeartbeatTimeout + Overdue'
        <4>1. PICK d \in Nat : d = stalled'
          BY <1>2, <1>5
        <4>2. CASE timer = 0
          <5>1. timer' = 0 /\ Overdue' = stalled + 1 /\ Overdue = stalled
            BY <1>2, <2>4, <4>2 DEF Overdue
          <5>2. QED BY <2>1, <2>5, <3>1, <4>2, <5>1, Numbers DEF AgeInv
        <4>3. CASE timer # 0
          <5>1. timer' = timer - 1 /\ Overdue = 0
            BY <1>2, <4>3 DEF Overdue
          <5>2. PICK e \in Nat : e = Overdue'
            BY <4>1 DEF Overdue
          <5>3. age[n] + 1 + (timer - 1) < 2 * HeartbeatTimeout + e
            BY <2>1, <2>5, <5>1, <5>2, Numbers DEF AgeInv
          <5>4. QED BY <3>1, <5>1, <5>2, <5>3
        <4>4. QED BY <4>2, <4>3
      <3>5. AgeInv(n)'
        BY <3>2, <3>3, <3>4 DEF AgeInv
      <3>6. LivelyInv(n)'
        <4> SUFFICES ASSUME n \in lively' PROVE LivelyInv(n)'
          BY DEF LivelyInv
        <4>1. n \in lively /\ silence[n] < BeatInterval
          BY DEF Tick
        <4>2. silence'[n] <= BeatInterval
          BY <3>1, <4>1, Numbers
        <4>3. Waits(n)' => age'[n] <= BeatInterval + stalled'
          BY <2>1, <2>2, <2>3, <3>1, <4>1, Numbers DEF LivelyInv
        <4>4. ~Waits(n)' => age'[n] <= silence'[n]
          BY <2>1, <2>2, <3>1, <4>1, Numbers DEF LivelyInv
        <4>5. QED BY <1>2, <2>5, <4>2, <4>3, <4>4 DEF LivelyInv
      <3>7. QED BY <3>5, <3>6
    <2>6. CASE status[n] # "active"
      <3>1. age'[n] = 0 /\ silence'[n] = 0 /\ n \notin lively'
        BY <2>1, <2>6 DEF Tick, LivelyInv
      <3>2. 0 <= stalled' /\ 0 <= 0 + MaxLate
        BY <1>2, <1>5, FaucetAssumption
      <3>3. QED BY <1>2, <2>6, <3>1, <3>2 DEF AgeInv, LivelyInv
    <2>7. QED BY <2>5, <2>6
  <1>8. QED BY <1>6, <1>7 DEF RegistryInv

LEMMA RegisterStep ==
  ASSUME TypeOK, TypeOK', RegistryInv, Register
  PROVE  RegistryInv'
  <1> DEFINE h == Head(mailbox).node
  <1>r. ResetSafe'
    BY RecordReset, PTL
  <1>1. Receive("register") /\ UNCHANGED <<up, timer>>
    BY DEF Register
  <1>2. MailboxInv'
    BY <1>1, MailboxReceived DEF RegistryInv
  <1>3. ASSUME NEW n \in Nodes PROVE AgeInv(n)' /\ LivelyInv(n)'
    <2>1. CASE n = h /\ status[n] = "none"
      <3>1. /\ age' = Zero(age, n) /\ silence' = Zero(silence, n)
            /\ status' = [status EXCEPT ![n] = "active"]
        BY <2>1 DEF Register
      <3>2. age'[n] = 0 /\ silence'[n] = 0 /\ status'[n] = "active"
        BY <3>1 DEF Zero, TypeOK
      <3>3. QED BY <1>r, <3>2 DEF ResetSafe
    <2>2. CASE ~(n = h /\ status[n] = "none")
      <3>1. /\ age'[n] = age[n] /\ silence'[n] = silence[n] /\ status'[n] = status[n]
            /\ n \in lively' => n \in lively
        BY <2>2 DEF Register, Zero, TypeOK
      <3>2. Head(mailbox) # Beat(n)
        BY <1>1, ReceiveFacts DEF Beat
      <3>3. QED BY <1>1, <3>1, <3>2, RecordSpared DEF RegistryInv
    <2>3. QED BY <2>1, <2>2
  <1>4. QED BY <1>2, <1>3 DEF RegistryInv

LEMMA HeartbeatStep ==
  ASSUME TypeOK, TypeOK', RegistryInv, Heartbeat
  PROVE  RegistryInv'
  <1> DEFINE h == Head(mailbox).node
  <1>1. Receive("heartbeat") /\ UNCHANGED <<up, timer>>
    BY DEF Heartbeat
  <1>2. MailboxInv'
    BY <1>1, MailboxReceived DEF RegistryInv
  <1>3. ASSUME NEW n \in Nodes PROVE AgeInv(n)' /\ LivelyInv(n)'
    <2>0. AgeInv(n) /\ LivelyInv(n) /\ age' = Zero(age, h)
          /\ UNCHANGED <<status, silence, lively>>
      BY DEF RegistryInv, Heartbeat
    <2>1. CASE Head(mailbox) = Beat(n)
      <3>1. age'[n] = 0
        BY <2>0, <2>1 DEF Zero, Beat, TypeOK
      <3>2. Waits(n) /\ (Waits(n)' => stalled' = stalled)
        BY <1>1, <2>1, ReceiveFacts DEF Waits
      <3>3. silence[n] <= stalled /\ silence[n] <= 0 + MaxLate
        BY <2>0, <3>2, Numbers DEF AgeInv
      <3>4. 0 + timer' < 2 * HeartbeatTimeout + Overdue'
        <4>1. Overdue' \in Nat
          BY DEF Overdue, TypeOK
        <4>2. PICK d \in Nat : d = Overdue'
          BY <4>1
        <4>3. 0 + timer < 2 * HeartbeatTimeout + d
          BY <4>2, Numbers
        <4>4. QED BY <1>1, <4>2, <4>3
      <3>5. AgeInv(n)'
        BY <2>0, <3>1, <3>2, <3>3, <3>4 DEF AgeInv
      <3>6. LivelyInv(n)'
        BY <2>0, <3>1, <3>2, Numbers DEF LivelyInv
      <3>7. QED BY <3>5, <3>6
    <2>2. CASE Head(mailbox) # Beat(n)
      <3>1. h # n
        BY <1>1, <2>2, ReceiveFacts, MessageKinds
      <3>2. age'[n] = age[n]
        BY <2>0, <3>1 DEF Zero, TypeOK
      <3>3. QED BY <1>1, <2>0, <2>2, <3>2, RecordSpared DEF RegistryInv
    <2>3. QED BY <2>1, <2>2
  <1>4. QED BY <1>2, <1>3 DEF RegistryInv

LEMMA BanStep ==
  ASSUME TypeOK, TypeOK', RegistryInv,
         NEW kind \in {"revoke", "isolate"}, NEW new \in Banned, Ban(kind, new)
  PROVE  RegistryInv'
  <1> DEFINE h == Head(mailbox).node
  <1>r. ResetSafe'
    BY RecordReset, PTL
  <1>1. Receive(kind) /\ UNCHANGED <<up, timer>>
    BY DEF Ban
  <1>2. MailboxInv'
    BY <1>1, MailboxReceived DEF RegistryInv
  <1>3. ASSUME NEW n \in Nodes PROVE AgeInv(n)' /\ LivelyInv(n)'
    <2>1. CASE n = h /\ status[n] # "none"
      <3>1. age' = Zero(age, n) /\ silence' = Zero(silence, n) /\ lively' = lively \ {n}
        BY <2>1 DEF Ban
      <3>2. age'[n] = 0 /\ silence'[n] = 0 /\ n \notin lively'
        BY <3>1 DEF Zero, TypeOK
      <3>3. QED BY <1>r, <3>2 DEF ResetSafe
    <2>2. CASE ~(n = h /\ status[n] # "none")
      <3>1. /\ age'[n] = age[n] /\ silence'[n] = silence[n] /\ status'[n] = status[n]
            /\ n \in lively' => n \in lively
        BY <2>2 DEF Ban, Zero, TypeOK
      <3>2. Head(mailbox) # Beat(n)
        BY <1>1, ReceiveFacts DEF Beat
      <3>3. QED BY <1>1, <3>1, <3>2, RecordSpared DEF RegistryInv
    <2>3. QED BY <2>1, <2>2
  <1>4. QED BY <1>2, <1>3 DEF RegistryInv

LEMMA CleanStep ==
  ASSUME TypeOK, TypeOK', RegistryInv, CleanNodes
  PROVE  RegistryInv'
  <1>r. ResetSafe'
    BY RecordReset, PTL
  <1>1. Receive("cleanup") /\ up' = up /\ timer' = HeartbeatTimeout /\ timer' # 0
    BY FaucetAssumption DEF CleanNodes
  <1>2. MailboxInv'
    BY <1>1, MailboxReceived DEF RegistryInv
  <1>3. ASSUME NEW n \in Nodes PROVE AgeInv(n)' /\ LivelyInv(n)'
    <2>1. CASE Expired(n)
      <3>1. age'[n] = 0 /\ silence'[n] = 0 /\ n \notin lively'
        BY <2>1 DEF CleanNodes
      <3>2. QED BY <1>r, <3>1 DEF ResetSafe
    <2>2. CASE ~Expired(n)
      <3>1. /\ age'[n] = age[n] /\ silence'[n] = silence[n] /\ status'[n] = status[n]
            /\ n \in lively' => n \in lively
        BY <2>2 DEF CleanNodes
      <3>2. (Waits(n)' <=> Waits(n)) /\ (Waits(n)' => stalled' = stalled)
        <4>1. Head(mailbox) # Beat(n)
          BY <1>1, ReceiveFacts DEF Beat
        <4>2. QED BY <1>1, <4>1, ReceiveFacts DEF Waits
      <3>3. AgeInv(n) /\ LivelyInv(n)
        BY DEF RegistryInv
      <3>4. status[n] = "active" => age[n] + HeartbeatTimeout < 2 * HeartbeatTimeout + 0
        BY <2>2, Numbers DEF Expired
      <3>5. Overdue' = 0
        BY <1>1 DEF Overdue
      <3>6. AgeInv(n)'
        BY <1>1, <3>1, <3>2, <3>3, <3>4, <3>5 DEF AgeInv
      <3>7. LivelyInv(n)'
        BY <3>1, <3>2, <3>3 DEF LivelyInv
      <3>8. QED BY <3>6, <3>7
    <2>3. QED BY <2>1, <2>2
  <1>4. QED BY <1>2, <1>3 DEF RegistryInv

\* A server that has crashed, or begins, has no records.
LEMMA CrashStep ==
  ASSUME TypeOK', Crash PROVE RegistryInv'
  <1>r. ResetSafe'
    BY RecordReset, PTL
  <1>1. /\ up' = FALSE /\ mailbox' = << >> /\ stalled' = 0 /\ lively' = {}
        /\ \A n \in Nodes : status'[n] = "none" /\ age'[n] = 0 /\ silence'[n] = 0
    BY DEF Crash
  <1>2. MailboxInv'
    BY <1>1 DEF MailboxInv
  <1>3. QED BY <1>r, <1>1, <1>2 DEF ResetSafe, RegistryInv

LEMMA RestartStep ==
  ASSUME TypeOK', RegistryInv, Restart PROVE RegistryInv'
  <1>r. ResetSafe'
    BY RecordReset, PTL
  <1>1. /\ up' /\ timer' # 0
        /\ UNCHANGED <<status, age, mailbox, stalled, silence, lively>>
    BY FaucetAssumption DEF Restart
  <1>2. lively = {} /\ \A n \in Nodes : age[n] = 0 /\ silence[n] = 0
    BY DEF Restart, RegistryInv, MailboxInv
  <1>3. MailboxInv'
    BY <1>1 DEF RegistryInv, MailboxInv
  <1>4. QED BY <1>r, <1>1, <1>2, <1>3 DEF ResetSafe, RegistryInv

LEMMA RegistryStep == TypeOK /\ TypeOK' /\ RegistryInv /\ [Next]_vars => RegistryInv'
  <1> SUFFICES ASSUME TypeOK, TypeOK', RegistryInv, [Next]_vars PROVE RegistryInv'
    OBVIOUS
  <1>1. CASE \E msg \in Requests : Send(msg)
    BY <1>1, SendStep
  <1>2. CASE Tick
    BY <1>2, TickStep
  <1>3. CASE Register
    BY <1>3, RegisterStep
  <1>4. CASE Heartbeat
    BY <1>4, HeartbeatStep
  <1>a. ASSUME NEW kind \in {"authenticate", "attested"}, Receive(kind),
               UNCHANGED <<up, status, age, timer, silence, lively>>
        PROVE  RegistryInv'
    <2>1. MailboxInv'
      BY <1>a, MailboxReceived DEF RegistryInv
    <2>2. ASSUME NEW n \in Nodes PROVE AgeInv(n)' /\ LivelyInv(n)'
      <3>1. Head(mailbox) # Beat(n)
        BY <1>a, ReceiveFacts DEF Beat
      <3>2. QED BY <1>a, <3>1, RecordSpared DEF RegistryInv
    <2>3. QED BY <2>1, <2>2 DEF RegistryInv
  <1>5. CASE Authenticate \/ AuthenticateAttested
    BY <1>5, <1>a, CrashStep DEF Authenticate, AuthenticateAttested
  <1>6. CASE Revoke \/ Isolate
    BY <1>6, BanStep DEF Revoke, Isolate, Banned
  <1>7. CASE CleanNodes
    BY <1>7, CleanStep
  <1>8. CASE CleanNodesFails
    BY <1>8, CrashStep DEF CleanNodesFails
  <1>9. CASE Restart
    BY <1>9, RestartStep
  <1>10. CASE UNCHANGED vars
    BY <1>10 DEF vars, RegistryInv, MailboxInv, AgeInv, LivelyInv, Waits, Overdue
  <1>11. QED
    BY <1>1, <1>2, <1>3, <1>4, <1>5, <1>6, <1>7, <1>8, <1>9, <1>10 DEF Next

LEMMA RegistryInvariant == Spec => []RegistryInv
  <1>1. Init => RegistryInv
    <2> SUFFICES ASSUME Init PROVE RegistryInv OBVIOUS
    <2>1. TypeOK
      BY FaucetAssumption DEF Init, TypeOK, Banned
    <2>2. MailboxInv
      BY FaucetAssumption DEF Init, MailboxInv
    <2>3. \A n \in Nodes : age[n] = 0 /\ silence[n] = 0 /\ n \notin lively
      BY DEF Init
    <2>4. QED BY <2>1, <2>2, <2>3, RecordReset DEF ResetSafe, RegistryInv
  <1>2. QED BY <1>1, RegistryStep, RegistryTyping, PTL DEF Spec

\* A node that fell silent is gone after two cleanup intervals and the delay of the
\* mailbox in both of them, for any nodes, intervals and number of requests.
THEOREM SilentAreGone == Spec => []SilentGone
  <1>1. TypeOK /\ RegistryInv => SilentGone
    <2> SUFFICES ASSUME TypeOK, RegistryInv, NEW n \in Nodes, status[n] = "active"
                 PROVE  silence[n] < 2 * (HeartbeatTimeout + MaxLate)
      BY DEF SilentGone
    <2>1. silence[n] <= age[n] + MaxLate /\ age[n] + timer < 2 * HeartbeatTimeout + Overdue
      BY DEF RegistryInv, AgeInv
    <2>2. Overdue <= MaxLate
      BY Numbers DEF Overdue
    <2>3. QED BY <2>1, <2>2, Numbers
  <1>2. QED BY <1>1, RegistryInvariant, RegistryTyping, PTL

\* A node that is never silent for longer than BeatInterval keeps its record while
\* the server runs, as long as a heartbeat and the delay of the mailbox fit into the
\* timeout.
THEOREM LivelyAreKept ==
  ASSUME BeatInterval + MaxLate < HeartbeatTimeout PROVE Spec => LivelyKept
  <1>1. ASSUME TypeOK, RegistryInv, [Next]_vars
        PROVE  [up' => \A n \in lively : status'[n] # "none"]_vars
    <2> SUFFICES ASSUME Next, up', NEW n \in lively PROVE status'[n] # "none"
      BY <1>1
    <2>a. n \in Nodes
      BY <1>1 DEF TypeOK
    <2>b. status[n] = "active" /\ status \in [Nodes -> {"none", "active"} \cup Banned]
      BY <1>1, <2>a DEF RegistryInv, LivelyInv, TypeOK
    <2>c. ~Expired(n)
      <3>1. age[n] <= BeatInterval + stalled
        BY <1>1, <2>a, Numbers DEF RegistryInv, LivelyInv
      <3>2. age[n] < HeartbeatTimeout
        BY <1>1, <2>a, <3>1, Numbers
      <3>3. QED BY <1>1, <2>a, <3>2, Numbers DEF Expired
    <2>1. CASE \E msg \in Requests : Send(msg)
      BY <2>1, <2>b DEF Send
    <2>2. CASE Tick \/ Heartbeat \/ Restart
      BY <2>2, <2>b DEF Tick, Heartbeat, Restart
    <2>3. CASE Register
      BY <2>3, <2>a, <2>b DEF Register
    <2>4. CASE Authenticate \/ AuthenticateAttested
      BY <2>4, <2>b DEF Authenticate, AuthenticateAttested, Crash
    <2>5. CASE Revoke \/ Isolate
      BY <2>5, <2>a, <2>b DEF Revoke, Isolate, Ban, Banned
    <2>6. CASE CleanNodes
      BY <2>6, <2>a, <2>b, <2>c DEF CleanNodes
    <2>7. CASE CleanNodesFails
      BY <2>7 DEF CleanNodesFails, Crash
    <2>8. QED BY <2>1, <2>2, <2>3, <2>4, <2>5, <2>6, <2>7 DEF Next
  <1>2. QED BY <1>1, RegistryInvariant, RegistryTyping, PTL DEF Spec, LivelyKept
=============================================================================
