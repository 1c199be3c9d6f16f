------------------------------ MODULE MeshLayer ------------------------------
(***************************************************************************)
(* The mesh layer of src/src/wire_mesh.py: clients route tasks through it, *)
(* it reads whether the offline fallback is offline, and either queues the *)
(* task there or encrypts, routes and decrypts; the callback it registers  *)
(* drains the queue when the network is back.                              *)
(*                                                                         *)
(* It extends OfflineFallback: the monitor thread, the network and the     *)
(* queue are the ones there.  A client that was answered None (offline, or *)
(* the routing failed) may call again with the same task object, and two   *)
(* clients may pass the same one.                                          *)
(*                                                                         *)
(* Abstractions: the payload of a task is the number of times it was       *)
(* encrypted (0 is the plaintext); a mesh node fails, answers with an empty*)
(* result, or answers with the payload that it got.                        *)
(***************************************************************************)
EXTENDS OfflineFallback

CONSTANTS
  Clients,      \* threads that call route_task_encrypted
  MaxCalls      \* bound: calls of route_task_encrypted

ASSUME MeshAssumption == MaxCalls \in Nat

VARIABLES
  client,       \* control point of every client
  task,         \* the task object of the client's call
  layers,       \* task.payload: how often it was encrypted
  inHand,       \* bytes that a call works on: how often they were encrypted
  answer,       \* last answer: {} (None), or {layers of encryption of the bytes}
  routed,       \* history: tasks handed to the orchestrator
  calls         \* calls so far (bounded by MaxCalls)

meshVars == <<ofVars, client, task, layers, inHand, answer, routed, calls>>

clients == <<client, task, layers, inHand, answer, routed, calls>>

NoAnswer == {}

MeshInit ==
  /\ OfflineInit
  /\ client = [c \in Clients |-> "idle"]
  /\ task \in [Clients -> Tasks]
  /\ layers = [t \in Tasks |-> 0]
  /\ inHand = [c \in Clients |-> 0]
  /\ answer = [c \in Clients |-> NoAnswer]
  /\ routed = {}
  /\ calls = 0

ClientGoto(c, point) == client' = [client EXCEPT ![c] = point]

Answer(c, value) == ClientGoto(c, "idle") /\ answer' = [answer EXCEPT ![c] = value]

-----------------------------------------------------------------------------
(* route_task_encrypted                                                    *)

\* The call reads is_offline, outside any lock, and acts on it later.
Call(c, t) ==
  /\ client[c] = "idle"
  /\ calls < MaxCalls
  /\ calls' = calls + 1
  /\ task' = [task EXCEPT ![c] = t]
  /\ ClientGoto(c, IF state = "offline" THEN "queue" ELSE "encrypt")
  /\ UNCHANGED <<ofVars, layers, inHand, answer, routed>>

\* What queue_task returns is ignored: None is the answer in both cases.
Queue(c) ==
  /\ client[c] = "queue"
  /\ Enqueue(task[c])
  /\ Answer(c, NoAnswer)
  /\ UNCHANGED <<environment, state, owner, mon, reachable, counters, streak,
                 task, layers, inHand, routed, calls>>

\* The payload is read, and its ciphertext replaces it in the caller's task object.
ReadPayload(c) ==
  /\ client[c] = "encrypt"
  /\ inHand' = [inHand EXCEPT ![c] = layers[task[c]]]
  /\ ClientGoto(c, "store")
  /\ UNCHANGED <<ofVars, task, layers, answer, routed, calls>>

StorePayload(c) ==
  /\ client[c] = "store"
  /\ layers' = [layers EXCEPT ![task[c]] = inHand[c] + 1]
  /\ ClientGoto(c, "route")
  /\ UNCHANGED <<ofVars, task, inHand, answer, routed, calls>>

RouteFails(c) ==
  /\ client[c] = "route"
  /\ routed' = routed \union {task[c]}
  /\ Answer(c, NoAnswer)
  /\ UNCHANGED <<ofVars, task, layers, inHand, calls>>

RouteEmpty(c) ==
  /\ client[c] = "route"
  /\ routed' = routed \union {task[c]}
  /\ Answer(c, {0})
  /\ UNCHANGED <<ofVars, task, layers, inHand, calls>>

RouteEchoes(c) ==
  /\ client[c] = "route"
  /\ routed' = routed \union {task[c]}
  /\ inHand' = [inHand EXCEPT ![c] = layers[task[c]]]
  /\ ClientGoto(c, "decrypt")
  /\ UNCHANGED <<ofVars, task, layers, answer, calls>>

\* The result loses one layer of encryption (it has at least one: the node
\* answered with a payload that was encrypted before it was routed).
DecryptResult(c) ==
  /\ client[c] = "decrypt"
  /\ Answer(c, {inHand[c] - 1})
  /\ UNCHANGED <<ofVars, task, layers, inHand, routed, calls>>

ClientStep(c) ==
  \/ Queue(c) \/ ReadPayload(c) \/ StorePayload(c)
  \/ RouteFails(c) \/ RouteEmpty(c) \/ RouteEchoes(c) \/ DecryptResult(c)

-----------------------------------------------------------------------------
(* The callbacks, which run in the monitor thread after the switch.        *)

OnMeshOffline(m) ==
  /\ mon[m] = "on_offline"
  /\ IdleCallback(m)
  /\ UNCHANGED clients

\* Mutant: coming back online only logs.
OnMeshOnlineLogs(m) ==
  /\ mon[m] = "on_online"
  /\ Goto(m, "sleep")
  /\ UNCHANGED <<environment, state, tasks, owner, reachable, counters, streak, clients>>

\* The drained tasks are counted in the log and dropped.
OnMeshOnline(m) ==
  /\ mon[m] = "on_online"
  /\ Drain
  /\ Goto(m, "sleep")
  /\ UNCHANGED <<environment, state, owner, reachable, counters, streak, clients>>

\* Mutant: the queue is drained before the switch to ONLINE is made.
DrainBeforeSwitch(m) ==
  /\ mon[m] = "online"
  /\ Drain
  /\ UNCHANGED <<environment, state, owner, mon, reachable, counters, streak, clients>>

\* Mutant: see DrainBeforeSwitch.
MeshMonitorDrainsEarly(m) ==
  \/ MonitorRound(m) /\ UNCHANGED clients
  \/ OnMeshOffline(m) \/ OnMeshOnline(m) \/ DrainBeforeSwitch(m)

MeshMonitor(m) ==
  \/ MonitorRound(m) /\ UNCHANGED clients
  \/ OnMeshOffline(m) \/ OnMeshOnline(m)

MeshNext ==
  \/ (Flip \/ OwnerStep) /\ UNCHANGED clients
  \/ \E c \in Clients : ClientStep(c) \/ \E t \in Tasks : Call(c, t)
  \/ \E m \in Monitors : MeshMonitor(m)

\* The monitor threads run and a call once made goes on.
MeshFairness ==
  /\ \A m \in Monitors : WF_meshVars(MeshMonitor(m))
  /\ \A c \in Clients : WF_meshVars(ClientStep(c))

MeshSpec == MeshInit /\ [][MeshNext]_meshVars

MeshFairSpec == MeshSpec /\ MeshFairness

-----------------------------------------------------------------------------
ClientPoints == {"idle", "queue", "encrypt", "store", "route", "decrypt"}

MeshTypeOK ==
  /\ OfflineTypeOK
  /\ client \in [Clients -> ClientPoints]
  /\ task \in [Clients -> Tasks]
  /\ layers \in [Tasks -> Nat]
  /\ inHand \in [Clients -> Nat]
  /\ answer \in [Clients -> SUBSET Nat]
  /\ routed \in SUBSET Tasks
  /\ calls \in 0..MaxCalls

\* Queued tasks are released only once the service is back online, never while
\* it is offline, with one monitor thread.
ReleasedOnline == [][drained' # drained => state = "online"]_meshVars

\* A task queued while the service is offline leaves the queue once the network
\* is up for good.
NetworkUp == network /\ monitorRunning

QueuedIsDrained ==
  <>[]NetworkUp =>
    \A t \in Tasks : (t \in Queued /\ state = "offline") ~> (t \notin Queued)

\* The same for every queued task ("queued for mesh delivery when connectivity
\* returns").
NoTaskStranded ==
  <>[]NetworkUp => \A t \in Tasks : t \in Queued ~> t \notin Queued

\* A drained task is delivered to the mesh ("tasks are stored and retried when
\* connectivity returns").
DrainedIsRouted ==
  <>[]NetworkUp => \A t \in Tasks : t \in drained ~> t \in routed

\* What a client gets back is decrypted ("Encrypts payload, routes via
\* orchestrator, decrypts result").
AnswerIsPlain == \A c \in Clients : answer[c] \subseteq {0}
=============================================================================
