--------------------------- MODULE MeshOrchestrator --------------------------
(***************************************************************************)
(* The mesh orchestrator of src/src/mesh_orchestrator.py: it keeps the     *)
(* registered nodes, routes tasks to the least loaded live one, and turns  *)
(* GCP burst capacity on and off by the average routing latency.           *)
(*                                                                         *)
(* Nodes are read and written under a lock, and a routing decision is one  *)
(* critical section.  The latency window, the test of the burst flag and   *)
(* _gcp_below_threshold_since are not: what route_task does after the lock *)
(* is one step per read or write, so that two callers interleave there.    *)
(*                                                                         *)
(* Abstractions: time is a clock in units of its constants; a usage report *)
(* has tenths of cpu, gpu and ram in use; latencies are small integers;    *)
(* what a node or GCP answers is success or failure.  A burst is only      *)
(* triggered and ended by the thresholds.                                  *)
(***************************************************************************)
EXTENDS Integers, Sequences, FiniteSets, Functions

CONSTANTS
  Nodes,             \* node identities
  Callers,           \* threads that call route_task
  Reports,           \* usage reports [cpu, gpu, ram], tenths
  Kinds,             \* task types
  Relevant,          \* [Nodes -> SUBSET Kinds]: capabilities of a node
  Latencies,         \* latencies a routing may take
  Window,            \* LATENCY_WINDOW_SIZE
  High, Low,         \* GCP_BURST_(DE)ACTIVATION_THRESHOLD_S
  QuietTime,         \* GCP_BURST_DEACTIVATION_DURATION_S
  HeartbeatTimeout,  \* NODE_HEARTBEAT_TIMEOUT_S
  MaxTime,           \* bound: the clock
  MaxRegistrations   \* bound: calls of register_node

Idle == [cpu |-> 0, gpu |-> 0, ram |-> 0]

ASSUME OrchestratorAssumption ==
  /\ Reports \subseteq [cpu : 0..10, gpu : 0..10, ram : 0..10] /\ Idle \in Reports
  /\ Relevant \in [Nodes -> SUBSET Kinds]
  /\ Latencies \subseteq Nat \ {0}
  /\ Window \in Nat \ {0}
  /\ Low \in Nat /\ High \in Nat /\ Low < High
  /\ QuietTime \in Nat \ {0} /\ HeartbeatTimeout \in Nat
  /\ MaxTime \in Nat /\ MaxRegistrations \in Nat

VARIABLES
  clock,          \* time.time()
  registered,     \* keys of self._nodes
  status,         \* MeshNode.status
  lastHeartbeat,  \* MeshNode.last_heartbeat
  usage,          \* MeshNode.cpu_usage, gpu_usage, ram_available_mb
  nodesGauge,     \* utl_mesh_nodes_total, the sum over its labels
  latencyWindow,  \* self._latency_window
  burst,          \* self._gcp_burst_active
  belowSince,     \* self._gcp_below_threshold_since: {} (None) or {time}
  pc,             \* control point of every caller
  nowRead,        \* local `now` of every caller
  result,         \* result of the caller's last route_task
  quietSince,     \* history: start of the current run of low averages
  registrations   \* calls of register_node (bounded by MaxRegistrations)

vars == <<clock, registered, status, lastHeartbeat, usage, nodesGauge, latencyWindow,
          burst, belowSince, pc, nowRead, result, quietSince, registrations>>

nodeVars  == <<registered, status, lastHeartbeat, usage, nodesGauge, registrations>>
burstVars == <<latencyWindow, burst, belowSince, quietSince>>

Init ==
  /\ clock = 0
  /\ registered = {}
  /\ status = [n \in Nodes |-> "inactive"]
  /\ lastHeartbeat = [n \in Nodes |-> 0]
  /\ usage = [n \in Nodes |-> Idle]
  /\ nodesGauge = 0
  /\ latencyWindow = << >>
  /\ burst = FALSE
  /\ belowSince = {}
  /\ pc = [c \in Callers |-> "idle"]
  /\ nowRead = [c \in Callers |-> 0]
  /\ result = [c \in Callers |-> "none"]
  /\ quietSince = {}
  /\ registrations = 0

Tick ==
  /\ clock < MaxTime
  /\ clock' = clock + 1
  /\ UNCHANGED <<nodeVars, burstVars, pc, nowRead, result>>

-----------------------------------------------------------------------------
(* register_node, unregister_node, update_node_heartbeat                   *)

\* A known identity is overwritten by a fresh record.
RegisterNode(n) ==
  /\ registrations < MaxRegistrations
  /\ registrations' = registrations + 1
  /\ registered' = registered \union {n}
  /\ status' = [status EXCEPT ![n] = "active"]
  /\ lastHeartbeat' = [lastHeartbeat EXCEPT ![n] = clock]
  /\ usage' = [usage EXCEPT ![n] = Idle]
  /\ nodesGauge' = nodesGauge + 1
  /\ UNCHANGED <<clock, burstVars, pc, nowRead, result>>

UnregisterNode(n) ==
  /\ n \in registered
  /\ registered' = registered \ {n}
  /\ nodesGauge' = nodesGauge - 1
  /\ UNCHANGED <<clock, status, lastHeartbeat, usage, registrations, burstVars,
                 pc, nowRead, result>>

\* Mutant: a heartbeat does not bring an inactive node back.
HeartbeatOnly(n) ==
  /\ n \in registered
  /\ lastHeartbeat' = [lastHeartbeat EXCEPT ![n] = clock]
  /\ \E r \in Reports : usage' = [usage EXCEPT ![n] = r]
  /\ UNCHANGED <<clock, registered, status, nodesGauge, registrations, burstVars,
                 pc, nowRead, result>>

UpdateNodeHeartbeat(n) ==
  /\ n \in registered
  /\ lastHeartbeat' = [lastHeartbeat EXCEPT ![n] = clock]
  /\ status' = [status EXCEPT ![n] = "active"]
  /\ \E r \in Reports : usage' = [usage EXCEPT ![n] = r]
  /\ UNCHANGED <<clock, registered, nodesGauge, registrations, burstVars,
                 pc, nowRead, result>>

-----------------------------------------------------------------------------
(* _check_node_health and _select_best_node                                *)

Fresh(n) == clock - lastHeartbeat[n] <= HeartbeatTimeout

\* Mutant: the health of the nodes is not checked before routing.
CheckedUnchecked == status

Checked ==
  [n \in Nodes |-> IF n \in registered /\ ~Fresh(n) THEN "inactive" ELSE status[n]]

Candidates == {n \in registered : Checked[n] = "active" /\ usage[n].cpu < 8}

Load(n) == 4 * usage[n].cpu + 3 * usage[n].gpu + 3 * usage[n].ram

Score(n, kind) == Load(n) - IF kind \in Relevant[n] THEN 20 ELSE 0

\* The first of the lowest scores in the order of registration, here any.
Best(kind) == {n \in Candidates : \A o \in Candidates : Score(n, kind) <= Score(o, kind)}

GetActiveNodes ==
  /\ status' = Checked
  /\ UNCHANGED <<clock, registered, lastHeartbeat, usage, nodesGauge, registrations,
                 burstVars, pc, nowRead, result>>

-----------------------------------------------------------------------------
(* route_task, the critical section                                        *)

CallerGoto(c, point) == pc' = [pc EXCEPT ![c] = point]

Answer(c, r) == result' = [result EXCEPT ![c] = r]

\* A handler that raises is a failure; there is no second choice of a node.
RouteToNode(c, kind, n) ==
  /\ pc[c] = "idle"
  /\ n \in Best(kind)
  /\ status' = Checked
  /\ \E r \in {"success", "failure"} : Answer(c, r)
  /\ CallerGoto(c, "record")
  /\ UNCHANGED <<clock, registered, lastHeartbeat, usage, nodesGauge, registrations,
                 burstVars, nowRead>>

\* An exception of the request is answered with a simulated success.
RouteToGcp(c) ==
  /\ pc[c] = "idle"
  /\ Candidates = {} /\ burst
  /\ status' = Checked
  /\ \E r \in {"success", "failure"} : Answer(c, r)
  /\ CallerGoto(c, "record")
  /\ UNCHANGED <<clock, registered, lastHeartbeat, usage, nodesGauge, registrations,
                 burstVars, nowRead>>

\* The early return: no latency is recorded and no threshold evaluated.
NoNode(c) ==
  /\ pc[c] = "idle"
  /\ Candidates = {} /\ ~burst
  /\ status' = Checked
  /\ Answer(c, "no_node")
  /\ UNCHANGED <<clock, registered, lastHeartbeat, usage, nodesGauge, registrations,
                 burstVars, pc, nowRead>>

-----------------------------------------------------------------------------
(* route_task after the lock: the window, then _evaluate_burst_thresholds  *)

RecordLatency(c) ==
  /\ pc[c] = "record"
  /\ \E l \in Latencies :
       latencyWindow' = IF Len(latencyWindow) = Window
                        THEN Append(Tail(latencyWindow), l) ELSE Append(latencyWindow, l)
  /\ CallerGoto(c, "average")
  /\ UNCHANGED <<clock, nodeVars, burst, belowSince, nowRead, result, quietSince>>

AverageAbove(bound) == SumFunction(latencyWindow) > bound * Len(latencyWindow)
AverageBelow(bound) == SumFunction(latencyWindow) < bound * Len(latencyWindow)

\* Read the average; quietSince remembers since when it has been low.
Average(c) ==
  /\ pc[c] = "average"
  /\ CallerGoto(c, IF AverageAbove(High) THEN "high"
                   ELSE IF AverageBelow(Low) THEN "low" ELSE "middle")
  /\ quietSince' = IF ~AverageBelow(Low) \/ ~burst THEN {}
                   ELSE IF quietSince = {} THEN {clock} ELSE quietSince
  /\ UNCHANGED <<clock, nodeVars, latencyWindow, burst, belowSince, nowRead, result>>

\* Read the burst flag.
TestBurst(c) ==
  /\ pc[c] \in {"high", "middle", "low"}
  /\ CallerGoto(c, IF burst THEN IF pc[c] = "low" THEN "since" ELSE "reset"
                   ELSE IF pc[c] = "high" THEN "trigger" ELSE "idle")
  /\ nowRead' = [nowRead EXCEPT ![c] = clock]
  /\ UNCHANGED <<clock, nodeVars, burstVars, result>>

\* Mutant: a latency between the thresholds does not restart the quiet time.
ResetSinceNot(c) ==
  /\ pc[c] = "reset"
  /\ CallerGoto(c, "idle")
  /\ UNCHANGED <<clock, nodeVars, burstVars, nowRead, result>>

ResetSince(c) ==
  /\ pc[c] = "reset"
  /\ belowSince' = {}
  /\ CallerGoto(c, "idle")
  /\ UNCHANGED <<clock, nodeVars, latencyWindow, burst, quietSince, nowRead, result>>

TestSince(c) ==
  /\ pc[c] = "since"
  /\ CallerGoto(c, IF belowSince = {} THEN "set" ELSE "compare")
  /\ UNCHANGED <<clock, nodeVars, burstVars, nowRead, result>>

SetSince(c) ==
  /\ pc[c] = "set"
  /\ belowSince' = {nowRead[c]}
  /\ CallerGoto(c, "idle")
  /\ UNCHANGED <<clock, nodeVars, latencyWindow, burst, quietSince, nowRead, result>>

\* now - self._gcp_below_threshold_since reads the attribute a second time.
CompareSince(c) ==
  /\ pc[c] = "compare"
  /\ IF belowSince = {}
     THEN Answer(c, "TypeError") /\ CallerGoto(c, "idle")
     ELSE /\ CallerGoto(c, IF \E t \in belowSince : nowRead[c] - t >= QuietTime
                           THEN "deactivate" ELSE "idle")
          /\ UNCHANGED result
  /\ UNCHANGED <<clock, nodeVars, burstVars, nowRead>>

TriggerBurst(c) ==
  /\ pc[c] = "trigger"
  /\ burst' = TRUE
  /\ IF burst THEN UNCHANGED <<belowSince, quietSince>>
              ELSE belowSince' = {} /\ quietSince' = {}
  /\ CallerGoto(c, "idle")
  /\ UNCHANGED <<clock, nodeVars, latencyWindow, nowRead, result>>

DeactivateBurst(c) ==
  /\ pc[c] = "deactivate"
  /\ burst' = FALSE
  /\ IF burst THEN belowSince' = {} /\ quietSince' = {}
              ELSE UNCHANGED <<belowSince, quietSince>>
  /\ CallerGoto(c, "idle")
  /\ UNCHANGED <<clock, nodeVars, latencyWindow, nowRead, result>>

RouteTask(c) ==
  \/ \E kind \in Kinds, n \in Nodes : RouteToNode(c, kind, n)
  \/ RouteToGcp(c) \/ NoNode(c)

Evaluate(c) ==
  \/ RecordLatency(c) \/ Average(c) \/ TestBurst(c) \/ ResetSince(c) \/ TestSince(c)
  \/ SetSince(c) \/ CompareSince(c) \/ TriggerBurst(c) \/ DeactivateBurst(c)

Next ==
  \/ Tick \/ GetActiveNodes
  \/ \E n \in Nodes : RegisterNode(n) \/ UnregisterNode(n) \/ UpdateNodeHeartbeat(n)
  \/ \E c \in Callers : RouteTask(c) \/ Evaluate(c)

Spec == Init /\ [][Next]_vars

\* A routing once begun ends, and tasks keep coming.
Fairness == \A c \in Callers : WF_vars(RouteTask(c)) /\ WF_vars(Evaluate(c))

FairSpec == Spec /\ Fairness

-----------------------------------------------------------------------------
CallerPoints == {"idle", "record", "average", "high", "middle", "low", "trigger", "since",
                 "reset", "set", "compare", "deactivate"}

Results == {"none", "success", "failure", "no_node", "TypeError"}

TypeOK ==
  /\ clock \in Nat
  /\ registered \in SUBSET Nodes
  /\ status \in [Nodes -> {"active", "inactive"}]
  /\ lastHeartbeat \in [Nodes -> Nat]
  /\ usage \in [Nodes -> Reports]
  /\ nodesGauge \in Int
  /\ latencyWindow \in Seq(Latencies) /\ Len(latencyWindow) <= Window
  /\ burst \in BOOLEAN
  /\ belowSince \in SUBSET Nat
  /\ pc \in [Callers -> CallerPoints]
  /\ nowRead \in [Callers -> Nat]
  /\ result \in [Callers -> Results]
  /\ quietSince \in SUBSET Nat
  /\ registrations \in Nat

\* A node that reports in time is never left out of the routing by a stale
\* status, however long it was silent before.
FreshIsActive == \A n \in registered : Fresh(n) => status[n] = "active"

\* A task is only given to a node that reported within the timeout and has less than
\* 80% of its CPU in use, and that no other such node beats: the status a routing
\* uses is brought up to date first.  Memory is no condition, only a part of the
\* load (see RoutedWithRam).
Able(n) == n \in registered /\ Fresh(n) /\ usage[n].cpu < 8

RoutedWell ==
  [][\A c \in Callers, kind \in Kinds, n \in Nodes :
       RouteToNode(c, kind, n) =>
         /\ Able(n)
         /\ \A o \in Nodes : Able(o) /\ Load(o) < Load(n) =>
              kind \in Relevant[n] /\ kind \notin Relevant[o]]_vars

\* A task is only given to a node with memory left ("Node must have capacity (CPU <
\* 80%, RAM available)"): the code does not have this property, the candidates are
\* chosen by status and CPU alone.
RoutedWithRam ==
  [][\A c \in Callers, kind \in Kinds, n \in Nodes :
       RouteToNode(c, kind, n) => usage[n].ram < 10]_vars

\* "No available nodes" is answered only when no node is able to take the task.
RefusedOnlyWithoutNodes ==
  [][\A c \in Callers : NoNode(c) => \A n \in Nodes : ~Able(n)]_vars

\* The burst ends only after the average was low for the whole quiet time
\* ("<1.5s for 5 minutes"), with one caller.
EndsAfterQuiet ==
  [][burst /\ ~burst' => \E t \in quietSince : clock - t >= QuietTime]_vars

\* No routing ends in an exception ("Thread-safe: all state modifications are
\* lock-protected").
NoTypeError == \A c \in Callers : result[c] # "TypeError"

\* The gauge shows the number of registered nodes ("Total number of registered
\* mesh nodes").
GaugeCountsNodes == nodesGauge = Cardinality(registered)

\* A mesh that refuses tasks for good, because all nodes are overloaded or
\* gone, turns the burst on ("activates GCP burst when overloaded").
OverloadBringsBurst ==
  <>[](\A n \in Nodes : ~Able(n)) => <>burst
=============================================================================
