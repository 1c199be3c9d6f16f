----------------------- MODULE MeshOrchestrator_proofs -----------------------
(***************************************************************************)
(* Theorems about the nodes and the routing of MeshOrchestrator, for any   *)
(* nodes, callers, reports and thresholds, and about its burst, for one    *)
(* caller.                                                                 *)
(***************************************************************************)
EXTENDS MeshOrchestrator, TLAPS

LEMMA CheckedTyped == TypeOK => Checked \in [Nodes -> {"active", "inactive"}]
  BY DEF Checked, TypeOK

\* The window keeps its limit when a latency is recorded.
LEMMA WindowTyped ==
  ASSUME TypeOK, NEW c \in Callers, RecordLatency(c)
  PROVE  latencyWindow' \in Seq(Latencies) /\ Len(latencyWindow') <= Window
  BY OrchestratorAssumption DEF TypeOK, RecordLatency

\* Every variable keeps its type, whatever nodes come and go and however the
\* callers interleave after the lock.
THEOREM Typing == Spec => []TypeOK
  <1>1. Init => TypeOK
    <2> SUFFICES ASSUME Init PROVE TypeOK OBVIOUS
    <2>1. burst \in BOOLEAN BY DEF Init
    <2>2. latencyWindow \in Seq(Latencies) /\ Len(latencyWindow) <= Window
      BY OrchestratorAssumption DEF Init
    <2>3. Idle \in Reports BY OrchestratorAssumption
    <2>4. QED BY <2>1, <2>2, <2>3 DEF Init, TypeOK, CallerPoints, Results
  <1>2. TypeOK /\ [Next]_vars => TypeOK'
    <2> SUFFICES ASSUME TypeOK, [Next]_vars PROVE TypeOK' OBVIOUS
    <2> USE OrchestratorAssumption
        DEF TypeOK, CallerPoints, Results, nodeVars, burstVars, CallerGoto, Answer
    <2>1. CASE Tick BY <2>1 DEF Tick
    <2>2. CASE GetActiveNodes BY <2>2, CheckedTyped DEF GetActiveNodes
    <2>3. ASSUME NEW n \in Nodes, RegisterNode(n) PROVE TypeOK' BY <2>3 DEF RegisterNode
    <2>4. ASSUME NEW n \in Nodes, UnregisterNode(n) PROVE TypeOK'
      BY <2>4 DEF UnregisterNode
    <2>5. ASSUME NEW n \in Nodes, UpdateNodeHeartbeat(n) PROVE TypeOK'
      BY <2>5 DEF UpdateNodeHeartbeat
    <2>6. ASSUME NEW c \in Callers, NEW kind \in Kinds, NEW n \in Nodes,
                 RouteToNode(c, kind, n)
          PROVE  TypeOK'
      BY <2>6, CheckedTyped DEF RouteToNode
    <2>7. ASSUME NEW c \in Callers, RouteToGcp(c) PROVE TypeOK'
      BY <2>7, CheckedTyped DEF RouteToGcp
    <2>8. ASSUME NEW c \in Callers, NoNode(c) PROVE TypeOK'
      BY <2>8, CheckedTyped DEF NoNode
    <2>9. ASSUME NEW c \in Callers, RecordLatency(c) PROVE TypeOK'
      BY <2>9, WindowTyped DEF RecordLatency
    <2>10. ASSUME NEW c \in Callers, Average(c) PROVE TypeOK'
      <3>1. quietSince' \in SUBSET Nat BY <2>10 DEF Average
      <3>2. pc' \in [Callers -> CallerPoints] BY <2>10 DEF Average
      <3>3. QED BY <2>10, <3>1, <3>2 DEF Average
    <2>11. ASSUME NEW c \in Callers, TestBurst(c) PROVE TypeOK' BY <2>11 DEF TestBurst
    <2>12. ASSUME NEW c \in Callers, ResetSince(c) PROVE TypeOK' BY <2>12 DEF ResetSince
    <2>13. ASSUME NEW c \in Callers, TestSince(c) PROVE TypeOK' BY <2>13 DEF TestSince
    <2>14. ASSUME NEW c \in Callers, SetSince(c) PROVE TypeOK' BY <2>14 DEF SetSince
    <2>15. ASSUME NEW c \in Callers, CompareSince(c) PROVE TypeOK'
      BY <2>15 DEF CompareSince
    <2>16. ASSUME NEW c \in Callers, TriggerBurst(c) PROVE TypeOK'
      <3>1. burst' \in BOOLEAN BY <2>16 DEF TriggerBurst
      <3>2. belowSince' \in SUBSET Nat /\ quietSince' \in SUBSET Nat
        BY <2>16 DEF TriggerBurst
      <3>3. QED BY <2>16, <3>1, <3>2 DEF TriggerBurst
    <2>17. ASSUME NEW c \in Callers, DeactivateBurst(c) PROVE TypeOK'
      <3>1. burst' \in BOOLEAN BY <2>17 DEF DeactivateBurst
      <3>2. belowSince' \in SUBSET Nat /\ quietSince' \in SUBSET Nat
        BY <2>17 DEF DeactivateBurst
      <3>3. QED BY <2>17, <3>1, <3>2 DEF DeactivateBurst
    <2>18. CASE UNCHANGED vars BY <2>18 DEF vars
    <2>19. QED
      BY <2>1, <2>2, <2>3, <2>4, <2>5, <2>6, <2>7, <2>8, <2>9, <2>10, <2>11, <2>12,
         <2>13, <2>14, <2>15, <2>16, <2>17, <2>18
         DEF Next, RouteTask, Evaluate
  <1>3. QED BY <1>1, <1>2, PTL DEF Spec

-----------------------------------------------------------------------------
\* A check of the health only changes nodes that are not fresh.
LEMMA CheckedFresh ==
  ASSUME FreshIsActive, NEW n \in Nodes, n \in registered, Fresh(n)
  PROVE  Checked[n] = "active"
  BY DEF FreshIsActive, Checked

LEMMA FreshInductive ==
  ASSUME TypeOK, FreshIsActive, [Next]_vars PROVE FreshIsActive'
  <1> USE DEF TypeOK, FreshIsActive, Fresh, nodeVars
  <1>1. CASE Tick BY <1>1, OrchestratorAssumption DEF Tick
  <1>2. ASSUME status' = Checked, UNCHANGED <<clock, registered, lastHeartbeat>>
        PROVE  FreshIsActive'
    BY <1>2, CheckedFresh
  <1>3. ASSUME NEW n \in Nodes, RegisterNode(n) PROVE FreshIsActive'
    BY <1>3 DEF RegisterNode
  <1>4. ASSUME NEW n \in Nodes, UnregisterNode(n) PROVE FreshIsActive'
    BY <1>4 DEF UnregisterNode
  <1>5. ASSUME NEW n \in Nodes, UpdateNodeHeartbeat(n) PROVE FreshIsActive'
    BY <1>5 DEF UpdateNodeHeartbeat
  <1>6. ASSUME NEW c \in Callers, RouteTask(c) PROVE FreshIsActive'
    BY <1>6, <1>2 DEF RouteTask, RouteToNode, RouteToGcp, NoNode
  <1>7. ASSUME NEW c \in Callers, Evaluate(c) PROVE UNCHANGED <<clock, nodeVars>>
    BY <1>7 DEF Evaluate, RecordLatency, Average, TestBurst, ResetSince, TestSince,
                SetSince, CompareSince, TriggerBurst, DeactivateBurst
  <1>8. CASE UNCHANGED vars BY <1>8 DEF vars
  <1>9. QED BY <1>1, <1>2, <1>3, <1>4, <1>5, <1>6, <1>7, <1>8 DEF Next, GetActiveNodes

\* A node that reports in time is active in every reachable state.
THEOREM FreshStaysActive == Spec => []FreshIsActive
  <1>1. Init => FreshIsActive BY DEF Init, FreshIsActive
  <1>2. TypeOK /\ FreshIsActive /\ [Next]_vars => FreshIsActive' BY FreshInductive
  <1>3. QED BY <1>1, <1>2, Typing, PTL DEF Spec

\* The nodes a routing chooses from are those that are able to take the task.
LEMMA CandidatesAreAble ==
  ASSUME TypeOK, FreshIsActive PROVE \A n \in Nodes : n \in Candidates <=> Able(n)
  BY DEF TypeOK, FreshIsActive, Candidates, Checked, Able

LEMMA LoadTyped == TypeOK => \A n \in Nodes : Load(n) \in Int
  <1> SUFFICES ASSUME TypeOK, NEW n \in Nodes PROVE Load(n) \in Int OBVIOUS
  <1>1. usage[n] \in [cpu : 0..10, gpu : 0..10, ram : 0..10]
    BY OrchestratorAssumption DEF TypeOK
  <1>2. usage[n].cpu \in Int /\ usage[n].gpu \in Int /\ usage[n].ram \in Int BY <1>1
  <1>3. QED BY <1>2 DEF Load

\* Tasks go to an able node that no other beats on load alone, in every step.
THEOREM RoutesWell == Spec => RoutedWell
  <1>1. ASSUME TypeOK, FreshIsActive, NEW c \in Callers, NEW kind \in Kinds, NEW n \in Nodes,
               RouteToNode(c, kind, n)
        PROVE  /\ Able(n)
               /\ \A o \in Nodes : Able(o) /\ Load(o) < Load(n) =>
                    kind \in Relevant[n] /\ kind \notin Relevant[o]
    <2>1. n \in Candidates /\ \A o \in Candidates : Score(n, kind) <= Score(o, kind)
      BY <1>1 DEF RouteToNode, Best
    <2>2. Able(n) BY <1>1, <2>1, CandidatesAreAble
    <2>3. ASSUME NEW o \in Nodes, Able(o), Load(o) < Load(n)
          PROVE  kind \in Relevant[n] /\ kind \notin Relevant[o]
      <3>1. Score(n, kind) <= Score(o, kind) BY <1>1, <2>1, <2>3, CandidatesAreAble
      <3>2. Load(n) \in Int /\ Load(o) \in Int
        BY <1>1, LoadTyped
      <3>3. /\ Score(n, kind) = Load(n) - IF kind \in Relevant[n] THEN 20 ELSE 0
            /\ Score(o, kind) = Load(o) - IF kind \in Relevant[o] THEN 20 ELSE 0
        BY DEF Score
      <3>4. QED BY <2>3, <3>1, <3>2, <3>3
    <2>4. QED BY <2>2, <2>3
  <1>2. TypeOK /\ FreshIsActive /\ [Next]_vars =>
          [\A c \in Callers, kind \in Kinds, n \in Nodes :
             RouteToNode(c, kind, n) =>
               /\ Able(n)
               /\ \A o \in Nodes : Able(o) /\ Load(o) < Load(n) =>
                    kind \in Relevant[n] /\ kind \notin Relevant[o]]_vars
    BY <1>1
  <1>3. QED BY <1>2, Typing, FreshStaysActive, PTL DEF Spec, RoutedWell

\* A task is refused for lack of a node only when no node is able to take it.
THEOREM RefusesOnlyWithoutNodes == Spec => RefusedOnlyWithoutNodes
  <1>1. TypeOK /\ FreshIsActive /\ [Next]_vars =>
          [\A c \in Callers : NoNode(c) => \A n \in Nodes : ~Able(n)]_vars
    BY CandidatesAreAble DEF NoNode
  <1>2. QED BY <1>1, Typing, FreshStaysActive, PTL DEF Spec, RefusedOnlyWithoutNodes

-----------------------------------------------------------------------------
(* The quiet time.  With one caller, _gcp_below_threshold_since is never    *)
(* earlier than the averages became low: it is unset while the burst is    *)
(* off, and a caller that has seen another average is on its way to reset  *)
(* it.                                                                     *)

OneCaller == \A c, d \in Callers : c = d

QuietInv ==
  /\ ~burst => belowSince = {}
  /\ \A q \in quietSince : q <= clock
  /\ \A c \in Callers :
       /\ pc[c] \in {"since", "set", "compare", "deactivate", "reset"} => burst
       /\ pc[c] = "trigger" => ~burst
       /\ pc[c] \notin {"high", "middle", "reset"} =>
            \A t \in belowSince : \E q \in quietSince : q <= t
       /\ pc[c] = "low" /\ burst => \E q \in quietSince : q <= clock
       /\ pc[c] \in {"since", "set", "compare", "deactivate"} =>
            nowRead[c] <= clock /\ \E q \in quietSince : q <= nowRead[c]
       /\ pc[c] = "deactivate" => \E t \in belowSince : nowRead[c] - t >= QuietTime

LEMMA QuietStep ==
  ASSUME OneCaller, TypeOK, QuietInv, [Next]_vars PROVE QuietInv'
  <1> USE DEF OneCaller, QuietInv, nodeVars, burstVars, CallerGoto
  <1>a. ASSUME UNCHANGED <<burst, belowSince, quietSince, clock, pc, nowRead>> PROVE QuietInv'
    BY <1>a
  <1>b. pc \in [Callers -> CallerPoints] /\ nowRead \in [Callers -> Nat] /\ clock \in Nat
        /\ belowSince \subseteq Nat /\ quietSince \subseteq Nat
    BY DEF TypeOK
  <1>1. CASE Tick
    <2>1. UNCHANGED <<burst, belowSince, quietSince, pc, nowRead>> /\ clock' = clock + 1
      BY <1>1 DEF Tick
    <2>2. \A n \in Nat : n <= clock => n <= clock'
      BY <1>b, <2>1
    <2>3. \A c \in Callers : nowRead[c] \in Nat
      BY <1>b
    <2>4. \A q \in quietSince : q \in Nat
      BY <1>b
    <2>5. QED BY <2>1, <2>2, <2>3, <2>4
  <1>2. CASE GetActiveNodes BY <1>2, <1>a DEF GetActiveNodes
  <1>3. ASSUME NEW n \in Nodes, RegisterNode(n) \/ UnregisterNode(n) \/ UpdateNodeHeartbeat(n)
        PROVE  QuietInv'
    BY <1>3, <1>a DEF RegisterNode, UnregisterNode, UpdateNodeHeartbeat
  <1>4. ASSUME NEW c \in Callers, RouteTask(c) PROVE QuietInv'
    <2>1. UNCHANGED <<burst, belowSince, quietSince, clock, nowRead>>
      BY <1>4 DEF RouteTask, RouteToNode, RouteToGcp, NoNode
    <2>2. pc[c] = "idle" /\ (pc' = [pc EXCEPT ![c] = "record"] \/ pc' = pc)
      BY <1>4 DEF RouteTask, RouteToNode, RouteToGcp, NoNode
    <2>3. QED BY <1>b, <2>1, <2>2
  <1>5. ASSUME NEW c \in Callers, RecordLatency(c) PROVE QuietInv'
    BY <1>5, <1>b DEF RecordLatency
  <1>6. ASSUME NEW c \in Callers, Average(c) PROVE QuietInv'
    <2>1. UNCHANGED <<burst, belowSince, clock, nowRead>> /\ pc[c] = "average"
      BY <1>6 DEF Average
    <2>2. \A t \in belowSince : \E q \in quietSince : q <= t
      BY <2>1
    <2>a. \A q \in quietSince' : q <= clock
      <3>1. quietSince' \subseteq quietSince \union {clock}
        BY <1>6 DEF Average
      <3>2. QED BY <1>b, <3>1
    <2>3. CASE pc'[c] = "low"
      <3>1. AverageBelow(Low)
        BY <1>6, <1>b, <2>3 DEF Average
      <3>2. CASE burst
        <4>1. quietSince' = IF quietSince = {} THEN {clock} ELSE quietSince
          BY <1>6, <3>1, <3>2 DEF Average
        <4>2. \A t \in belowSince : \E q \in quietSince' : q <= t
          BY <2>2, <4>1
        <4>3. QED BY <1>6, <1>b, <2>1, <2>3, <2>a, <4>1, <4>2
      <3>3. CASE ~burst
        <4>1. belowSince' = {}
          BY <2>1, <3>3
        <4>2. QED BY <2>1, <2>3, <2>a, <3>3, <4>1
      <3>4. QED BY <3>2, <3>3
    <2>4. CASE pc'[c] # "low"
      <3>1. pc'[c] \in {"high", "middle"}
        BY <1>6, <1>b, <2>4 DEF Average
      <3>2. QED BY <2>1, <2>a, <3>1
    <2>5. QED BY <2>3, <2>4
  <1>7. ASSUME NEW c \in Callers, TestBurst(c) PROVE QuietInv'
    <2>1. UNCHANGED <<burst, belowSince, quietSince, clock>> /\ nowRead'[c] = clock
          /\ pc[c] \in {"high", "middle", "low"}
      BY <1>7, <1>b DEF TestBurst
    <2>2. CASE burst /\ pc[c] = "low"
      <3>1. pc'[c] = "since"
        BY <1>7, <1>b, <2>2 DEF TestBurst
      <3>2. QED BY <1>b, <2>1, <2>2, <3>1
    <2>3. CASE burst /\ pc[c] # "low"
      <3>1. pc'[c] = "reset"
        BY <1>7, <1>b, <2>3 DEF TestBurst
      <3>2. QED BY <2>1, <2>3, <3>1
    <2>4. CASE ~burst
      <3>1. pc'[c] \in {"trigger", "idle"}
        BY <1>7, <1>b, <2>4 DEF TestBurst
      <3>2. QED BY <2>1, <2>4, <3>1
    <2>5. QED BY <2>2, <2>3, <2>4
  <1>8. ASSUME NEW c \in Callers, ResetSince(c) PROVE QuietInv'
    BY <1>8, <1>b DEF ResetSince
  <1>9. ASSUME NEW c \in Callers, TestSince(c) PROVE QuietInv'
    BY <1>9, <1>b DEF TestSince
  <1>10. ASSUME NEW c \in Callers, SetSince(c) PROVE QuietInv'
    BY <1>10, <1>b DEF SetSince
  <1>11. ASSUME NEW c \in Callers, CompareSince(c) PROVE QuietInv'
    <2>1. UNCHANGED <<burst, belowSince, quietSince, clock, nowRead>> /\ pc[c] = "compare"
      BY <1>11 DEF CompareSince
    <2>2. CASE pc'[c] = "idle"
      BY <2>1, <2>2
    <2>3. CASE pc'[c] = "deactivate"
      <3>1. \E t \in belowSince : nowRead[c] - t >= QuietTime
        BY <1>11, <1>b, <2>3 DEF CompareSince
      <3>2. QED BY <2>1, <2>3, <3>1
    <2>4. QED BY <1>11, <1>b, <2>2, <2>3 DEF CompareSince
  <1>12. ASSUME NEW c \in Callers, TriggerBurst(c) PROVE QuietInv'
    BY <1>12, <1>b DEF TriggerBurst
  <1>13. ASSUME NEW c \in Callers, DeactivateBurst(c) PROVE QuietInv'
    BY <1>13, <1>b DEF DeactivateBurst
  <1>14. CASE UNCHANGED vars BY <1>14, <1>a DEF vars
  <1>15. QED
    BY <1>1, <1>2, <1>3, <1>4, <1>5, <1>6, <1>7, <1>8, <1>9, <1>10, <1>11, <1>12, <1>13, <1>14
       DEF Next, Evaluate

\* With one caller, the burst ends only after the average was low for the whole
\* quiet time (_evaluate_burst_thresholds), for any window, thresholds and times.
THEOREM BurstEndsAfterQuiet == ASSUME OneCaller PROVE Spec => EndsAfterQuiet
  <1>1. Init => QuietInv
    BY DEF Init, QuietInv
  <1>2. TypeOK /\ QuietInv /\ [Next]_vars => QuietInv'
    BY OneCaller, QuietStep
  <1>3. TypeOK /\ QuietInv /\ [Next]_vars =>
          [burst /\ ~burst' => \E t \in quietSince : clock - t >= QuietTime]_vars
    <2> SUFFICES ASSUME TypeOK, QuietInv, Next, burst, ~burst'
                 PROVE  \E t \in quietSince : clock - t >= QuietTime
      BY DEF vars
    <2>1. PICK c \in Callers : DeactivateBurst(c)
      BY DEF Next, RouteTask, RouteToNode, RouteToGcp, NoNode, Evaluate, Tick, GetActiveNodes,
         RegisterNode, UnregisterNode, UpdateNodeHeartbeat, RecordLatency, Average, TestBurst,
         ResetSince, TestSince, SetSince, CompareSince, TriggerBurst, nodeVars, burstVars
    <2>2. pc[c] = "deactivate"
      BY <2>1 DEF DeactivateBurst
    <2>3. nowRead[c] <= clock /\ \E t \in belowSince : nowRead[c] - t >= QuietTime
      BY <2>2 DEF QuietInv
    <2>4. PICK t \in belowSince : nowRead[c] - t >= QuietTime
      BY <2>3
    <2>5. PICK q \in quietSince : q <= t
      BY <2>2 DEF QuietInv
    <2>6. nowRead[c] \in Nat /\ clock \in Nat /\ t \in Nat /\ q \in Nat /\ QuietTime \in Nat
      BY <2>4, <2>5, OrchestratorAssumption DEF TypeOK
    <2>7. clock - q >= QuietTime
      BY <2>3, <2>4, <2>5, <2>6
    <2>8. QED BY <2>7
  <1>4. QED BY <1>1, <1>2, <1>3, Typing, PTL DEF Spec, EndsAfterQuiet
=============================================================================
