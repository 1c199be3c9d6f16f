--------------------------- MODULE OfflineFallback --------------------------
(***************************************************************************)
(* The offline fallback of src/src/offline_fallback.py: a monitor thread   *)
(* probes the network and switches between ONLINE and OFFLINE, callers     *)
(* queue tasks meanwhile, and a callback runs in the monitor thread when   *)
(* the state changes.                                                      *)
(*                                                                         *)
(* The state is written under a lock, but tested, and the counters read    *)
(* and written, outside it: a round of the monitor is test, probe, count,  *)
(* decide, switch, callback, sleep, each a step of its own.                *)
(*                                                                         *)
(* Abstractions: the counters saturate at the thresholds they are compared *)
(* with; the payload of a task is its identity; the order of the drained   *)
(* list is left out (no caller uses it).                                   *)
(***************************************************************************)
EXTENDS Naturals, Sequences, FiniteSets

CONSTANTS
  Tasks,        \* tasks that callers may queue
  Monitors,     \* identities of the monitor threads
  NoMonitor,    \* no monitor thread was created yet
  MaxQueue,     \* MAX_QUEUED_TASKS
  Confirm,      \* RECONNECT_CONFIRM_COUNT
  MaxFlips      \* bound: changes of the network

ASSUME OfflineAssumption ==
  /\ NoMonitor \notin Monitors
  /\ MaxQueue \in Nat \ {0}
  /\ Confirm \in Nat \ {0}
  /\ MaxFlips \in Nat
  /\ IsFiniteSet(Tasks)

VARIABLES
  network,         \* TRUE while the probed host can be reached
  flips,           \* changes of the network so far (bounded by MaxFlips)
  state,           \* self._state
  queue,           \* self._task_queue
  monitorRunning,  \* self._monitor_running
  monitorThread,   \* self._monitor_thread
  mon,             \* control point of every monitor thread
  reachable,       \* local is_reachable of every monitor thread
  successes,       \* self._consecutive_successes
  failures,        \* self._consecutive_failures
  joining,         \* the owner of the service is inside stop_monitoring
  streak,          \* history: successful probes since the last failed one
  accepted,        \* history: tasks for which queue_task returned True
  drained          \* history: tasks returned by drain_queue

ofVars == <<network, flips, state, queue, monitorRunning, monitorThread, mon,
            reachable, successes, failures, joining, streak, accepted, drained>>

environment == <<network, flips>>
tasks       == <<queue, accepted, drained>>
owner       == <<monitorRunning, monitorThread, joining>>
counters    == <<successes, failures>>

Queued == {queue[i] : i \in DOMAIN queue}

AtMost(n, bound) == IF n < bound THEN n ELSE bound

-----------------------------------------------------------------------------
OfflineInit ==
  /\ network = TRUE
  /\ flips = 0
  /\ state = "online"
  /\ queue = << >>
  /\ monitorRunning = FALSE
  /\ monitorThread = NoMonitor
  /\ mon = [m \in Monitors |-> "unborn"]
  /\ reachable = [m \in Monitors |-> FALSE]
  /\ successes = 0
  /\ failures = 0
  /\ joining = FALSE
  /\ streak = 0
  /\ accepted = {}
  /\ drained = {}

\* The network comes and goes.
Flip ==
  /\ flips < MaxFlips
  /\ flips' = flips + 1
  /\ network' = ~network
  /\ UNCHANGED <<state, tasks, owner, mon, reachable, counters, streak>>

-----------------------------------------------------------------------------
(* queue_task and drain_queue, each one critical section.                  *)

\* Mutant: no test for a full queue, so that deque(maxlen) drops the oldest.
EnqueueEvicting(t) ==
  /\ queue' = IF Len(queue) >= MaxQueue THEN Append(Tail(queue), t) ELSE Append(queue, t)
  /\ accepted' = accepted \union {t}
  /\ UNCHANGED drained

Enqueue(t) ==
  /\ IF Len(queue) >= MaxQueue
     THEN UNCHANGED <<queue, accepted>>
     ELSE queue' = Append(queue, t) /\ accepted' = accepted \union {t}
  /\ UNCHANGED drained

Drain ==
  /\ drained' = drained \union Queued
  /\ queue' = << >>
  /\ UNCHANGED accepted

QueueTask(t) ==
  /\ t \notin accepted
  /\ Enqueue(t)
  /\ UNCHANGED <<environment, state, owner, mon, reachable, counters, streak>>

DrainQueue ==
  /\ Drain
  /\ UNCHANGED <<environment, state, owner, mon, reachable, counters, streak>>

-----------------------------------------------------------------------------
(* start_monitoring and stop_monitoring, called by the owner of the        *)
(* service.                                                                *)

StartMonitoring(m) ==
  /\ ~joining
  /\ ~monitorRunning
  /\ mon[m] = "unborn"
  /\ monitorRunning' = TRUE
  /\ monitorThread' = m
  /\ mon' = [mon EXCEPT ![m] = "test"]
  /\ UNCHANGED <<environment, state, tasks, joining, reachable, counters, streak>>

StopMonitoring ==
  /\ ~joining
  /\ monitorRunning' = FALSE
  /\ joining' = (monitorThread # NoMonitor)
  /\ UNCHANGED <<environment, state, tasks, monitorThread, mon, reachable, counters, streak>>

\* join(timeout=3.0): the thread has ended, or a round that began just before
\* (a probe of two seconds and a sleep of one) outlasts the three seconds.
JoinMonitor ==
  /\ joining
  /\ joining' = FALSE
  /\ UNCHANGED <<environment, state, tasks, monitorRunning, monitorThread, mon,
                 reachable, counters, streak>>

-----------------------------------------------------------------------------
(* _monitor_loop                                                           *)

Goto(m, point) == mon' = [mon EXCEPT ![m] = point]

MonitorTest(m) ==
  /\ mon[m] = "test"
  /\ Goto(m, IF monitorRunning THEN "probe" ELSE "dead")
  /\ UNCHANGED <<environment, state, tasks, owner, reachable, counters, streak>>

CheckConnectivity(m) ==
  /\ mon[m] = "probe"
  /\ reachable' = [reachable EXCEPT ![m] = network]
  /\ streak' = IF network THEN AtMost(streak + 1, Confirm) ELSE 0
  /\ Goto(m, "count")
  /\ UNCHANGED <<environment, state, tasks, owner, counters>>

\* Mutant: a failed probe does not reset the count of successes.
CountKeepsSuccesses(m) ==
  /\ mon[m] = "count"
  /\ IF reachable[m]
     THEN failures' = 0 /\ successes' = AtMost(successes + 1, Confirm)
     ELSE failures' = 1 /\ UNCHANGED successes
  /\ Goto(m, "decide")
  /\ UNCHANGED <<environment, state, tasks, owner, reachable, streak>>

\* Mutant: a good probe begins the count anew instead of raising it.
CountRestarts(m) ==
  /\ mon[m] = "count"
  /\ IF reachable[m]
     THEN failures' = 0 /\ successes' = 1
     ELSE failures' = 1 /\ successes' = 0
  /\ Goto(m, "decide")
  /\ UNCHANGED <<environment, state, tasks, owner, reachable, streak>>

Count(m) ==
  /\ mon[m] = "count"
  /\ IF reachable[m]
     THEN failures' = 0 /\ successes' = AtMost(successes + 1, Confirm)
     ELSE failures' = 1 /\ successes' = 0
  /\ Goto(m, "decide")
  /\ UNCHANGED <<environment, state, tasks, owner, reachable, streak>>

\* Mutant: a failing probe is counted, but nobody tests the count.
DecideNeverOffline(m) ==
  /\ mon[m] = "decide"
  /\ Goto(m, IF reachable[m] /\ state = "offline" /\ successes >= Confirm
             THEN "online" ELSE "sleep")
  /\ UNCHANGED <<environment, state, tasks, owner, reachable, counters, streak>>

Decide(m) ==
  /\ mon[m] = "decide"
  /\ Goto(m, IF reachable[m] /\ state = "offline" /\ successes >= Confirm THEN "online"
             ELSE IF ~reachable[m] /\ state = "online" /\ failures >= 1 THEN "offline"
             ELSE "sleep")
  /\ UNCHANGED <<environment, state, tasks, owner, reachable, counters, streak>>

\* _go_online and _go_offline test the state again under the lock; the
\* callback runs only if they changed it.
GoOnline(m) ==
  /\ mon[m] = "online"
  /\ state' = "online"
  /\ Goto(m, IF state = "online" THEN "sleep" ELSE "on_online")
  /\ UNCHANGED <<environment, tasks, owner, reachable, counters, streak>>

GoOffline(m) ==
  /\ mon[m] = "offline"
  /\ state' = "offline"
  /\ Goto(m, IF state = "offline" THEN "sleep" ELSE "on_offline")
  /\ UNCHANGED <<environment, tasks, owner, reachable, counters, streak>>

\* A callback that touches nothing of this component (see MeshLayer).
IdleCallback(m) ==
  /\ mon[m] \in {"on_online", "on_offline"}
  /\ Goto(m, "sleep")
  /\ UNCHANGED <<environment, state, tasks, owner, reachable, counters, streak>>

Sleep(m) ==
  /\ mon[m] = "sleep"
  /\ Goto(m, "test")
  /\ UNCHANGED <<environment, state, tasks, owner, reachable, counters, streak>>

MonitorRound(m) ==
  \/ MonitorTest(m) \/ CheckConnectivity(m) \/ Count(m) \/ Decide(m)
  \/ GoOnline(m) \/ GoOffline(m) \/ Sleep(m)

OwnerStep == (\E m \in Monitors : StartMonitoring(m)) \/ StopMonitoring \/ JoinMonitor

OfflineNext ==
  \/ Flip
  \/ \E t \in Tasks : QueueTask(t)
  \/ DrainQueue
  \/ OwnerStep
  \/ \E m \in Monitors : MonitorRound(m) \/ IdleCallback(m)

\* The monitor threads run; the network and the callers owe nothing.
OfflineFairness == \A m \in Monitors : WF_ofVars(MonitorRound(m) \/ IdleCallback(m))

OfflineSpec == OfflineInit /\ [][OfflineNext]_ofVars

OfflineFairSpec == OfflineSpec /\ OfflineFairness

-----------------------------------------------------------------------------
MonitorPoints == {"unborn", "test", "probe", "count", "decide", "online", "offline",
                  "on_online", "on_offline", "sleep", "dead"}

OfflineTypeOK ==
  /\ network \in BOOLEAN
  /\ flips \in Nat
  /\ state \in {"online", "offline"}
  /\ queue \in Seq(Tasks) /\ Len(queue) <= MaxQueue
  /\ monitorRunning \in BOOLEAN
  /\ monitorThread \in Monitors \union {NoMonitor}
  /\ mon \in [Monitors -> MonitorPoints]
  /\ reachable \in [Monitors -> BOOLEAN]
  /\ successes \in 0..Confirm
  /\ failures \in 0..1
  /\ joining \in BOOLEAN
  /\ streak \in 0..Confirm
  /\ accepted \in SUBSET Tasks
  /\ drained \in SUBSET Tasks

\* A task that queue_task accepted stays in the queue until it is drained, at
\* the limit of the queue too (deque(maxlen) would drop the oldest silently).
AcceptedIsKept == accepted = Queued \union drained

\* The service goes back online only after the threshold of consecutive
\* successful probes (RECONNECT_CONFIRM_COUNT), with one monitor thread.
ReconnectConfirmed == [][state = "offline" /\ state' = "online" => streak >= Confirm]_ofVars

\* A lost network is noticed in the end while the monitor runs.
LossDetected ==
  []<>(state = "offline" \/ network \/ ~monitorRunning)

\* A network that stays up brings the service back online.
Reconnects ==
  <>[](network /\ monitorRunning) => <>[](state = "online")
=============================================================================
