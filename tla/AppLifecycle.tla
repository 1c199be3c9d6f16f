---------------------------- MODULE AppLifecycle ----------------------------
(***************************************************************************)
(* The application lifecycle of src/src/app_lifecycle.py: a state machine  *)
(* whose transitions are made under a lock, startup() and shutdown() that  *)
(* walk the registered components outside it, and a resource monitor       *)
(* thread that each startup creates.                                       *)
(*                                                                         *)
(* startup() and shutdown() ignore what transition_to returns, and test    *)
(* the state before the lock is taken: both are kept.  A step of a driver  *)
(* is one call it makes or one access to what other drivers use too: the   *)
(* test of a started flag, the call and the assignment are three steps.    *)
(*                                                                         *)
(* Abstractions: what a component's functions do is `live`, the components *)
(* that are up: starting one that is, or stopping one that is not, changes *)
(* nothing.  The resource figures, the uptime and the metrics are left out.*)
(***************************************************************************)
EXTENDS Integers, FiniteSets

CONSTANTS
  Drivers,         \* threads that call startup, shutdown and the reset
  Reporters,       \* threads that report an error with transition_to(ERROR)
  Components,      \* names of the registered components
  Priority,        \* [Components -> Nat]: lower starts first, stops last
  Stoppable,       \* components registered with a shutdown_fn
  Monitors,        \* identities of the resource monitor threads
  NoMonitor,       \* no monitor thread was created yet
  StopMayFail,     \* TRUE: a shutdown_fn may raise
  CleanReset,      \* TRUE: drivers reset from ERROR only after a shutdown()
  MaxErrors        \* bound: startup failures and error reports

ASSUME LifecycleAssumption ==
  /\ Drivers \intersect Reporters = {}
  /\ IsFiniteSet(Components)
  /\ Priority \in [Components -> Nat]
  /\ Stoppable \subseteq Components
  /\ NoMonitor \notin Monitors
  /\ StopMayFail \in BOOLEAN /\ CleanReset \in BOOLEAN
  /\ MaxErrors \in Nat

VARIABLES
  state,            \* self._state
  started,          \* ComponentInfo.started
  healthy,          \* ComponentInfo.healthy
  resourceRunning,  \* self._resource_running
  resourceThread,   \* self._resource_thread
  monitor,          \* control point of every resource monitor thread
  pc,               \* control point of every driver
  todo,             \* sorted_components still to be visited by the driver
  at,               \* the component whose function the driver calls, or none
  returned,         \* result of the driver's last call
  live,             \* components that are up
  tornDown,         \* a shutdown() completed since the last startup()
  errors            \* failures so far (bounded by MaxErrors)

vars == <<state, started, healthy, resourceRunning, resourceThread, monitor, pc,
          todo, at, returned, live, tornDown, errors>>

flags     == <<started, healthy>>
resources == <<resourceRunning, resourceThread, monitor>>
control   == <<pc, todo, at, returned>>

AppState == {"initializing", "ready", "running", "pausing", "stopped", "error"}

-----------------------------------------------------------------------------
(* transition_to: the table of valid transitions, applied under the lock.  *)
(* A transition that is not in the table leaves the state as it is.        *)

ValidTransitions(s) ==
  CASE s = "initializing" -> {"ready", "error"}
    [] s = "ready"        -> {"running", "error"}
    [] s = "running"      -> {"pausing", "error"}
    [] s = "pausing"      -> {"stopped", "error"}
    [] s = "stopped"      -> {"initializing"}
    [] s = "error"        -> {"initializing"}

TransitionTo(new) == state' = IF new \in ValidTransitions(state) THEN new ELSE state

-----------------------------------------------------------------------------
(* sorted(..., key=priority), and the same with reverse=True: a component   *)
(* comes before another if its priority is lower (higher); components of   *)
(* equal priority come in the order of their registration, here any order. *)

FirstOf(S) == {c \in S : \A d \in S : Priority[c] <= Priority[d]}

\* Mutant: components stop in the order in which they were started.
LastOfForward(S) == {c \in S : \A d \in S : Priority[c] <= Priority[d]}

LastOf(S) == {c \in S : \A d \in S : Priority[c] >= Priority[d]}

-----------------------------------------------------------------------------
Init ==
  /\ state = "initializing"
  /\ started = [c \in Components |-> FALSE]
  /\ healthy = [c \in Components |-> TRUE]
  /\ resourceRunning = FALSE
  /\ resourceThread = NoMonitor
  /\ monitor = [m \in Monitors |-> "unborn"]
  /\ pc = [d \in Drivers |-> "idle"]
  /\ todo = [d \in Drivers |-> {}]
  /\ at = [d \in Drivers |-> {}]
  /\ returned = [d \in Drivers |-> "none"]
  /\ live = {}
  /\ tornDown = TRUE
  /\ errors = 0

Goto(d, point) == pc' = [pc EXCEPT ![d] = point]

Return(d, value) == Goto(d, "idle") /\ returned' = [returned EXCEPT ![d] = value]

-----------------------------------------------------------------------------
(* startup()                                                               *)

Starting == {"starting", "mark"}

\* The bound on monitors leaves one for each startup under way and one more.
MonitorLeft ==
  Cardinality({d \in Drivers : pc[d] \in Starting \cup {"ready", "monitoring", "make"}})
    < Cardinality({m \in Monitors : monitor[m] = "unborn"})

Startup(d) ==
  /\ pc[d] = "idle"
  /\ MonitorLeft
  /\ IF state = "initializing"
     THEN /\ Goto(d, "ready")
          /\ todo' = [todo EXCEPT ![d] = Components]
          /\ returned' = [returned EXCEPT ![d] = "none"]
     ELSE Return(d, "refused") /\ UNCHANGED todo
  /\ UNCHANGED <<state, flags, resources, at, live, tornDown, errors>>

ToReady(d) ==
  /\ pc[d] = "ready"
  /\ TransitionTo("ready")
  /\ tornDown' = FALSE
  /\ Goto(d, "starting")
  /\ UNCHANGED <<flags, resources, todo, at, returned, live, errors>>

\* The startup function returns; its component is marked in a step of its own.
StartComponent(d) ==
  /\ pc[d] = "starting"
  /\ \E c \in FirstOf(todo[d]) :
       /\ live' = live \cup {c}
       /\ at' = [at EXCEPT ![d] = {c}]
       /\ todo' = [todo EXCEPT ![d] = @ \ {c}]
  /\ Goto(d, "mark")
  /\ UNCHANGED <<state, flags, resources, returned, tornDown, errors>>

MarkStarted(d) ==
  /\ pc[d] = "mark"
  /\ started' = [c \in Components |-> started[c] \/ c \in at[d]]
  /\ at' = [at EXCEPT ![d] = {}]
  /\ Goto(d, "starting")
  /\ UNCHANGED <<state, healthy, resources, todo, returned, live, tornDown, errors>>

\* Mutant: a failing component is skipped and the startup goes on.
StartComponentSkips(d) ==
  /\ pc[d] = "starting"
  /\ errors < MaxErrors
  /\ errors' = errors + 1
  /\ \E c \in FirstOf(todo[d]) :
       /\ healthy' = [healthy EXCEPT ![c] = FALSE]
       /\ todo' = [todo EXCEPT ![d] = @ \ {c}]
  /\ UNCHANGED <<state, started, resources, pc, at, returned, live, tornDown>>

\* Mutant: the flag is set before the startup function is called.
StartComponentFlagFirst(d) ==
  /\ pc[d] = "starting"
  /\ errors < MaxErrors
  /\ errors' = errors + 1
  /\ \E c \in FirstOf(todo[d]) :
       /\ started' = [started EXCEPT ![c] = TRUE]
       /\ healthy' = [healthy EXCEPT ![c] = FALSE]
  /\ TransitionTo("error")
  /\ Return(d, "false")
  /\ UNCHANGED <<resources, todo, at, live, tornDown>>

\* Mutant: startup returns False without the transition to ERROR.
StartComponentFailsSilently(d) ==
  /\ pc[d] = "starting"
  /\ errors < MaxErrors
  /\ errors' = errors + 1
  /\ \E c \in FirstOf(todo[d]) : healthy' = [healthy EXCEPT ![c] = FALSE]
  /\ Return(d, "false")
  /\ UNCHANGED <<state, started, resources, todo, at, live, tornDown>>

\* The startup function raises: earlier components stay started.
StartComponentFails(d) ==
  /\ pc[d] = "starting"
  /\ errors < MaxErrors
  /\ errors' = errors + 1
  /\ \E c \in FirstOf(todo[d]) : healthy' = [healthy EXCEPT ![c] = FALSE]
  /\ TransitionTo("error")
  /\ Return(d, "false")
  /\ UNCHANGED <<started, resources, todo, at, live, tornDown>>

ToRunning(d) ==
  /\ pc[d] = "starting"
  /\ todo[d] = {}
  /\ TransitionTo("running")
  /\ Goto(d, "monitoring")
  /\ UNCHANGED <<flags, resources, todo, at, returned, live, tornDown, errors>>

(* _start_resource_monitoring: the flag, the thread, and its start, which   *)
(* is that of whatever thread self._resource_thread is by then.            *)

RaiseFlag(d) ==
  /\ pc[d] = "monitoring"
  /\ resourceRunning' = TRUE
  /\ Goto(d, "make")
  /\ UNCHANGED <<state, flags, resourceThread, monitor, todo, at, returned, live,
                 tornDown, errors>>

MakeMonitor(d, m) ==
  /\ pc[d] = "make"
  /\ monitor[m] = "unborn"
  /\ resourceThread' = m
  /\ monitor' = [monitor EXCEPT ![m] = "made"]
  /\ Goto(d, "launch")
  /\ UNCHANGED <<state, flags, resourceRunning, todo, at, returned, live, tornDown,
                 errors>>

\* A thread can be started once: start() raises on one that was.
LaunchMonitor(d) ==
  /\ pc[d] = "launch"
  /\ IF monitor[resourceThread] = "made"
     THEN /\ monitor' = [monitor EXCEPT ![resourceThread] = "test"]
          /\ Return(d, "true")
     ELSE Return(d, "raised") /\ UNCHANGED monitor
  /\ UNCHANGED <<state, flags, resourceRunning, resourceThread, todo, at, live,
                 tornDown, errors>>

-----------------------------------------------------------------------------
(* shutdown()                                                              *)

Stopping == {"stopping", "tested", "clear"}

Shutdown(d) ==
  /\ pc[d] = "idle"
  /\ IF state \in {"running", "error"}
     THEN /\ Goto(d, "pause")
          /\ returned' = [returned EXCEPT ![d] = "none"]
     ELSE Return(d, "refused")
  /\ UNCHANGED <<state, flags, resources, todo, at, live, tornDown, errors>>

ToPausing(d) ==
  /\ pc[d] = "pause"
  /\ TransitionTo("pausing")
  /\ Goto(d, "lower")
  /\ UNCHANGED <<flags, resources, todo, at, returned, live, tornDown, errors>>

LowerFlag(d) ==
  /\ pc[d] = "lower"
  /\ resourceRunning' = FALSE
  /\ Goto(d, "join")
  /\ UNCHANGED <<state, flags, resourceThread, monitor, todo, at, returned, live,
                 tornDown, errors>>

\* join(timeout=3.0) returns when the thread has ended, or when it outlasts
\* three seconds: it sleeps for five, or is in a measurement that precedes it.
\* On a thread that was not started yet it raises, and shutdown with it.
JoinMonitor(d) ==
  /\ pc[d] = "join"
  /\ IF \E m \in Monitors : m = resourceThread /\ monitor[m] = "made"
     THEN Return(d, "raised") /\ UNCHANGED todo
     ELSE /\ Goto(d, "stopping")
          /\ todo' = [todo EXCEPT ![d] = Components]
          /\ UNCHANGED returned
  /\ UNCHANGED <<state, flags, resources, at, live, tornDown, errors>>

\* Components that are not started, or have no shutdown_fn, are passed over.
SkipComponent(d) ==
  /\ pc[d] = "stopping"
  /\ \E c \in LastOf(todo[d]) :
       /\ ~(started[c] /\ c \in Stoppable)
       /\ todo' = [todo EXCEPT ![d] = @ \ {c}]
  /\ UNCHANGED <<state, flags, resources, pc, at, returned, live, tornDown, errors>>

\* The others are stopped in three steps: the test, the call, the flag.
TestStarted(d) ==
  /\ pc[d] = "stopping"
  /\ \E c \in LastOf(todo[d]) :
       /\ started[c] /\ c \in Stoppable
       /\ at' = [at EXCEPT ![d] = {c}]
       /\ todo' = [todo EXCEPT ![d] = @ \ {c}]
  /\ Goto(d, "tested")
  /\ UNCHANGED <<state, flags, resources, returned, live, tornDown, errors>>

StopComponent(d) ==
  /\ pc[d] = "tested"
  /\ live' = live \ at[d]
  /\ Goto(d, "clear")
  /\ UNCHANGED <<state, flags, resources, todo, at, returned, tornDown, errors>>

\* A shutdown_fn that raises is logged and passed over; the flag stays set.
StopComponentFails(d) ==
  /\ StopMayFail
  /\ pc[d] = "tested"
  /\ errors < MaxErrors
  /\ errors' = errors + 1
  /\ at' = [at EXCEPT ![d] = {}]
  /\ Goto(d, "stopping")
  /\ UNCHANGED <<state, flags, resources, todo, returned, live, tornDown>>

ClearStarted(d) ==
  /\ pc[d] = "clear"
  /\ started' = [c \in Components |-> started[c] /\ c \notin at[d]]
  /\ at' = [at EXCEPT ![d] = {}]
  /\ Goto(d, "stopping")
  /\ UNCHANGED <<state, healthy, resources, todo, returned, live, tornDown, errors>>

ToStopped(d) ==
  /\ pc[d] = "stopping"
  /\ todo[d] = {}
  /\ TransitionTo("stopped")
  /\ tornDown' = TRUE
  /\ Return(d, "true")
  /\ UNCHANGED <<flags, resources, todo, at, live, errors>>

-----------------------------------------------------------------------------
(* transition_to called from outside: the reset, and an error report.      *)

Reset(d) ==
  /\ pc[d] = "idle"
  /\ CleanReset => tornDown
  /\ state \in {"stopped", "error"}
  /\ TransitionTo("initializing")
  /\ returned' = [returned EXCEPT ![d] = "none"]
  /\ UNCHANGED <<flags, resources, pc, todo, at, live, tornDown, errors>>

ReportError(r) ==
  /\ errors < MaxErrors
  /\ errors' = errors + 1
  /\ TransitionTo("error")
  /\ UNCHANGED <<flags, resources, control, live, tornDown>>

-----------------------------------------------------------------------------
(* _resource_loop: test the flag; otherwise measure and sleep.             *)

\* Mutant: the loop sleeps without testing the flag.
MonitorTestNever(m) ==
  /\ monitor[m] = "test"
  /\ monitor' = [monitor EXCEPT ![m] = "sleep"]
  /\ UNCHANGED <<state, flags, resourceRunning, resourceThread, control, live,
                 tornDown, errors>>

MonitorTest(m) ==
  /\ monitor[m] = "test"
  /\ monitor' = [monitor EXCEPT ![m] = IF resourceRunning THEN "sleep" ELSE "dead"]
  /\ UNCHANGED <<state, flags, resourceRunning, resourceThread, control, live,
                 tornDown, errors>>

MonitorWake(m) ==
  /\ monitor[m] = "sleep"
  /\ monitor' = [monitor EXCEPT ![m] = "test"]
  /\ UNCHANGED <<state, flags, resourceRunning, resourceThread, control, live,
                 tornDown, errors>>

-----------------------------------------------------------------------------
\* The rest of a call once it was made.
Progress(d) ==
  \/ ToReady(d) \/ StartComponent(d) \/ MarkStarted(d) \/ StartComponentFails(d)
  \/ ToRunning(d) \/ RaiseFlag(d) \/ (\E m \in Monitors : MakeMonitor(d, m))
  \/ LaunchMonitor(d)
  \/ ToPausing(d) \/ LowerFlag(d) \/ JoinMonitor(d) \/ SkipComponent(d)
  \/ TestStarted(d) \/ StopComponent(d) \/ StopComponentFails(d) \/ ClearStarted(d)
  \/ ToStopped(d)

MonitorStep(m) == MonitorTest(m) \/ MonitorWake(m)

Next ==
  \/ \E d \in Drivers : Startup(d) \/ Shutdown(d) \/ Reset(d) \/ Progress(d)
  \/ \E r \in Reporters : ReportError(r)
  \/ \E m \in Monitors : MonitorStep(m)

(* A call once made runs to its end, and the monitor threads run; nobody   *)
(* is obliged to make a call or to fail.                                   *)
Fairness ==
  /\ \A d \in Drivers : WF_vars(Progress(d))
  /\ \A m \in Monitors : WF_vars(MonitorStep(m))

Spec == Init /\ [][Next]_vars

FairSpec == Spec /\ Fairness

-----------------------------------------------------------------------------
DriverPoints ==
  {"idle", "ready", "monitoring", "make", "launch", "pause", "lower", "join"}
    \cup Starting \cup Stopping

TypeOK ==
  /\ state \in AppState
  /\ started \in [Components -> BOOLEAN]
  /\ healthy \in [Components -> BOOLEAN]
  /\ resourceRunning \in BOOLEAN
  /\ resourceThread \in Monitors \union {NoMonitor}
  /\ monitor \in [Monitors -> {"unborn", "made", "test", "sleep", "dead"}]
  /\ pc \in [Drivers -> DriverPoints]
  /\ todo \in [Drivers -> SUBSET Components]
  /\ at \in [Drivers -> SUBSET Components]
  /\ returned \in [Drivers -> {"none", "true", "false", "refused", "raised"}]
  /\ live \in SUBSET Components
  /\ tornDown \in BOOLEAN
  /\ errors \in Nat

\* In the state RUNNING every component is up (startup reaches RUNNING after
\* the last component, shutdown leaves it before the first).
RunningMeansLive ==
  state = "running" => \A c \in Components : c \in live /\ started[c]

\* A component is up only while all components of lower priority are: "lower =
\* first to start, last to stop", failed startups and later resets included.
DependencyOrder ==
  \A c, d \in Stoppable : Priority[c] < Priority[d] /\ d \in live => c \in live

\* The lifecycle implements the abstract one for the components that can be
\* stopped, with one driver that shuts down before it resets: every step of
\* startup, shutdown, a reset or an error report is one of its steps or none.
Promised == INSTANCE OrderedServices WITH
  Services <- Stoppable, Rank <- Priority, status <- state,
  up <- Stoppable \intersect live

ImplementsServices == Promised!Spec

\* A stopped application holds no component that could have been stopped.
StoppedMeansReleased == state = "stopped" => Stoppable \intersect live = {}

\* The started flag, by which shutdown chooses what to stop, is only set on a
\* component that is up, or that the same driver has just stopped: one driver
\* stops nothing that is not up, after any failures and any resets.
StartedMeansLive ==
  \A c \in Components :
    started[c] => c \in live \/ \E d \in Drivers : pc[d] = "clear" /\ c \in at[d]

\* Nothing leads out of READY but the startup that made it: startup and shutdown
\* refuse, and a reset is not a valid transition.  An application that is READY is
\* therefore being started, whatever fails and whoever calls.
ReadyIsUnderway == state = "ready" => \E d \in Drivers : pc[d] \in Starting

\* The same of PAUSING and shutdown ("RUNNING -> PAUSING -> STOPPED"): it fails with
\* two drivers, when the join meets a monitor that was not started yet.
PausingIsUnderway ==
  state = "pausing" => \E d \in Drivers : pc[d] \in Stopping \cup {"lower", "join"}

\* shutdown() that returns True leaves the application STOPPED
\* ("RUNNING -> PAUSING -> STOPPED").
ShutdownReachesStopped ==
  [][\A d \in Drivers : ToStopped(d) => state' = "stopped"]_vars

\* Monitor threads end when monitoring is stopped for good, also those that
\* outlived the join of _stop_resource_monitoring.
MonitorsEnd ==
  \A m \in Monitors :
    (monitor[m] = "sleep" /\ ~resourceRunning) ~> (monitor[m] = "dead" \/ resourceRunning)
=============================================================================
