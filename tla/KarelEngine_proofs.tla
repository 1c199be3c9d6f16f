-------------------------- MODULE KarelEngine_proofs -------------------------
(***************************************************************************)
(* Theorems about the lifecycle, for any set of components and priorities, *)
(* and about the engine built on it.                                       *)
(*                                                                         *)
(* The order of startup and shutdown is proved for one driver that shuts   *)
(* down before it resets and whose components stop without an exception:   *)
(* each of the three assumptions is needed (README). What RUNNING and the  *)
(* started flags mean needs the first alone; types, and that nobody is     *)
(* left behind in READY, hold of any number of drivers.                    *)
(***************************************************************************)
EXTENDS KarelEngine, TLAPS

LEMMA TransitionTyped ==
  ASSUME state \in AppState, NEW s \in AppState, TransitionTo(s)
  PROVE  state' \in AppState
  BY DEF TransitionTo

LEMMA TypeInductive == TypeOK /\ [Next]_vars => TypeOK'
  <1> SUFFICES ASSUME TypeOK, [Next]_vars PROVE TypeOK' OBVIOUS
  <1> USE LifecycleAssumption
      DEF TypeOK, DriverPoints, Starting, Stopping, flags, resources, control, Goto, Return
  <1>s. {"initializing", "ready", "running", "pausing", "stopped", "error"} \subseteq AppState
    BY DEF AppState
  <1>1. ASSUME NEW d \in Drivers, Startup(d) PROVE TypeOK'
    BY <1>1 DEF Startup
  <1>2. ASSUME NEW d \in Drivers, Shutdown(d) PROVE TypeOK'
    BY <1>2 DEF Shutdown
  <1>3. ASSUME NEW d \in Drivers, Reset(d) PROVE TypeOK'
    <2>1. state' \in AppState BY <1>3, <1>s, TransitionTyped DEF Reset
    <2>2. QED BY <1>3, <2>1 DEF Reset
  <1>4. ASSUME NEW d \in Drivers, ToReady(d) PROVE TypeOK'
    <2>1. state' \in AppState BY <1>4, <1>s, TransitionTyped DEF ToReady
    <2>2. tornDown' \in BOOLEAN BY <1>4 DEF ToReady
    <2>3. QED BY <1>4, <2>1, <2>2 DEF ToReady
  <1>5. ASSUME NEW d \in Drivers, StartComponent(d) PROVE TypeOK'
    BY <1>5 DEF StartComponent, FirstOf
  <1>6. ASSUME NEW d \in Drivers, MarkStarted(d) PROVE TypeOK'
    <2>1. started' \in [Components -> BOOLEAN]
      BY <1>6 DEF MarkStarted
    <2>2. QED BY <1>6, <2>1 DEF MarkStarted
  <1>7. ASSUME NEW d \in Drivers, StartComponentFails(d) PROVE TypeOK'
    <2>1. state' \in AppState BY <1>7, <1>s, TransitionTyped DEF StartComponentFails
    <2>2. healthy' \in [Components -> BOOLEAN]
      BY <1>7 DEF StartComponentFails, FirstOf
    <2>3. QED BY <1>7, <2>1, <2>2 DEF StartComponentFails
  <1>8. ASSUME NEW d \in Drivers, ToRunning(d) PROVE TypeOK'
    <2>1. state' \in AppState BY <1>8, <1>s, TransitionTyped DEF ToRunning
    <2>2. QED BY <1>8, <2>1 DEF ToRunning
  <1>9. ASSUME NEW d \in Drivers, RaiseFlag(d) \/ LowerFlag(d) PROVE TypeOK'
    <2>1. resourceRunning' \in BOOLEAN BY <1>9 DEF RaiseFlag, LowerFlag
    <2>2. QED BY <1>9, <2>1 DEF RaiseFlag, LowerFlag
  <1>10. ASSUME NEW d \in Drivers, NEW m \in Monitors, MakeMonitor(d, m) PROVE TypeOK'
    BY <1>10 DEF MakeMonitor
  <1>11. ASSUME NEW d \in Drivers, LaunchMonitor(d) PROVE TypeOK'
    BY <1>11 DEF LaunchMonitor
  <1>12. ASSUME NEW d \in Drivers, ToPausing(d) PROVE TypeOK'
    <2>1. state' \in AppState BY <1>12, <1>s, TransitionTyped DEF ToPausing
    <2>2. QED BY <1>12, <2>1 DEF ToPausing
  <1>13. ASSUME NEW d \in Drivers, JoinMonitor(d) PROVE TypeOK'
    BY <1>13 DEF JoinMonitor
  <1>14. ASSUME NEW d \in Drivers, SkipComponent(d) \/ TestStarted(d) PROVE TypeOK'
    BY <1>14 DEF SkipComponent, TestStarted, LastOf
  <1>15. ASSUME NEW d \in Drivers, StopComponent(d) \/ StopComponentFails(d) PROVE TypeOK'
    BY <1>15 DEF StopComponent, StopComponentFails
  <1>16. ASSUME NEW d \in Drivers, ClearStarted(d) PROVE TypeOK'
    <2>1. started' \in [Components -> BOOLEAN]
      BY <1>16 DEF ClearStarted
    <2>2. QED BY <1>16, <2>1 DEF ClearStarted
  <1>17. ASSUME NEW d \in Drivers, ToStopped(d) PROVE TypeOK'
    <2>1. state' \in AppState BY <1>17, <1>s, TransitionTyped DEF ToStopped
    <2>2. tornDown' \in BOOLEAN BY <1>17 DEF ToStopped
    <2>3. QED BY <1>17, <2>1, <2>2 DEF ToStopped
  <1>18. ASSUME NEW r \in Reporters, ReportError(r) PROVE TypeOK'
    <2>1. state' \in AppState BY <1>18, <1>s, TransitionTyped DEF ReportError
    <2>2. QED BY <1>18, <2>1 DEF ReportError
  <1>19. ASSUME NEW m \in Monitors, MonitorStep(m) PROVE TypeOK'
    BY <1>19 DEF MonitorStep, MonitorTest, MonitorWake
  <1>20. CASE UNCHANGED vars
    BY <1>20 DEF vars
  <1>21. QED
    BY <1>1, <1>2, <1>3, <1>4, <1>5, <1>6, <1>7, <1>8, <1>9, <1>10, <1>11, <1>12,
       <1>13, <1>14, <1>15, <1>16, <1>17, <1>18, <1>19, <1>20 DEF Next, Progress

\* Every variable keeps its type, for any drivers, components and priorities.
THEOREM Typing == Spec => []TypeOK
  <1>1. Init => TypeOK
    <2> SUFFICES ASSUME Init PROVE TypeOK OBVIOUS
    <2>1. state \in AppState /\ pc \in [Drivers -> DriverPoints]
      BY DEF Init, AppState, DriverPoints
    <2>2. resourceRunning \in BOOLEAN /\ tornDown \in BOOLEAN
      BY DEF Init
    <2>3. started \in [Components -> BOOLEAN] /\ healthy \in [Components -> BOOLEAN]
      BY DEF Init
    <2>4. QED
      BY <2>1, <2>2, <2>3 DEF Init, TypeOK
  <1>2. QED
    BY <1>1, TypeInductive, PTL DEF Spec

-----------------------------------------------------------------------------
(* READY, from which no call leads, with any number of drivers: the        *)
(* startup that made it is the only one to leave it, and does.             *)

LEMMA ReadyStep == TypeOK /\ ReadyIsUnderway /\ [Next]_vars => ReadyIsUnderway'
  <1> SUFFICES ASSUME TypeOK, ReadyIsUnderway, [Next]_vars, state' = "ready"
               PROVE  \E d \in Drivers : pc'[d] \in Starting
    BY DEF ReadyIsUnderway
  <1> USE DEF TypeOK, Starting, flags, resources, control, Goto, Return
  <1>1. CASE \E d \in Drivers : ToReady(d)
    BY <1>1 DEF ToReady
  <1>2. ASSUME ~ \E d \in Drivers : ToReady(d) PROVE state = "ready"
    <2>1. ASSUME NEW s \in AppState \ {"ready"}, TransitionTo(s) PROVE state = "ready"
      BY <2>1 DEF TransitionTo, AppState
    <2>2. ASSUME NEW d \in Drivers, Reset(d) \/ StartComponentFails(d) \/ ToRunning(d)
                                      \/ ToPausing(d) \/ ToStopped(d)
          PROVE  state = "ready"
      BY <2>1, <2>2 DEF Reset, StartComponentFails, ToRunning, ToPausing, ToStopped, AppState
    <2>3. ASSUME NEW r \in Reporters, ReportError(r) PROVE state = "ready"
      BY <2>1, <2>3 DEF ReportError, AppState
    <2>4. ASSUME state' = state PROVE state = "ready"
      BY <2>4
    <2>5. QED
      BY <1>2, <2>2, <2>3, <2>4 DEF Next, Progress, vars, Startup, Shutdown, StartComponent,
         MarkStarted, RaiseFlag, MakeMonitor, LaunchMonitor, LowerFlag, JoinMonitor,
         SkipComponent, TestStarted, StopComponent, StopComponentFails, ClearStarted,
         MonitorStep, MonitorTest, MonitorWake
  <1>3. CASE state = "ready"
    <2>1. PICK e \in Drivers : pc[e] \in Starting
      BY <1>3 DEF ReadyIsUnderway
    <2>2. ASSUME NEW d \in Drivers, StartComponent(d) \/ MarkStarted(d)
          PROVE  \E f \in Drivers : pc'[f] \in Starting
      BY <2>2 DEF StartComponent, MarkStarted
    <2>3. ASSUME NEW d \in Drivers, StartComponentFails(d) \/ ToRunning(d) PROVE FALSE
      BY <1>3, <2>3 DEF StartComponentFails, ToRunning, TransitionTo, ValidTransitions
    <2>4. ASSUME NEW d \in Drivers, pc[d] \notin Starting,
                 \E p : pc' = [pc EXCEPT ![d] = p]
          PROVE  \E f \in Drivers : pc'[f] \in Starting
      BY <2>1, <2>4
    <2>5. ASSUME pc' = pc PROVE \E f \in Drivers : pc'[f] \in Starting
      BY <2>1, <2>5
    <2>6. ASSUME NEW d \in Drivers, Startup(d) \/ Shutdown(d) \/ ToReady(d) \/ RaiseFlag(d)
                   \/ LaunchMonitor(d) \/ (\E m \in Monitors : MakeMonitor(d, m))
                   \/ ToPausing(d) \/ LowerFlag(d) \/ JoinMonitor(d)
          PROVE  \E f \in Drivers : pc'[f] \in Starting
      BY <2>4, <2>6 DEF Startup, Shutdown, ToReady, RaiseFlag, LaunchMonitor, MakeMonitor,
         ToPausing, LowerFlag, JoinMonitor
    <2>7. ASSUME NEW d \in Drivers, TestStarted(d) \/ StopComponent(d)
                   \/ StopComponentFails(d) \/ ClearStarted(d) \/ ToStopped(d)
          PROVE  \E f \in Drivers : pc'[f] \in Starting
      BY <2>4, <2>7 DEF TestStarted, StopComponent, StopComponentFails, ClearStarted, ToStopped
    <2>8. QED
      BY <2>2, <2>3, <2>5, <2>6, <2>7 DEF Next, Progress, vars, Reset, SkipComponent,
         ReportError, MonitorStep, MonitorTest, MonitorWake
  <1>4. QED BY <1>1, <1>2, <1>3

\* An application in READY is being started, with any number of drivers, any failures
\* and resets (no transition that a caller makes leads out of READY).
THEOREM NeverStuckReady == Spec => []ReadyIsUnderway
  <1>1. Init => ReadyIsUnderway
    BY DEF Init, ReadyIsUnderway
  <1>2. QED BY <1>1, ReadyStep, Typing, PTL DEF Spec

-----------------------------------------------------------------------------
(* One driver.  Whatever fails, and however the application is reset, the  *)
(* flags tell what is up, only the walk that started everything ends in    *)
(* RUNNING, and no call raises.                                            *)

OneDriver == \A d, e \in Drivers : d = e

Up(S) == \A c \in S : started[c]

\* A flag is set after the component came up, and cleared after it went down.
FlagInv ==
  /\ StartedMeansLive
  /\ \A d \in Drivers : pc[d] = "mark" => at[d] \subseteq live

\* A monitor that was not started yet is the last one, and about to be started.
LaunchInv ==
  \A d \in Drivers, m \in Monitors :
    monitor[m] = "made" => pc[d] = "launch" /\ resourceThread = m

\* The states that the application can be in at each point of the driver: errors
\* come at any time, everything else from the driver itself.
WalkInv(d) ==
  /\ pc[d] = "ready" => state \in {"initializing", "error"} /\ todo[d] = Components
  /\ pc[d] \in Starting => state \in {"ready", "error"}
  /\ pc[d] = "starting" => Up(Components \ todo[d])
  /\ pc[d] = "mark" => Up(Components \ (todo[d] \cup at[d]))
  /\ pc[d] \in Stopping \cup {"lower", "join"} => state \in {"pausing", "error"}
  /\ pc[d] \in {"idle", "monitoring", "make", "launch"} => state \notin {"ready", "pausing"}
  /\ pc[d] = "pause" => state \in {"running", "error"}

RunningInv ==
  /\ state = "running" => Up(Components)
  /\ LaunchInv
  /\ \A d \in Drivers : WalkInv(d)

LEMMA FlagStep ==
  ASSUME OneDriver, TypeOK, FlagInv, [Next]_vars
  PROVE  FlagInv'
  <1> USE DEF FlagInv, StartedMeansLive, TypeOK, flags, resources, control, Goto, Return
  <1>1. ASSUME NEW d \in Drivers, Startup(d) \/ Shutdown(d) \/ Reset(d) \/ ToReady(d)
                 \/ ToRunning(d) \/ RaiseFlag(d) \/ LaunchMonitor(d)
                 \/ (\E m \in Monitors : MakeMonitor(d, m))
        PROVE  FlagInv'
    BY <1>1 DEF Startup, Shutdown, Reset, ToReady, ToRunning, RaiseFlag, LaunchMonitor,
       MakeMonitor, OneDriver
  <1>2. ASSUME NEW d \in Drivers, StartComponent(d) PROVE FlagInv'
    BY <1>2 DEF StartComponent, OneDriver
  <1>3. ASSUME NEW d \in Drivers, MarkStarted(d) PROVE FlagInv'
    BY <1>3 DEF MarkStarted, OneDriver
  <1>4. ASSUME NEW d \in Drivers, StartComponentFails(d) PROVE FlagInv'
    BY <1>4 DEF StartComponentFails, OneDriver
  <1>5. ASSUME NEW d \in Drivers, ToPausing(d) \/ LowerFlag(d) \/ JoinMonitor(d)
                 \/ SkipComponent(d) \/ TestStarted(d) \/ ToStopped(d)
        PROVE  FlagInv'
    BY <1>5 DEF ToPausing, LowerFlag, JoinMonitor, SkipComponent, TestStarted, ToStopped,
       OneDriver
  <1>6. ASSUME NEW d \in Drivers, StopComponent(d) PROVE FlagInv'
    BY <1>6 DEF StopComponent, OneDriver
  <1>7. ASSUME NEW d \in Drivers, StopComponentFails(d) PROVE FlagInv'
    BY <1>7 DEF StopComponentFails, OneDriver
  <1>8. ASSUME NEW d \in Drivers, ClearStarted(d) PROVE FlagInv'
    BY <1>8 DEF ClearStarted, OneDriver
  <1>9. ASSUME NEW r \in Reporters, ReportError(r) PROVE FlagInv'
    BY <1>9 DEF ReportError
  <1>10. ASSUME NEW m \in Monitors, MonitorStep(m) PROVE FlagInv'
    BY <1>10 DEF MonitorStep, MonitorTest, MonitorWake
  <1>11. CASE UNCHANGED vars
    BY <1>11 DEF vars
  <1>12. QED
    BY <1>1, <1>2, <1>3, <1>4, <1>5, <1>6, <1>7, <1>8, <1>9, <1>10, <1>11 DEF Next, Progress

LEMMA FlagInvariant == ASSUME OneDriver PROVE Spec => []FlagInv
  <1>1. Init => FlagInv
    BY DEF Init, FlagInv, StartedMeansLive
  <1>2. TypeOK /\ FlagInv /\ [Next]_vars => FlagInv'
    BY FlagStep
  <1>3. QED BY <1>1, <1>2, Typing, PTL DEF Spec

\* The started flag is set only on a component that is up, or was stopped in the step
\* before, for one driver, whatever fails and whenever it resets (shutdown calls
\* shutdown_fn by this flag; with two drivers it is false).
THEOREM FlagTruth == ASSUME OneDriver PROVE Spec => []StartedMeansLive
  <1>1. FlagInv => StartedMeansLive
    BY DEF FlagInv
  <1>2. QED BY <1>1, FlagInvariant, PTL

LEMMA RunningStep ==
  ASSUME OneDriver, TypeOK, RunningInv, [Next]_vars
  PROVE  RunningInv'
  <1> USE LifecycleAssumption
      DEF RunningInv, LaunchInv, WalkInv, Up, Starting, Stopping, TypeOK, flags, resources,
          control, Goto, Return
  <1>1. ASSUME NEW d \in Drivers, Startup(d) PROVE RunningInv'
    BY <1>1 DEF Startup, OneDriver
  <1>2. ASSUME NEW d \in Drivers, Shutdown(d) PROVE RunningInv'
    BY <1>2 DEF Shutdown, OneDriver
  <1>3. ASSUME NEW d \in Drivers, Reset(d) PROVE RunningInv'
    <2>1. state' = "initializing"
      BY <1>3 DEF Reset, TransitionTo, ValidTransitions
    <2>2. QED BY <1>3, <2>1 DEF Reset, OneDriver
  <1>4. ASSUME NEW d \in Drivers, ToReady(d) PROVE RunningInv'
    <2>1. state' \in {"ready", "error"}
      BY <1>4 DEF ToReady, TransitionTo, ValidTransitions
    <2>2. QED BY <1>4, <2>1 DEF ToReady, OneDriver
  <1>5. ASSUME NEW d \in Drivers, StartComponent(d) PROVE RunningInv'
    BY <1>5 DEF StartComponent, FirstOf, OneDriver
  <1>6. ASSUME NEW d \in Drivers, MarkStarted(d) PROVE RunningInv'
    BY <1>6 DEF MarkStarted, OneDriver
  <1>7. ASSUME NEW d \in Drivers, StartComponentFails(d) PROVE RunningInv'
    <2>1. state' = "error"
      BY <1>7 DEF StartComponentFails, TransitionTo, ValidTransitions
    <2>2. QED BY <1>7, <2>1 DEF StartComponentFails, OneDriver
  <1>8. ASSUME NEW d \in Drivers, ToRunning(d) PROVE RunningInv'
    <2>1. state' \in {"running", "error"}
      BY <1>8 DEF ToRunning, TransitionTo, ValidTransitions
    <2>2. Up(Components)
      BY <1>8 DEF ToRunning
    <2>3. QED BY <1>8, <2>1, <2>2 DEF ToRunning, OneDriver
  <1>9. ASSUME NEW d \in Drivers, RaiseFlag(d) PROVE RunningInv'
    BY <1>9 DEF RaiseFlag, OneDriver
  <1>10. ASSUME NEW d \in Drivers, NEW m \in Monitors, MakeMonitor(d, m) PROVE RunningInv'
    BY <1>10 DEF MakeMonitor, OneDriver
  <1>11. ASSUME NEW d \in Drivers, LaunchMonitor(d) PROVE RunningInv'
    BY <1>11 DEF LaunchMonitor, OneDriver
  <1>12. ASSUME NEW d \in Drivers, ToPausing(d) PROVE RunningInv'
    <2>1. state' \in {"pausing", "error"}
      BY <1>12 DEF ToPausing, TransitionTo, ValidTransitions
    <2>2. QED BY <1>12, <2>1 DEF ToPausing, OneDriver
  <1>13. ASSUME NEW d \in Drivers, LowerFlag(d) PROVE RunningInv'
    BY <1>13 DEF LowerFlag, OneDriver
  <1>14. ASSUME NEW d \in Drivers, JoinMonitor(d) PROVE RunningInv'
    BY <1>14 DEF JoinMonitor, OneDriver
  <1>15. ASSUME NEW d \in Drivers, SkipComponent(d) \/ TestStarted(d) PROVE RunningInv'
    BY <1>15 DEF SkipComponent, TestStarted, OneDriver
  <1>16. ASSUME NEW d \in Drivers, StopComponent(d) \/ StopComponentFails(d) PROVE RunningInv'
    BY <1>16 DEF StopComponent, StopComponentFails, OneDriver
  <1>17. ASSUME NEW d \in Drivers, ClearStarted(d) PROVE RunningInv'
    BY <1>17 DEF ClearStarted, OneDriver
  <1>18. ASSUME NEW d \in Drivers, ToStopped(d) PROVE RunningInv'
    <2>1. state' \in {"stopped", "error"}
      BY <1>18 DEF ToStopped, TransitionTo, ValidTransitions
    <2>2. QED BY <1>18, <2>1 DEF ToStopped, OneDriver
  <1>19. ASSUME NEW r \in Reporters, ReportError(r) PROVE RunningInv'
    <2>1. state' = "error" \/ state' = state
      BY <1>19 DEF ReportError, TransitionTo
    <2>2. QED BY <1>19, <2>1 DEF ReportError
  <1>20. ASSUME NEW m \in Monitors, MonitorStep(m) PROVE RunningInv'
    BY <1>20 DEF MonitorStep, MonitorTest, MonitorWake
  <1>21. CASE UNCHANGED vars
    BY <1>21 DEF vars
  <1>22. QED
    BY <1>1, <1>2, <1>3, <1>4, <1>5, <1>6, <1>7, <1>8, <1>9, <1>10, <1>11, <1>12, <1>13,
       <1>14, <1>15, <1>16, <1>17, <1>18, <1>19, <1>20, <1>21 DEF Next, Progress

LEMMA RunningInvariant == ASSUME OneDriver PROVE Spec => []RunningInv
  <1>1. Init => RunningInv
    BY DEF Init, RunningInv, LaunchInv, WalkInv, Starting, Stopping
  <1>2. TypeOK /\ RunningInv /\ [Next]_vars => RunningInv'
    BY RunningStep
  <1>3. QED BY <1>1, <1>2, Typing, PTL DEF Spec

\* In the state RUNNING every component is up, with one driver, for any failures of
\* startups and shutdowns, error reports at any point and resets from anywhere.
THEOREM RunningIsLive == ASSUME OneDriver PROVE Spec => []RunningMeansLive
  <1>1. FlagInv /\ RunningInv => RunningMeansLive
    BY DEF FlagInv, StartedMeansLive, RunningInv, WalkInv, Stopping, Up, RunningMeansLive
  <1>2. QED BY <1>1, RunningInvariant, FlagInvariant, PTL

\* With one driver an application in PAUSING is being shut down: no join raises, and
\* what fails in between does not end the shutdown.
THEOREM PausingIsLeft ==
  ASSUME OneDriver, Drivers # {} PROVE Spec => []PausingIsUnderway
  <1>1. TypeOK /\ RunningInv => PausingIsUnderway
    BY DEF TypeOK, DriverPoints, RunningInv, WalkInv, Starting, Stopping, PausingIsUnderway
  <1>2. QED BY <1>1, RunningInvariant, Typing, PTL

-----------------------------------------------------------------------------
(* The order of startup and shutdown.                                      *)

OneCleanDriver == OneDriver /\ CleanReset /\ ~StopMayFail

\* What is up is what is marked, but between a call and its assignment.
LiveInv ==
  \A c \in Stoppable :
    c \in live <=> \/ started[c] /\ \A d \in Drivers : ~(pc[d] = "clear" /\ c \in at[d])
                   \/ \E d \in Drivers : pc[d] = "mark" /\ c \in at[d]

\* A walk over the components: those not visited yet come after (before) the
\* visited ones in priority, and the visited ones are all up (down).
StartingInv(d) ==
  pc[d] \in Starting =>
    /\ ~tornDown
    /\ \A c \in Stoppable : c \in live <=> c \notin todo[d]
    /\ \A c \in todo[d], e \in Components \ todo[d] : Priority[e] <= Priority[c]

StoppingInv(d) ==
  pc[d] \in Stopping =>
    /\ \A c \in Stoppable \ todo[d] : c \in live => pc[d] = "tested" /\ c \in at[d]
    /\ \A c \in todo[d], e \in Components \ todo[d] : Priority[c] <= Priority[e]
    /\ pc[d] = "tested" => \E c \in Stoppable \ todo[d] : at[d] = {c} /\ c \in live

ReadyInv(d) ==
  pc[d] = "ready" => tornDown /\ todo[d] = Components /\ state \in {"initializing", "error"}

TornDownInv ==
  /\ tornDown => Stoppable \intersect live = {}
  /\ state \in {"initializing", "stopped"} => tornDown

OrderInv ==
  /\ LiveInv
  /\ TornDownInv
  /\ DependencyOrder
  /\ \A d \in Drivers : ReadyInv(d) /\ StartingInv(d) /\ StoppingInv(d)

LEMMA OrderInductive ==
  ASSUME OneCleanDriver, TypeOK, OrderInv, [Next]_vars
  PROVE  OrderInv'
  <1> USE LifecycleAssumption
      DEF OneCleanDriver, OneDriver, OrderInv, LiveInv, TornDownInv, DependencyOrder, ReadyInv,
          StartingInv, StoppingInv, Starting, Stopping, TypeOK, flags, resources, control,
          Goto, Return
  <1>1. ASSUME NEW d \in Drivers, Startup(d) PROVE OrderInv'
    BY <1>1 DEF Startup
  <1>2. ASSUME NEW d \in Drivers, Shutdown(d) PROVE OrderInv'
    BY <1>2 DEF Shutdown
  <1>3. ASSUME NEW d \in Drivers, Reset(d) PROVE OrderInv'
    BY <1>3 DEF Reset
  <1>4. ASSUME NEW d \in Drivers, ToReady(d) PROVE OrderInv'
    <2>1. state' \notin {"initializing", "stopped"}
      BY <1>4 DEF ToReady, TransitionTo, ValidTransitions
    <2>2. QED BY <1>4, <2>1 DEF ToReady
  <1>5. ASSUME NEW d \in Drivers, StartComponent(d) PROVE OrderInv'
    <2>1. PICK c \in FirstOf(todo[d]) :
            /\ live' = live \cup {c}
            /\ at' = [at EXCEPT ![d] = {c}]
            /\ todo' = [todo EXCEPT ![d] = @ \ {c}]
      BY <1>5 DEF StartComponent
    <2>2. c \in todo[d] /\ c \in Components /\ \A e \in todo[d] : Priority[c] <= Priority[e]
      BY <2>1 DEF FirstOf
    <2>3. pc[d] = "starting" /\ pc' = [pc EXCEPT ![d] = "mark"]
          /\ UNCHANGED <<state, started, tornDown>>
      BY <1>5 DEF StartComponent
    <2>4. LiveInv' /\ TornDownInv'
      BY <2>1, <2>2, <2>3
    <2>5. StartingInv(d)'
      BY <2>1, <2>2, <2>3
    <2>6. DependencyOrder'
      BY <2>1, <2>2, <2>3
    <2>7. QED BY <2>3, <2>4, <2>5, <2>6
  <1>6. ASSUME NEW d \in Drivers, MarkStarted(d) PROVE OrderInv'
    <2>1. LiveInv'
      BY <1>6 DEF MarkStarted
    <2>2. pc[d] = "mark" /\ pc' = [pc EXCEPT ![d] = "starting"]
          /\ UNCHANGED <<state, todo, live, tornDown>>
      BY <1>6 DEF MarkStarted
    <2>3. TornDownInv' /\ DependencyOrder'
      BY <2>2
    <2>4. StartingInv(d)'
      BY <2>2
    <2>5. QED BY <2>1, <2>2, <2>3, <2>4
  <1>7. ASSUME NEW d \in Drivers, StartComponentFails(d) PROVE OrderInv'
    <2>1. state' \notin {"initializing", "stopped"}
      BY <1>7 DEF StartComponentFails, TransitionTo, ValidTransitions
    <2>2. QED BY <1>7, <2>1 DEF StartComponentFails
  <1>8. ASSUME NEW d \in Drivers, ToRunning(d) PROVE OrderInv'
    <2>1. state' \notin {"initializing", "stopped"}
      BY <1>8 DEF ToRunning, TransitionTo, ValidTransitions
    <2>2. QED BY <1>8, <2>1 DEF ToRunning
  <1>9. ASSUME NEW d \in Drivers, RaiseFlag(d) \/ LowerFlag(d) \/ LaunchMonitor(d)
                 \/ \E m \in Monitors : MakeMonitor(d, m)
        PROVE  OrderInv'
    BY <1>9 DEF RaiseFlag, LowerFlag, LaunchMonitor, MakeMonitor
  <1>10. ASSUME NEW d \in Drivers, ToPausing(d) PROVE OrderInv'
    <2>1. state' \in {"initializing", "stopped"} => state' = state
      BY <1>10 DEF ToPausing, TransitionTo
    <2>2. QED BY <1>10, <2>1 DEF ToPausing
  <1>11. ASSUME NEW d \in Drivers, JoinMonitor(d) PROVE OrderInv'
    BY <1>11 DEF JoinMonitor
  <1>12. ASSUME NEW d \in Drivers, SkipComponent(d) PROVE OrderInv'
    BY <1>12 DEF SkipComponent, LastOf
  <1>13. ASSUME NEW d \in Drivers, TestStarted(d) PROVE OrderInv'
    <2>1. PICK c \in LastOf(todo[d]) :
            /\ started[c] /\ c \in Stoppable
            /\ at' = [at EXCEPT ![d] = {c}]
            /\ todo' = [todo EXCEPT ![d] = @ \ {c}]
      BY <1>13 DEF TestStarted
    <2>2. c \in todo[d] /\ c \in Components /\ \A e \in todo[d] : Priority[c] >= Priority[e]
      BY <2>1 DEF LastOf
    <2>3. pc[d] = "stopping" /\ pc' = [pc EXCEPT ![d] = "tested"]
          /\ UNCHANGED <<state, live, started, tornDown>>
      BY <1>13 DEF TestStarted
    <2>4. c \in live
      BY <2>1, <2>3
    <2>5. StoppingInv(d)'
      BY <2>1, <2>2, <2>3, <2>4
    <2>6. LiveInv' /\ TornDownInv' /\ DependencyOrder'
      BY <2>1, <2>3
    <2>7. QED BY <2>3, <2>5, <2>6
  <1>14. ASSUME NEW d \in Drivers, StopComponent(d) PROVE OrderInv'
    <2>1. pc[d] = "tested" /\ pc' = [pc EXCEPT ![d] = "clear"] /\ live' = live \ at[d]
          /\ UNCHANGED <<state, at, todo, started, tornDown>>
      BY <1>14 DEF StopComponent
    <2>2. PICK c \in Stoppable \ todo[d] : at[d] = {c} /\ c \in live
      BY <2>1
    <2>3. LiveInv' /\ TornDownInv'
      BY <2>1, <2>2
    <2>4. StoppingInv(d)'
      BY <2>1, <2>2
    <2>5. DependencyOrder'
      BY <2>1, <2>2
    <2>6. QED BY <2>1, <2>3, <2>4, <2>5
  <1>15. ASSUME NEW d \in Drivers, StopComponentFails(d) PROVE OrderInv'
    BY <1>15 DEF StopComponentFails
  <1>16. ASSUME NEW d \in Drivers, ClearStarted(d) PROVE OrderInv'
    <2>1. LiveInv'
      BY <1>16 DEF ClearStarted
    <2>2. QED BY <1>16, <2>1 DEF ClearStarted
  <1>17. ASSUME NEW d \in Drivers, ToStopped(d) PROVE OrderInv'
    BY <1>17 DEF ToStopped
  <1>18. ASSUME NEW r \in Reporters, ReportError(r) PROVE OrderInv'
    <2>1. state' = "error" \/ state' = state
      BY <1>18 DEF ReportError, TransitionTo
    <2>2. QED BY <1>18, <2>1 DEF ReportError
  <1>19. ASSUME NEW m \in Monitors, MonitorStep(m) PROVE OrderInv'
    BY <1>19 DEF MonitorStep, MonitorTest, MonitorWake
  <1>20. CASE UNCHANGED vars
    BY <1>20 DEF vars
  <1>21. QED
    BY <1>1, <1>2, <1>3, <1>4, <1>5, <1>6, <1>7, <1>8, <1>9, <1>10, <1>11, <1>12, <1>13,
       <1>14, <1>15, <1>16, <1>17, <1>18, <1>19, <1>20 DEF Next, Progress

LEMMA OrderInvariant == ASSUME OneCleanDriver PROVE Spec => []OrderInv
  <1>1. Init => OrderInv
    BY LifecycleAssumption DEF Init, OrderInv, LiveInv, TornDownInv, DependencyOrder, ReadyInv,
       StartingInv, StoppingInv, Starting, Stopping
  <1>2. TypeOK /\ OrderInv /\ [Next]_vars => OrderInv'
    BY OrderInductive
  <1>3. QED BY <1>1, <1>2, Typing, PTL DEF Spec

\* With one driver that cleans up before it resets and components that stop
\* without an exception, a component is up only while every component of lower
\* priority is (startup and shutdown order, for any table of priorities).
THEOREM OrderedStartStop == ASSUME OneCleanDriver PROVE Spec => []DependencyOrder
  <1>1. OrderInv => DependencyOrder
    BY DEF OrderInv
  <1>2. QED BY <1>1, OrderInvariant, PTL

\* Under the same assumptions a stopped application holds nothing that could have
\* been stopped (shutdown tests the flags, not the components).
THEOREM StoppedReleases == ASSUME OneCleanDriver PROVE Spec => []StoppedMeansReleased
  <1>1. OrderInv => StoppedMeansReleased
    BY DEF OrderInv, TornDownInv, StoppedMeansReleased
  <1>2. QED BY <1>1, OrderInvariant, PTL

-----------------------------------------------------------------------------
(* The abstract lifecycle: a walk of the code is a sequence of steps of    *)
(* the abstract one in the same order.                                     *)

Alive == Stoppable \intersect live

\* transition_to(ERROR) from anywhere is a failure of the abstract lifecycle.
LEMMA ErrorImplements ==
  ASSUME TypeOK, TransitionTo("error"), live' = live
  PROVE  [Promised!Next]_(Promised!vars)
  <1>1. CASE state \in {"initializing", "ready", "running", "pausing"}
    <2>1. state' = "error"
      BY <1>1 DEF TransitionTo, ValidTransitions
    <2>2. QED BY <1>1, <2>1 DEF Promised!Next, Promised!Announce
  <1>2. CASE state \in {"stopped", "error"}
    <2>1. state' = state
      BY <1>2 DEF TransitionTo, ValidTransitions
    <2>2. QED BY <2>1 DEF Promised!vars
  <1>3. QED BY <1>1, <1>2 DEF TypeOK, AppState

\* The other transitions, each of which leaves the state alone when it is refused.
LEMMA AnnounceImplements ==
  ASSUME TypeOK, NEW s \in {"ready", "running", "pausing", "stopped"},
         TransitionTo(s), live' = live,
         s = "running" => Alive = Stoppable,
         s = "stopped" => Alive = {}
  PROVE  [Promised!Next]_(Promised!vars)
  <1>1. CASE s \in ValidTransitions(state)
    <2>1. state' = s
      BY <1>1 DEF TransitionTo
    <2>2. \/ state = "initializing" /\ s = "ready"
          \/ state = "ready" /\ s = "running"
          \/ state = "running" /\ s = "pausing"
          \/ state = "pausing" /\ s = "stopped"
      BY <1>1 DEF ValidTransitions, TypeOK, AppState
    <2>3. QED BY <2>1, <2>2 DEF Promised!Next, Promised!Announce, Alive
  <1>2. CASE s \notin ValidTransitions(state)
    BY <1>2 DEF TransitionTo, Promised!vars
  <1>3. QED BY <1>1, <1>2

\* A startup function that returns brings up the next component.
LEMMA StartImplements ==
  ASSUME TypeOK, OrderInv, RunningInv, NEW d \in Drivers, StartComponent(d)
  PROVE  [Promised!Next]_(Promised!vars)
  <1> USE LifecycleAssumption DEF TypeOK, Starting
  <1>1. PICK c \in FirstOf(todo[d]) : live' = live \cup {c}
    BY DEF StartComponent
  <1>2. c \in todo[d] /\ c \in Components /\ \A e \in todo[d] : Priority[c] <= Priority[e]
    BY <1>1 DEF FirstOf
  <1>3. pc[d] = "starting" /\ state' = state /\ state \in {"ready", "error"}
    BY DEF StartComponent, RunningInv, WalkInv
  <1>4. CASE c \in Stoppable
    <2>1. c \notin live
      BY <1>2, <1>3, <1>4 DEF OrderInv, StartingInv
    <2>2. \A r \in Stoppable : Priority[r] < Priority[c] => r \in live
      BY <1>2, <1>3, <1>4 DEF OrderInv, StartingInv
    <2>3. Promised!BringUp(c)
      BY <1>1, <1>3, <1>4, <2>1, <2>2 DEF Promised!BringUp
    <2>4. QED BY <1>4, <2>3 DEF Promised!Next
  <1>5. CASE c \notin Stoppable
    <2>1. Alive' = Alive
      BY <1>1, <1>2, <1>5 DEF Alive
    <2>2. QED BY <1>3, <2>1 DEF Promised!vars, Alive
  <1>6. QED BY <1>4, <1>5

\* A shutdown function that returns takes down the next one.
LEMMA StopImplements ==
  ASSUME TypeOK, OrderInv, RunningInv, NEW d \in Drivers, StopComponent(d)
  PROVE  [Promised!Next]_(Promised!vars)
  <1> USE LifecycleAssumption DEF TypeOK, Stopping
  <1>1. pc[d] = "tested" /\ state' = state /\ live' = live \ at[d] /\ state \in {"pausing", "error"}
    BY DEF StopComponent, RunningInv, WalkInv
  <1>2. PICK c \in Stoppable \ todo[d] : at[d] = {c} /\ c \in live
    BY <1>1 DEF OrderInv, StoppingInv
  <1>3. \A r \in Alive : r \in todo[d] \/ r = c
    BY <1>1, <1>2 DEF OrderInv, StoppingInv, Alive
  <1>4. \A r \in todo[d] : Priority[r] <= Priority[c]
    BY <1>1, <1>2 DEF OrderInv, StoppingInv
  <1>5. \A r \in Alive : Priority[r] <= Priority[c]
    BY <1>2, <1>3, <1>4
  <1>6. Promised!TakeDown(c)
    BY <1>1, <1>2, <1>5 DEF Promised!TakeDown, Alive
  <1>7. QED BY <1>2, <1>6 DEF Promised!Next

LEMMA LifecycleStep ==
  ASSUME OneCleanDriver, TypeOK, OrderInv, RunningInv, [Next]_vars
  PROVE  [Promised!Next]_(Promised!vars)
  <1> USE DEF flags, resources, control, Return, Goto
  <1>0. ASSUME state' = state, live' = live PROVE [Promised!Next]_(Promised!vars)
    BY <1>0 DEF Promised!vars
  <1>1. ASSUME NEW d \in Drivers, Startup(d) \/ MarkStarted(d) \/ RaiseFlag(d) \/ LaunchMonitor(d)
                                    \/ \E m \in Monitors : MakeMonitor(d, m)
        PROVE  [Promised!Next]_(Promised!vars)
    BY <1>0, <1>1 DEF Startup, MarkStarted, RaiseFlag, LaunchMonitor, MakeMonitor
  <1>2. ASSUME NEW d \in Drivers, Shutdown(d) \/ LowerFlag(d) \/ JoinMonitor(d) \/ SkipComponent(d)
                                    \/ TestStarted(d) \/ StopComponentFails(d) \/ ClearStarted(d)
        PROVE  [Promised!Next]_(Promised!vars)
    BY <1>0, <1>2 DEF Shutdown, LowerFlag, JoinMonitor, SkipComponent, TestStarted,
       StopComponentFails, ClearStarted
  <1>3. ASSUME NEW d \in Drivers, Reset(d) PROVE [Promised!Next]_(Promised!vars)
    <2>1. state \in {"stopped", "error"} /\ state' = "initializing" /\ live' = live
      BY <1>3 DEF Reset, TransitionTo, ValidTransitions
    <2>2. Alive = {}
      BY <1>3 DEF Reset, OneCleanDriver, OrderInv, TornDownInv, Alive
    <2>3. QED BY <2>1, <2>2 DEF Promised!Next, Promised!Announce, Alive
  <1>4. ASSUME NEW d \in Drivers, ToReady(d) PROVE [Promised!Next]_(Promised!vars)
    <2>1. TransitionTo("ready") /\ live' = live
      BY <1>4 DEF ToReady
    <2>2. QED BY <2>1, AnnounceImplements
  <1>5. ASSUME NEW d \in Drivers, StartComponent(d) PROVE [Promised!Next]_(Promised!vars)
    BY <1>5, StartImplements
  <1>6. ASSUME NEW d \in Drivers, StartComponentFails(d) PROVE [Promised!Next]_(Promised!vars)
    BY <1>6, ErrorImplements DEF StartComponentFails
  <1>7. ASSUME NEW d \in Drivers, ToRunning(d) PROVE [Promised!Next]_(Promised!vars)
    <2>1. TransitionTo("running") /\ live' = live
      BY <1>7 DEF ToRunning
    <2>2. Alive = Stoppable
      BY <1>7 DEF ToRunning, OrderInv, StartingInv, Starting, Alive
    <2>3. QED BY <2>1, <2>2, AnnounceImplements
  <1>8. ASSUME NEW d \in Drivers, ToPausing(d) PROVE [Promised!Next]_(Promised!vars)
    <2>1. TransitionTo("pausing") /\ live' = live
      BY <1>8 DEF ToPausing
    <2>2. QED BY <2>1, AnnounceImplements
  <1>9. ASSUME NEW d \in Drivers, StopComponent(d) PROVE [Promised!Next]_(Promised!vars)
    BY <1>9, StopImplements
  <1>10. ASSUME NEW d \in Drivers, ToStopped(d) PROVE [Promised!Next]_(Promised!vars)
    <2>1. TransitionTo("stopped") /\ live' = live
      BY <1>10 DEF ToStopped
    <2>2. Alive = {}
      BY <1>10 DEF ToStopped, OrderInv, StoppingInv, Stopping, Alive
    <2>3. QED BY <2>1, <2>2, AnnounceImplements
  <1>11. ASSUME NEW r \in Reporters, ReportError(r) PROVE [Promised!Next]_(Promised!vars)
    BY <1>11, ErrorImplements DEF ReportError
  <1>12. ASSUME NEW m \in Monitors, MonitorStep(m) PROVE [Promised!Next]_(Promised!vars)
    BY <1>0, <1>12 DEF MonitorStep, MonitorTest, MonitorWake
  <1>13. CASE UNCHANGED vars
    BY <1>0, <1>13 DEF vars
  <1>14. QED
    BY <1>1, <1>2, <1>3, <1>4, <1>5, <1>6, <1>7, <1>8, <1>9, <1>10, <1>11, <1>12, <1>13
       DEF Next, Progress

\* Startup and shutdown, with failures, error reports and resets, do what
\* OrderedServices promises, for any components and priorities, under the assumptions
\* of OrderedStartStop.
THEOREM ServicesImplemented == ASSUME OneCleanDriver PROVE Spec => ImplementsServices
  <1>1. Init => Promised!Init
    BY LifecycleAssumption DEF Init, Promised!Init
  <1>2. OneDriver
    BY DEF OneCleanDriver
  <1>3. TypeOK /\ OrderInv /\ RunningInv /\ [Next]_vars => [Promised!Next]_(Promised!vars)
    BY LifecycleStep
  <1>4. QED
    BY <1>1, <1>2, <1>3, Typing, OrderInvariant, RunningInvariant, PTL
       DEF Spec, ImplementsServices, Promised!Spec

-----------------------------------------------------------------------------
(* The threads of the engine, from the order in which the lifecycle starts *)
(* and stops components: what runs is what is live.                        *)

\* All that the proofs need to know of the registrations: the engine's own table
\* (EngineStoppable) is such a one.
EngineTable == {"privacy", "mesh"} \subseteq Stoppable

allVars == <<vars, engineVars>>

\* A component that is up is switched on, one that is down is not, but for the
\* monitors of the MeshLayers that were started half.
MeshInv ==
  /\ meshes \in Nat
  /\ halfStarted \subseteq 1..meshes
  /\ monitoring \subseteq {meshes} \cup halfStarted
  /\ meshPurging \subseteq {meshes}
  /\ IF "mesh" \in live THEN meshes \notin halfStarted
                        ELSE monitoring \subseteq halfStarted /\ meshPurging = {}

PurgingInv == purging <=> "privacy" \in live

ThreadsInv == MeshInv /\ PurgingInv

EngineInv == TypeOK /\ OrderInv /\ ThreadsInv

\* A component changes only by its own functions, and a start that fails leaves it
\* down.
LEMMA Changes ==
  ASSUME TypeOK, OrderInv, Next, NEW c \in Stoppable
  PROVE  /\ Starts(c) => c \notin live /\ c \in live'
         /\ Stops(c) => c \in live /\ c \notin live'
         /\ ~ Starts(c) /\ ~ Stops(c) => (c \in live <=> c \in live')
         /\ FailsToStart(c) => c \notin live /\ live' = live
  <1> USE LifecycleAssumption DEF TypeOK, flags, resources, control
  <1>1. ASSUME NEW d \in Drivers, StartComponent(d)
        PROVE  /\ c \in at'[d] => c \notin live /\ c \in live'
               /\ c \notin at'[d] => (c \in live <=> c \in live')
    <2>1. PICK e \in FirstOf(todo[d]) : live' = live \cup {e} /\ at' = [at EXCEPT ![d] = {e}]
      BY <1>1 DEF StartComponent
    <2>2. at'[d] = {e} /\ e \in todo[d] /\ pc[d] = "starting"
      BY <1>1, <2>1 DEF StartComponent, FirstOf
    <2>3. QED BY <2>1, <2>2 DEF OrderInv, StartingInv, Starting
  <1>2. ASSUME NEW d \in Drivers, StopComponent(d)
        PROVE  /\ c \in at[d] => c \in live /\ c \notin live'
               /\ c \notin at[d] => (c \in live <=> c \in live')
    BY <1>2 DEF StopComponent, OrderInv, StoppingInv, Stopping
  <1>3. ASSUME NEW d \in Drivers, StartComponentFails(d)
        PROVE  live' = live /\ (c \in FirstOf(todo[d]) => c \notin live)
    BY <1>3 DEF StartComponentFails, FirstOf, OrderInv, StartingInv, Starting
  <1>4. (\E d \in Drivers : StartComponent(d) \/ StopComponent(d)) \/ live' = live
    BY DEF Next, Progress, Startup, Shutdown, Reset, ToReady, MarkStarted, StartComponentFails,
       ToRunning, RaiseFlag, MakeMonitor, LaunchMonitor, ToPausing, LowerFlag, JoinMonitor,
       SkipComponent, TestStarted, StopComponentFails, ClearStarted, ToStopped, ReportError,
       MonitorStep, MonitorTest, MonitorWake
  <1>5. Starts(c) => c \notin live /\ c \in live'
    BY <1>1 DEF Starts
  <1>6. Stops(c) => c \in live /\ c \notin live'
    BY <1>2 DEF Stops
  <1>7. ~ Starts(c) /\ ~ Stops(c) => (c \in live <=> c \in live')
    BY <1>1, <1>2, <1>4 DEF Starts, Stops
  <1>8. FailsToStart(c) => c \notin live /\ live' = live
    BY <1>3 DEF FailsToStart
  <1>9. QED BY <1>5, <1>6, <1>7, <1>8

LEMMA ThreadsStep ==
  ASSUME EngineTable, TypeOK, OrderInv, ThreadsInv, EngineNext
  PROVE  ThreadsInv'
  <1>0. Next /\ "mesh" \in Stoppable /\ "privacy" \in Stoppable
    BY DEF EngineNext, EngineTable
  <1>1. PurgingInv'
    <2>1. purging' <=> Starts("privacy") \/ (purging /\ ~ Stops("privacy"))
      BY DEF EngineNext, PrivacyEffect
    <2>2. purging <=> "privacy" \in live
      BY DEF ThreadsInv, PurgingInv
    <2>3. /\ Starts("privacy") => "privacy" \notin live /\ "privacy" \in live'
          /\ Stops("privacy") => "privacy" \in live /\ "privacy" \notin live'
          /\ ~ Starts("privacy") /\ ~ Stops("privacy") => ("privacy" \in live <=> "privacy" \in live')
      BY <1>0, Changes
    <2>4. QED BY <2>1, <2>2, <2>3 DEF PurgingInv
  <1>2. MeshEffect
    BY DEF EngineNext
  <1>3. /\ Starts("mesh") => "mesh" \notin live /\ "mesh" \in live'
        /\ Stops("mesh") => "mesh" \in live /\ "mesh" \notin live'
        /\ ~ Starts("mesh") /\ ~ Stops("mesh") => ("mesh" \in live <=> "mesh" \in live')
        /\ FailsToStart("mesh") => "mesh" \notin live /\ live' = live
    BY <1>0, Changes
  <1>4. ASSUME Starts("mesh") /\ StartMesh PROVE MeshInv'
    <2>1. meshPurging = {} /\ monitoring \subseteq halfStarted
      BY <1>3, <1>4 DEF ThreadsInv, MeshInv
    <2>2. QED BY <1>3, <1>4, <2>1 DEF ThreadsInv, MeshInv, StartMesh
  <1>5. ASSUME Stops("mesh") /\ StopMesh PROVE MeshInv'
    <2>1. monitoring' \subseteq halfStarted' /\ meshPurging' = {}
      BY <1>5 DEF ThreadsInv, MeshInv, StopMesh
    <2>2. meshes' = meshes /\ halfStarted' = halfStarted
      BY <1>5 DEF StopMesh
    <2>3. QED BY <1>3, <1>5, <2>1, <2>2 DEF ThreadsInv, MeshInv
  <1>6. ASSUME FailsToStart("mesh") /\ StartMeshFails PROVE MeshInv'
    <2>1. monitoring \subseteq halfStarted /\ meshPurging = {}
      BY <1>3, <1>6 DEF ThreadsInv, MeshInv
    <2>2. monitoring' \subseteq halfStarted' /\ meshPurging' = {}
      BY <1>6, <2>1 DEF StartMeshFails
    <2>3. meshes' \in Nat /\ halfStarted' \subseteq 1..meshes'
      <3>1. CASE UNCHANGED <<meshes, halfStarted>>
        BY <3>1 DEF ThreadsInv, MeshInv
      <3>2. CASE meshes' = meshes + 1 /\ halfStarted' = halfStarted \cup {meshes'}
        BY <3>2 DEF ThreadsInv, MeshInv
      <3>3. QED BY <1>6, <3>1, <3>2 DEF StartMeshFails
    <2>4. QED BY <1>3, <1>6, <2>2, <2>3 DEF MeshInv
  <1>7. ASSUME /\ ~ Starts("mesh") /\ ~ Stops("mesh")
               /\ UNCHANGED <<meshes, monitoring, meshPurging, halfStarted>>
        PROVE  MeshInv'
    BY <1>3, <1>7 DEF ThreadsInv, MeshInv
  <1>8. MeshInv'
    BY <1>2, <1>4, <1>5, <1>6, <1>7 DEF MeshEffect
  <1>9. QED BY <1>1, <1>8 DEF ThreadsInv

LEMMA EngineInductive ==
  ASSUME OneCleanDriver, EngineTable, EngineInv, TypeOK', [EngineNext]_allVars
  PROVE  EngineInv'
  <1>1. [Next]_vars
    BY DEF EngineNext, allVars
  <1>2. OrderInv'
    BY <1>1, OrderInductive DEF EngineInv
  <1>3. CASE EngineNext
    BY <1>2, <1>3, ThreadsStep DEF EngineInv
  <1>4. CASE UNCHANGED allVars
    BY <1>2, <1>4 DEF EngineInv, ThreadsInv, MeshInv, PurgingInv, allVars, vars, engineVars
  <1>5. QED BY <1>3, <1>4

\* The engine is a lifecycle with more state: what holds of every lifecycle holds of it.
LEMMA EngineIsLifecycle == EngineSpec => Spec
  <1>1. EngineInit => Init
    BY DEF EngineInit
  <1>2. [EngineNext]_allVars => [Next]_vars
    BY DEF EngineNext, allVars
  <1>3. QED
    BY <1>1, <1>2, PTL DEF EngineSpec, Spec, allVars

LEMMA EngineInvariant == ASSUME OneCleanDriver, EngineTable PROVE EngineSpec => []EngineInv
  <1>1. EngineSpec => []TypeOK /\ []OrderInv
    BY EngineIsLifecycle, Typing, OrderInvariant, PTL
  <1>2. EngineInit => ThreadsInv
    BY LifecycleAssumption DEF EngineTable, EngineInit, Init, ThreadsInv, MeshInv, PurgingInv
  <1>3. EngineInv /\ TypeOK' /\ [EngineNext]_allVars => EngineInv'
    BY EngineInductive
  <1>4. TypeOK /\ OrderInv /\ ThreadsInv => EngineInv
    BY DEF EngineInv
  <1>5. QED BY <1>1, <1>2, <1>3, <1>4, PTL DEF EngineSpec, allVars

\* A stop() that returns True leaves nothing of the engine switched on, but for the
\* monitors of half-started MeshLayers, also after a failed start or an error, for
\* any registrations in which privacy and mesh can be stopped.
THEOREM StopReleases == ASSUME OneCleanDriver, EngineTable PROVE EngineSpec => ReleasedByStop
  <1>1. EngineInv /\ EngineInv' /\ [EngineNext]_allVars
          => [Release => ~ purging /\ monitoring \subseteq halfStarted /\ meshPurging = {}]_allVars
    <2> SUFFICES ASSUME EngineInv, EngineInv', EngineNext, Release
                 PROVE  ~ purging /\ monitoring \subseteq halfStarted /\ meshPurging = {}
      BY DEF allVars
    <2>1. PICK d \in Drivers : ToStopped(d)
      BY DEF Release
    <2>2. pc[d] = "stopping" /\ todo[d] = {}
      BY <2>1 DEF ToStopped
    <2>3. Stoppable \intersect live = {}
      BY <2>2 DEF EngineInv, OrderInv, StoppingInv, Stopping
    <2>4. "mesh" \notin live /\ "privacy" \notin live
      BY <2>3 DEF EngineTable
    <2>5. QED BY <2>4 DEF EngineInv, ThreadsInv, MeshInv, PurgingInv
  <1>2. QED BY <1>1, EngineInvariant, PTL DEF EngineSpec, ReleasedByStop, allVars
=============================================================================
