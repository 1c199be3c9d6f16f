------------------------- MODULE StreamDubber_proofs -------------------------
(***************************************************************************)
(* Theorems of the dubbing pipeline, for any callers and any capacity of   *)
(* the capture queue.                                                      *)
(***************************************************************************)
EXTENDS StreamDubber, TLAPS

THEOREM Typing == Spec => []TypeOK
  <1> USE DubberAssumption DEF TypeOK, Mode, Point, ModePoints, StartPoints, StopPoints,
        LoopPoint, CapturePoint
  <1>1. Init => TypeOK
    <2> SUFFICES ASSUME Init PROVE TypeOK
      OBVIOUS
    <2>1. running \in BOOLEAN /\ voiceTried \in BOOLEAN /\ capturing \in BOOLEAN
            /\ overlapped \in BOOLEAN /\ lateLoop \in BOOLEAN /\ lateCapture \in BOOLEAN
      BY DEF Init
    <2>2. queued \in 0..MaxQueue /\ starts \in Nat
      BY DEF Init
    <2>3. QED BY <2>1, <2>2 DEF Init
  <1>2. TypeOK /\ [Next]_vars => TypeOK'
    <2> SUFFICES ASSUME TypeOK, [Next]_vars PROVE TypeOK'
      OBVIOUS
    <2> USE DEF dubVars, capVars, callVars, history, Goto, LoopGoto, CaptureGoto
    <2>1. ASSUME NEW c \in Callers, NEW m \in Mode, SetMode(c, m) PROVE TypeOK'
      BY <2>1 DEF SetMode
    <2>2. ASSUME NEW c \in Callers, Stop(c) PROVE TypeOK'
      BY <2>2 DEF Stop, Overlap
    <2>3. ASSUME NEW c \in Callers, CheckMode(c) PROVE TypeOK'
      BY <2>3 DEF CheckMode
    <2>4. ASSUME NEW c \in Callers, LoadTts(c) PROVE TypeOK'
      BY <2>4 DEF LoadTts
    <2>5. ASSUME NEW c \in Callers, Enter(c) PROVE TypeOK'
      <3>1. CASE running
        BY <2>5, <3>1 DEF Enter
      <3>2. CASE ~running
        <4>1. starts' \in Nat /\ pc' \in [Callers -> Point]
          BY <2>5, <3>2 DEF Enter
        <4>2. /\ running' \in BOOLEAN /\ overlapped' \in BOOLEAN
              /\ lateLoop' \in BOOLEAN /\ lateCapture' \in BOOLEAN
          BY <2>5, <3>2 DEF Enter, Overlap
        <4>3. QED BY <2>5, <3>2, <4>1, <4>2 DEF Enter
      <3>3. QED BY <3>1, <3>2
    <2>6. ASSUME NEW c \in Callers, Voice(c) PROVE TypeOK'
      BY <2>6 DEF Voice
    <2>7. ASSUME NEW c \in Callers, CaptureTest(c) PROVE TypeOK'
      BY <2>7 DEF CaptureTest
    <2>8. ASSUME NEW c \in Callers, CaptureArm(c) \/ CaptureMake(c) \/ CaptureGo(c)
          PROVE TypeOK'
      <3>1. CASE CaptureArm(c)
        BY <3>1 DEF CaptureArm
      <3>2. CASE CaptureMake(c)
        BY <3>2 DEF CaptureMake, Unused
      <3>3. CASE CaptureGo(c)
        BY <3>3 DEF CaptureGo
      <3>4. QED BY <2>8, <3>1, <3>2, <3>3
    <2>9. ASSUME NEW c \in Callers, Make(c) \/ Go(c) PROVE TypeOK'
      BY <2>9 DEF Make, Go, Unused, StartRaises
    <2>10. ASSUME NEW c \in Callers,
                  \/ StopCapture(c) \/ ClearCapture(c) \/ RecorderStored(c)
                  \/ RecorderAlive(c) \/ AwaitCapture(c)
           PROVE TypeOK'
      BY <2>10 DEF StopCapture, ClearCapture, RecorderStored, RecorderAlive, AwaitCapture
    <2>11. ASSUME NEW c \in Callers, JoinCapture(c) PROVE TypeOK'
      BY <2>11 DEF JoinCapture
    <2>12. ASSUME NEW c \in Callers, StopLoop(c) \/ AwaitLoop(c) PROVE TypeOK'
      BY <2>12 DEF StopLoop, AwaitLoop
    <2>13. ASSUME NEW c \in Callers, JoinLoop(c) PROVE TypeOK'
      BY <2>13 DEF JoinLoop
    <2>14. ASSUME NEW k \in Threads, CaptureStep(k) PROVE TypeOK'
      <3>1. CASE CaptureLoop(k) \/ Record(k)
        BY <3>1 DEF CaptureLoop, Record
      <3>2. CASE Put(k)
        <4>1. queued' \in 0..MaxQueue
          BY <3>2 DEF Put
        <4>2. capture' \in [Threads -> CapturePoint]
          BY <3>2 DEF Put
        <4>3. QED BY <3>2, <4>1, <4>2 DEF Put
      <3>3. CASE CaptureFails(k)
        BY <3>3 DEF CaptureFails
      <3>4. QED BY <2>14, <3>1, <3>2, <3>3 DEF CaptureStep
    <2>15. ASSUME NEW k \in Threads, LoopStep(k) PROVE TypeOK'
      BY <2>15 DEF LoopStep, LoopTest, GetChunk, Process, EmitSubtitle
    <2>16. CASE UNCHANGED vars
      BY <2>16 DEF vars
    <2>17. QED
      BY <2>1, <2>2, <2>3, <2>4, <2>5, <2>6, <2>7, <2>8, <2>9, <2>10, <2>11, <2>12,
         <2>13, <2>14, <2>15, <2>16 DEF Next, CallStep
  <1>3. QED BY <1>1, <1>2, PTL DEF Spec

-----------------------------------------------------------------------------
(* The voice.  While it is wanted and nobody has tried to load it, some     *)
(* caller is on the way to do so: one that has set the mode and has yet to *)
(* look at the flag, or one that has set the flag and has yet to look at   *)
(* the mode.                                                               *)

Asks(c) ==
  \/ pc[c] \in {"setLoad", "startLoad", "voiceLoad", "voice"}
  \/ pc[c] \in {"setMode", "startMode"} /\ want[c] = "dub"

VoiceInv == running /\ mode = "dub" /\ ~voiceTried => \E c \in Callers : Asks(c)

LEMMA VoiceStep == ASSUME TypeOK, VoiceInv, [Next]_vars PROVE VoiceInv'
  <1> USE DEF TypeOK, VoiceInv, dubVars, capVars, callVars, history, Goto
  <1>1. ASSUME NEW c \in Callers, NEW m \in Mode, SetMode(c, m) PROVE VoiceInv'
    <2>1. CASE m = "dub"
      <3>1. Asks(c)'
        BY <1>1, <2>1 DEF SetMode, Asks
      <3>2. QED BY <3>1
    <2>2. CASE m # "dub"
      BY <1>1, <2>2 DEF SetMode
    <2>3. QED BY <2>1, <2>2
  <1>2. ASSUME NEW c \in Callers, Stop(c) PROVE VoiceInv'
    BY <1>2 DEF Stop
  <1>3. ASSUME NEW c \in Callers, CheckMode(c) PROVE VoiceInv'
    <2> SUFFICES ASSUME running, mode = "dub", ~voiceTried PROVE \E d \in Callers : Asks(d)'
      BY <1>3 DEF CheckMode
    <2>1. PICK d \in Callers : Asks(d)
      OBVIOUS
    <2>2. Asks(d)'
      BY <1>3, <2>1 DEF CheckMode, Asks
    <2>3. QED BY <2>2
  <1>4. ASSUME NEW c \in Callers, LoadTts(c) PROVE VoiceInv'
    BY <1>4 DEF LoadTts
  <1>5. ASSUME NEW c \in Callers, Enter(c) PROVE VoiceInv'
    <2>1. CASE running
      <3> SUFFICES ASSUME mode = "dub", ~voiceTried PROVE \E d \in Callers : Asks(d)'
        BY <1>5, <2>1 DEF Enter
      <3>1. PICK d \in Callers : Asks(d)
        BY <2>1
      <3>2. Asks(d)'
        BY <1>5, <3>1 DEF Enter, Asks
      <3>3. QED BY <3>2
    <2>2. CASE ~running
      <3>1. Asks(c)'
        BY <1>5, <2>2 DEF Enter, Asks
      <3>2. QED BY <3>1
    <2>3. QED BY <2>1, <2>2
  <1>6. ASSUME NEW c \in Callers, Voice(c) PROVE VoiceInv'
    <2> SUFFICES ASSUME running, mode = "dub", ~voiceTried PROVE \E d \in Callers : Asks(d)'
      BY <1>6 DEF Voice
    <2>1. PICK d \in Callers : Asks(d)
      OBVIOUS
    <2>2. Asks(d)'
      BY <1>6, <2>1 DEF Voice, Asks
    <2>3. QED BY <2>2
  <1>7. ASSUME NEW c \in Callers,
               \/ CaptureTest(c) \/ CaptureArm(c) \/ CaptureMake(c) \/ CaptureGo(c)
               \/ Make(c) \/ Go(c)
               \/ StopCapture(c) \/ ClearCapture(c) \/ RecorderStored(c) \/ RecorderAlive(c)
               \/ AwaitCapture(c) \/ JoinCapture(c) \/ StopLoop(c) \/ AwaitLoop(c) \/ JoinLoop(c)
        PROVE VoiceInv'
    <2>1. /\ UNCHANGED <<running, mode, voiceTried, want>>
          /\ pc[c] \in {"capTest", "capArm", "capMake", "capGo", "make", "go"} \cup StopPoints
          /\ \E p : Goto(c, p)
      BY <1>7 DEF CaptureTest, CaptureArm, CaptureMake, CaptureGo, Make, Go, StopPoints,
         StopCapture, ClearCapture, RecorderStored, RecorderAlive, AwaitCapture, JoinCapture,
         StopLoop, AwaitLoop, JoinLoop
    <2> SUFFICES ASSUME running, mode = "dub", ~voiceTried PROVE \E d \in Callers : Asks(d)'
      BY <2>1
    <2>2. PICK d \in Callers : Asks(d)
      OBVIOUS
    <2>3. Asks(d)'
      BY <2>1, <2>2 DEF Asks, StopPoints
    <2>4. QED BY <2>3
  <1>8. CASE UNCHANGED <<running, mode, voiceTried, want, pc>>
    BY <1>8 DEF Asks
  <1>9. ASSUME NEW k \in Threads, CaptureStep(k) \/ LoopStep(k)
        PROVE UNCHANGED <<running, mode, voiceTried, want, pc>>
    BY <1>9 DEF CaptureStep, CaptureLoop, Record, Put, CaptureFails,
       LoopStep, LoopTest, GetChunk, Process, EmitSubtitle
  <1>10. CASE UNCHANGED vars
    BY <1>8, <1>10 DEF vars
  <1>11. QED
    BY <1>1, <1>2, <1>3, <1>4, <1>5, <1>6, <1>7, <1>8, <1>9, <1>10 DEF Next, CallStep

\* However set_mode and start overlap, a running pipeline in DUB mode has tried to
\* load its voice when no call is in progress.
THEOREM VoiceIsReady == Spec => []VoiceReady
  <1>1. Init => VoiceInv
    BY DEF Init, VoiceInv
  <1>2. TypeOK /\ VoiceInv /\ [Next]_vars => VoiceInv'
    BY VoiceStep
  <1>3. VoiceInv => VoiceReady
    BY DEF VoiceInv, VoiceReady, Asks, Quiet, Going
  <1>4. QED BY Typing, <1>1, <1>2, <1>3, PTL DEF Spec

-----------------------------------------------------------------------------
(* Calls that do not overlap.  A start is inside its window only while the *)
(* flag is set and a stop only while it is not, so that one caller at a    *)
(* time is in either.                                                      *)

InStart(c) == pc[c] \in StartPoints
InStop(c)  == pc[c] \in StopPoints

CallsApart ==
  ~overlapped =>
    /\ \A c \in Callers : (InStart(c) => running) /\ (InStop(c) => ~running)
    /\ \A c, d \in Callers :
         (InStart(c) \/ InStop(c)) /\ (InStart(d) \/ InStop(d)) => c = d

LEMMA ApartStep == ASSUME TypeOK, CallsApart, [Next]_vars PROVE CallsApart'
  <1> USE DEF TypeOK, CallsApart, InStart, InStop, StartPoints, StopPoints,
        dubVars, capVars, callVars, history, Goto
  <1>1. ASSUME NEW c \in Callers, NEW m \in Mode, SetMode(c, m) PROVE CallsApart'
    BY <1>1 DEF SetMode
  <1>2. ASSUME NEW c \in Callers, Stop(c) PROVE CallsApart'
    BY <1>2 DEF Stop, Overlap
  <1>3. ASSUME NEW c \in Callers, CheckMode(c) PROVE CallsApart'
    BY <1>3 DEF CheckMode
  <1>4. ASSUME NEW c \in Callers, LoadTts(c) PROVE CallsApart'
    BY <1>4 DEF LoadTts
  <1>5. ASSUME NEW c \in Callers, Enter(c) PROVE CallsApart'
    <2>1. CASE running
      BY <1>5, <2>1 DEF Enter
    <2>2. CASE ~running
      <3> SUFFICES ASSUME ~overlapped' PROVE CallsApart'
        OBVIOUS
      <3>1. ~overlapped /\ \A d \in Callers : pc[d] \notin StopPoints
        BY <1>5, <2>2 DEF Enter, Overlap
      <3>2. \A d \in Callers : ~InStart(d) /\ ~InStop(d)
        BY <2>2, <3>1
      <3>3. running' /\ pc' = [pc EXCEPT ![c] = "voice"]
        BY <1>5, <2>2 DEF Enter
      <3>4. QED BY <3>2, <3>3
    <2>3. QED BY <2>1, <2>2
  <1>6. ASSUME NEW c \in Callers, Voice(c) \/ CaptureTest(c) \/ CaptureArm(c) PROVE CallsApart'
    BY <1>6 DEF Voice, CaptureTest, CaptureArm
  <1>7. ASSUME NEW c \in Callers, CaptureMake(c) \/ CaptureGo(c) \/ Make(c) \/ Go(c)
        PROVE CallsApart'
    BY <1>7 DEF CaptureMake, CaptureGo, Make, Go
  <1>8. ASSUME NEW c \in Callers,
               \/ StopCapture(c) \/ ClearCapture(c) \/ RecorderStored(c) \/ RecorderAlive(c)
               \/ AwaitCapture(c) \/ JoinCapture(c)
        PROVE CallsApart'
    BY <1>8 DEF StopCapture, ClearCapture, RecorderStored, RecorderAlive, AwaitCapture, JoinCapture
  <1>9. ASSUME NEW c \in Callers, StopLoop(c) \/ AwaitLoop(c) \/ JoinLoop(c)
        PROVE CallsApart'
    BY <1>9 DEF StopLoop, AwaitLoop, JoinLoop
  <1>10. ASSUME UNCHANGED <<running, overlapped, pc>> PROVE CallsApart'
    BY <1>10
  <1>11. ASSUME NEW k \in Threads, CaptureStep(k) \/ LoopStep(k)
         PROVE UNCHANGED <<running, overlapped, pc>>
    BY <1>11 DEF CaptureStep, CaptureLoop, Record, Put, CaptureFails,
       LoopStep, LoopTest, GetChunk, Process, EmitSubtitle
  <1>12. UNCHANGED vars => UNCHANGED <<running, overlapped, pc>>
    BY DEF vars
  <1>13. QED
    BY <1>1, <1>2, <1>3, <1>4, <1>5, <1>6, <1>7, <1>8, <1>9, <1>10, <1>11, <1>12
       DEF Next, CallStep

-----------------------------------------------------------------------------
(* The stored threads.  When calls do not overlap, what a call has read of *)
(* _thread still holds when it uses it: a start starts the thread that it  *)
(* made, and a stop joins one that has been started.                       *)

Usable ==
  ~overlapped =>
    /\ thread # 0 /\ loop[thread] = "made" => \E c \in Callers : pc[c] = "go"
    /\ \A c \in Callers :
         /\ pc[c] = "capGo" => capThread # 0 /\ capture[capThread] = "made"
         /\ pc[c] = "go" => thread # 0 /\ loop[thread] = "made"
         /\ pc[c] = "alive" => capThread # 0
         /\ pc[c] = "awaitCapture" => capThread # 0 /\ capture[capThread] # "made"
         /\ pc[c] = "awaitLoop" => thread # 0

LEMMA UsableStep == ASSUME TypeOK, CallsApart, Usable, [Next]_vars PROVE Usable'
  <1> USE DEF TypeOK, CallsApart, Usable, InStart, InStop, StartPoints, StopPoints,
        dubVars, capVars, callVars, history, Goto
  <1>a. ASSUME UNCHANGED <<overlapped, thread, loop, capThread, capture>>,
               \A c \in Callers :
                 /\ pc[c] = "go" <=> pc'[c] = "go"
                 /\ pc'[c] \in {"capGo", "alive", "awaitCapture", "awaitLoop"} => pc'[c] = pc[c]
        PROVE  Usable'
    BY <1>a
  <1>1. ASSUME NEW c \in Callers, NEW m \in Mode, SetMode(c, m) PROVE Usable'
    BY <1>1, <1>a DEF SetMode
  <1>2. ASSUME NEW c \in Callers, Stop(c) PROVE Usable'
    BY <1>2 DEF Stop, Overlap
  <1>3. ASSUME NEW c \in Callers, CheckMode(c) PROVE Usable'
    BY <1>3, <1>a DEF CheckMode
  <1>4. ASSUME NEW c \in Callers, LoadTts(c) PROVE Usable'
    BY <1>4, <1>a DEF LoadTts
  <1>5. ASSUME NEW c \in Callers, Enter(c) PROVE Usable'
    <2>1. CASE running
      BY <1>5, <1>a, <2>1 DEF Enter
    <2>2. CASE ~running
      BY <1>5, <2>2 DEF Enter, Overlap
    <2>3. QED BY <2>1, <2>2
  <1>6. ASSUME NEW c \in Callers, Voice(c) \/ CaptureTest(c) \/ CaptureArm(c) PROVE Usable'
    BY <1>6, <1>a DEF Voice, CaptureTest, CaptureArm
  <1>7. ASSUME NEW c \in Callers, CaptureMake(c) PROVE Usable'
    BY <1>7 DEF CaptureMake, Unused, Threads
  <1>8. ASSUME NEW c \in Callers, CaptureGo(c) PROVE Usable'
    BY <1>8 DEF CaptureGo
  <1>9. ASSUME NEW c \in Callers, Make(c) PROVE Usable'
    BY <1>9 DEF Make, Unused, Threads
  <1>10. ASSUME NEW c \in Callers, Go(c) PROVE Usable'
    BY <1>10 DEF Go, StartRaises
  <1>11. ASSUME NEW c \in Callers, StopCapture(c) \/ ClearCapture(c) PROVE Usable'
    BY <1>11, <1>a DEF StopCapture, ClearCapture
  <1>12. ASSUME NEW c \in Callers, RecorderStored(c) PROVE Usable'
    BY <1>12 DEF RecorderStored
  <1>13. ASSUME NEW c \in Callers, RecorderAlive(c) PROVE Usable'
    BY <1>13 DEF RecorderAlive, Running
  <1>14. ASSUME NEW c \in Callers, AwaitCapture(c) PROVE Usable'
    BY <1>14, <1>a DEF AwaitCapture
  <1>15. ASSUME NEW c \in Callers, JoinCapture(c) PROVE Usable'
    BY <1>15 DEF JoinCapture
  <1>16. ASSUME NEW c \in Callers, StopLoop(c) PROVE Usable'
    BY <1>16 DEF StopLoop
  <1>17. ASSUME NEW c \in Callers, AwaitLoop(c) PROVE Usable'
    BY <1>17, <1>a DEF AwaitLoop
  <1>18. ASSUME NEW c \in Callers, JoinLoop(c) PROVE Usable'
    BY <1>18 DEF JoinLoop
  <1>19. ASSUME NEW k \in Threads, CaptureStep(k) PROVE Usable'
    <2>1. UNCHANGED <<overlapped, thread, loop, capThread, pc>>
      BY <1>19 DEF CaptureStep, CaptureLoop, Record, Put, CaptureFails
    <2>2. capture[k] # "made" /\ \E p \in CapturePoint \ {"made"} : CaptureGoto(k, p)
      BY <1>19 DEF CaptureStep, CaptureLoop, Record, Put, CaptureFails, CapturePoint
    <2>3. QED BY <2>1, <2>2 DEF CaptureGoto
  <1>20. ASSUME NEW k \in Threads, LoopStep(k) PROVE Usable'
    <2>1. UNCHANGED <<overlapped, thread, capture, capThread, pc>>
      BY <1>20 DEF LoopStep, LoopTest, GetChunk, Process, EmitSubtitle
    <2>2. loop[k] # "made" /\ \E p \in LoopPoint \ {"made"} : LoopGoto(k, p)
      BY <1>20 DEF LoopStep, LoopTest, GetChunk, Process, EmitSubtitle, LoopPoint
    <2>3. QED BY <2>1, <2>2 DEF LoopGoto
  <1>21. ASSUME UNCHANGED vars PROVE Usable'
    BY <1>21, <1>a DEF vars
  <1>22. QED
    BY <1>1, <1>2, <1>3, <1>4, <1>5, <1>6, <1>7, <1>8, <1>9, <1>10, <1>11, <1>12, <1>13,
       <1>14, <1>15, <1>16, <1>17, <1>18, <1>19, <1>20, <1>21 DEF Next, CallStep

\* As long as calls do not overlap, no start() and no join() of a thread raises, for
\* any number of callers and sessions and whatever joins time out.
THEOREM RaisesAreOverlaps == Spec => []RaisesOnlyOverlapped
  <1>1. Init => CallsApart /\ Usable
    BY DEF Init, CallsApart, Usable, InStart, InStop, StartPoints, StopPoints
  <1>2. TypeOK /\ CallsApart /\ Usable /\ [Next]_vars => CallsApart' /\ Usable'
    BY ApartStep, UsableStep
  <1>3. TypeOK /\ CallsApart /\ Usable => RaisesOnlyOverlapped
    <2> SUFFICES ASSUME TypeOK, CallsApart, Usable, ~overlapped, NEW c \in Callers
                 PROVE /\ pc[c] = "capGo" => ~StartRaises(capThread, capture)
                       /\ pc[c] = "go" => ~StartRaises(thread, loop)
                       /\ pc[c] = "alive" => capThread # 0
                       /\ pc[c] = "awaitCapture" => ~JoinRaises(capThread, capture)
                       /\ pc[c] = "awaitLoop" => ~JoinRaises(thread, loop)
      BY DEF RaisesOnlyOverlapped, CallsDoNotRaise
    <2>1. pc[c] \in {"capGo", "go"} => (pc[c] = "capGo" => ~StartRaises(capThread, capture))
                                        /\ (pc[c] = "go" => ~StartRaises(thread, loop))
      BY DEF Usable, StartRaises, TypeOK
    <2>2. pc[c] = "alive" => capThread # 0
      BY DEF Usable
    <2>3. pc[c] = "awaitCapture" => ~JoinRaises(capThread, capture)
      BY DEF Usable, JoinRaises, TypeOK
    <2>4. pc[c] = "awaitLoop" => ~JoinRaises(thread, loop)
      <3> SUFFICES ASSUME pc[c] = "awaitLoop" PROVE ~JoinRaises(thread, loop)
        OBVIOUS
      <3>1. thread \in Threads
        BY DEF Usable, TypeOK
      <3>2. \A d \in Callers : pc[d] # "go"
        BY DEF CallsApart, InStart, InStop, StartPoints, StopPoints
      <3>3. loop[thread] # "made"
        BY <3>1, <3>2 DEF Usable
      <3>4. QED BY <3>1, <3>3 DEF JoinRaises
    <2>5. QED BY <2>1, <2>2, <2>3, <2>4
  <1>4. QED BY Typing, <1>1, <1>2, <1>3, PTL DEF Spec

-----------------------------------------------------------------------------
(* One recording thread.  When calls do not overlap and no join of a       *)
(* recording thread times out, only the stored thread records; where a     *)
(* start is about to make one, and once a stop has joined it, none does.   *)

Records(k) == capture[k] \in {"test", "record", "put"}
Between(c) == pc[c] \in {"voice", "voiceLoad", "capTest", "capArm", "capMake", "capGo",
                        "stopLoop", "awaitLoop", "joinLoop"}
Joins(c)   == pc[c] \in {"stored", "alive", "awaitCapture", "joinCapture"}

OneRecorder ==
  ~overlapped /\ ~lateCapture =>
    /\ \A c \in Callers : pc[c] \in {"capMake", "capGo"} => capturing
    /\ \A k \in Threads :
         Records(k) =>
           /\ k = capThread
           /\ capturing \/ \E c \in Callers : Joins(c)
           /\ \A c \in Callers : ~Between(c)
           /\ running \/ \E c \in Callers : InStop(c)
           /\ capture[k] = "put" => queued < MaxQueue

LEMMA RecorderStep ==
  ASSUME TypeOK, CallsApart, Usable, OneRecorder, [Next]_vars PROVE OneRecorder'
  <1> USE DEF TypeOK, CallsApart, OneRecorder, InStart, InStop, StartPoints, StopPoints,
        Records, Between, Joins, dubVars, capVars, callVars, history, Goto
  <1>1. ASSUME NEW c \in Callers, NEW m \in Mode, SetMode(c, m) PROVE OneRecorder'
    BY <1>1 DEF SetMode
  <1>2. ASSUME NEW c \in Callers, Stop(c) PROVE OneRecorder'
    BY <1>2 DEF Stop, Overlap
  <1>3. ASSUME NEW c \in Callers, CheckMode(c) PROVE OneRecorder'
    BY <1>3 DEF CheckMode
  <1>4. ASSUME NEW c \in Callers, LoadTts(c) PROVE OneRecorder'
    BY <1>4 DEF LoadTts
  <1>5. ASSUME NEW c \in Callers, Enter(c) PROVE OneRecorder'
    <2>1. CASE running
      BY <1>5, <2>1 DEF Enter
    <2>2. CASE ~running
      BY <1>5, <2>2 DEF Enter, Overlap
    <2>3. QED BY <2>1, <2>2
  <1>6. ASSUME NEW c \in Callers, Voice(c) \/ CaptureTest(c) \/ CaptureArm(c) PROVE OneRecorder'
    BY <1>6 DEF Voice, CaptureTest, CaptureArm
  <1>7. ASSUME NEW c \in Callers, CaptureMake(c) PROVE OneRecorder'
    BY <1>7 DEF CaptureMake, Unused
  <1>8. ASSUME NEW c \in Callers, CaptureGo(c) PROVE OneRecorder'
    BY <1>8 DEF CaptureGo, StartRaises
  <1>9. ASSUME NEW c \in Callers, Make(c) \/ Go(c) PROVE OneRecorder'
    BY <1>9 DEF Make, Go
  <1>10. ASSUME NEW c \in Callers, StopCapture(c) PROVE OneRecorder'
    BY <1>10 DEF StopCapture
  <1>11. ASSUME NEW c \in Callers, ClearCapture(c) PROVE OneRecorder'
    BY <1>11 DEF ClearCapture
  <1>12. ASSUME NEW c \in Callers, RecorderStored(c) PROVE OneRecorder'
    BY <1>12 DEF RecorderStored, Threads
  <1>13. ASSUME NEW c \in Callers, RecorderAlive(c) PROVE OneRecorder'
    BY <1>13 DEF RecorderAlive, Running, Usable
  <1>14. ASSUME NEW c \in Callers, AwaitCapture(c) PROVE OneRecorder'
    BY <1>14 DEF AwaitCapture, JoinRaises
  <1>15. ASSUME NEW c \in Callers, JoinCapture(c) PROVE OneRecorder'
    <2> SUFFICES ASSUME ~overlapped', ~lateCapture' PROVE OneRecorder'
      OBVIOUS
    <2>1. ~overlapped /\ ~lateCapture /\ capThread \notin Running(capture)
      BY <1>15 DEF JoinCapture
    <2>2. \A k \in Threads : ~Records(k)
      BY <2>1 DEF Running
    <2>3. capture' = capture /\ capturing' = capturing /\ pc' = [pc EXCEPT ![c] = "stopLoop"]
      BY <1>15 DEF JoinCapture
    <2>4. QED BY <2>1, <2>2, <2>3
  <1>16. ASSUME NEW c \in Callers, StopLoop(c) \/ AwaitLoop(c) \/ JoinLoop(c)
         PROVE OneRecorder'
    BY <1>16 DEF StopLoop, AwaitLoop, JoinLoop
  <1>17. ASSUME NEW k \in Threads, CaptureLoop(k) \/ Record(k) PROVE OneRecorder'
    BY <1>17 DEF CaptureLoop, Record, CaptureGoto
  <1>18. ASSUME NEW k \in Threads, Put(k) PROVE OneRecorder'
    BY <1>18 DEF Put, CaptureGoto
  <1>19. ASSUME NEW k \in Threads, CaptureFails(k) PROVE OneRecorder'
    BY <1>19 DEF CaptureFails, CaptureGoto
  <1>20. ASSUME NEW k \in Threads, LoopStep(k) PROVE OneRecorder'
    <2>1. UNCHANGED <<overlapped, lateCapture, capture, capturing, capThread, pc, running>>
      BY <1>20 DEF LoopStep, LoopTest, GetChunk, Process, EmitSubtitle
    <2>2. queued < MaxQueue => queued' < MaxQueue
      <3>1. queued' = queued \/ queued' = queued - 1
        BY <1>20 DEF LoopStep, LoopTest, GetChunk, Process, EmitSubtitle
      <3>2. QED BY <3>1, DubberAssumption
    <2>3. QED BY <2>1, <2>2
  <1>21. ASSUME UNCHANGED vars PROVE OneRecorder'
    BY <1>21 DEF vars
  <1>22. QED
    BY <1>1, <1>2, <1>3, <1>4, <1>5, <1>6, <1>7, <1>8, <1>9, <1>10, <1>11, <1>12, <1>13,
       <1>14, <1>15, <1>16, <1>17, <1>18, <1>19, <1>20, <1>21 DEF Next, CallStep, CaptureStep

\* A recording thread that has seen room in the queue does not block in put(), as
\* long as calls do not overlap and the recording thread ends within its join.
THEOREM PutNeverBlocks == Spec => []PutFindsRoom
  <1> DEFINE Inv == CallsApart /\ Usable /\ OneRecorder
  <1>1. Init => Inv
    BY DEF Init, CallsApart, Usable, OneRecorder, InStart, InStop, StartPoints, StopPoints, Records
  <1>2. TypeOK /\ Inv /\ [Next]_vars => Inv'
    BY ApartStep, UsableStep, RecorderStep
  <1>3. Inv => PutFindsRoom
    BY DEF OneRecorder, PutFindsRoom, Records
  <1> HIDE DEF Inv
  <1>4. QED BY Typing, <1>1, <1>2, <1>3, PTL DEF Spec

-----------------------------------------------------------------------------
(* The flags and the processing thread.  The capture records only between  *)
(* a start and the stop that follows; a running dubber has its capture,    *)
(* has lost it to a failure, or is about to make it; and a processing      *)
(* thread that outlives the flag is the one that a stop is to join.        *)

FlagInv ==
  ~overlapped =>
    /\ capturing => running \/ \E c \in Callers : pc[c] \in {"stopCapture", "clear"}
    /\ running /\ ~lateCapture =>
         \/ capturing
         \/ StoredRecorderEnded
         \/ \E c \in Callers : pc[c] \in {"voice", "voiceLoad", "capTest", "capArm"}

LEMMA FlagStep ==
  ASSUME TypeOK, CallsApart, OneRecorder, FlagInv, [Next]_vars PROVE FlagInv'
  <1> USE DEF TypeOK, CallsApart, FlagInv, InStart, InStop, StartPoints, StopPoints,
        dubVars, capVars, callVars, history, Goto
  <1>a. ASSUME UNCHANGED <<overlapped, running, lateCapture, capturing, capThread, capture>>,
               \A c \in Callers :
                 /\ pc'[c] \in {"stopCapture", "clear"} <=> pc[c] \in {"stopCapture", "clear"}
                 /\ pc[c] \in {"voice", "voiceLoad", "capTest", "capArm"}
                      => pc'[c] \in {"voice", "voiceLoad", "capTest", "capArm"}
        PROVE  FlagInv'
    BY <1>a DEF StoredRecorderEnded
  <1>1. ASSUME NEW c \in Callers, NEW m \in Mode, SetMode(c, m) PROVE FlagInv'
    BY <1>1, <1>a DEF SetMode
  <1>2. ASSUME NEW c \in Callers, Stop(c) PROVE FlagInv'
    BY <1>2 DEF Stop, Overlap
  <1>3. ASSUME NEW c \in Callers, CheckMode(c) PROVE FlagInv'
    BY <1>3, <1>a DEF CheckMode
  <1>4. ASSUME NEW c \in Callers, LoadTts(c) PROVE FlagInv'
    BY <1>4, <1>a DEF LoadTts
  <1>5. ASSUME NEW c \in Callers, Enter(c) PROVE FlagInv'
    <2>1. CASE running
      BY <1>5, <1>a, <2>1 DEF Enter
    <2>2. CASE ~running
      <3> SUFFICES ASSUME ~overlapped' PROVE FlagInv'
        OBVIOUS
      <3>1. running' /\ pc' = [pc EXCEPT ![c] = "voice"]
        BY <1>5, <2>2 DEF Enter
      <3>2. QED BY <3>1
    <2>3. QED BY <2>1, <2>2
  <1>6. ASSUME NEW c \in Callers, Voice(c) PROVE FlagInv'
    BY <1>6, <1>a DEF Voice
  <1>7. ASSUME NEW c \in Callers, CaptureTest(c) PROVE FlagInv'
    <2>1. CASE capturing
      BY <1>7, <2>1 DEF CaptureTest
    <2>2. CASE ~capturing
      BY <1>7, <1>a, <2>2 DEF CaptureTest
    <2>3. QED BY <2>1, <2>2
  <1>8. ASSUME NEW c \in Callers, CaptureArm(c) PROVE FlagInv'
    BY <1>8 DEF CaptureArm
  <1>9. ASSUME NEW c \in Callers, CaptureMake(c) PROVE FlagInv'
    <2> SUFFICES ASSUME ~overlapped' PROVE FlagInv'
      OBVIOUS
    <2>1. UNCHANGED <<overlapped, running, lateCapture, capturing>> /\ running
      BY <1>9 DEF CaptureMake
    <2>2. ~lateCapture => capturing
      BY <1>9, <2>1 DEF CaptureMake, OneRecorder
    <2>3. QED BY <2>1, <2>2
  <1>10. ASSUME NEW c \in Callers, CaptureGo(c) PROVE FlagInv'
    <2> SUFFICES ASSUME ~overlapped' PROVE FlagInv'
      OBVIOUS
    <2>1. UNCHANGED <<overlapped, running, lateCapture, capturing>> /\ running
      BY <1>10 DEF CaptureGo
    <2>2. ~lateCapture => capturing
      BY <1>10, <2>1 DEF CaptureGo, OneRecorder
    <2>3. QED BY <2>1, <2>2
  <1>11. ASSUME NEW c \in Callers, StopCapture(c) PROVE FlagInv'
    BY <1>11 DEF StopCapture, StoredRecorderEnded
  <1>12. ASSUME NEW c \in Callers, ClearCapture(c) PROVE FlagInv'
    BY <1>12 DEF ClearCapture
  <1>13. ASSUME NEW c \in Callers,
                \/ Make(c) \/ Go(c) \/ RecorderStored(c) \/ RecorderAlive(c) \/ AwaitCapture(c)
                \/ StopLoop(c) \/ AwaitLoop(c) \/ JoinLoop(c)
         PROVE FlagInv'
    BY <1>13, <1>a DEF Make, Go, RecorderStored, RecorderAlive, AwaitCapture,
       StopLoop, AwaitLoop, JoinLoop
  <1>14. ASSUME NEW c \in Callers, JoinCapture(c) PROVE FlagInv'
    BY <1>14 DEF JoinCapture
  <1>15. ASSUME NEW k \in Threads, CaptureLoop(k) \/ Record(k) \/ Put(k) PROVE FlagInv'
    <2>1. UNCHANGED <<overlapped, running, lateCapture, capturing, capThread, pc>>
      BY <1>15 DEF CaptureLoop, Record, Put
    <2>2. StoredRecorderEnded => StoredRecorderEnded'
      BY <1>15 DEF CaptureLoop, Record, Put, CaptureGoto, StoredRecorderEnded
    <2>3. QED BY <2>1, <2>2
  <1>16. ASSUME NEW k \in Threads, CaptureFails(k) PROVE FlagInv'
    <2>1. UNCHANGED <<overlapped, running, lateCapture, capThread, pc>> /\ ~capturing'
      BY <1>16 DEF CaptureFails
    <2>2. ~overlapped /\ ~lateCapture => k = capThread
      BY <1>16 DEF CaptureFails, OneRecorder, Records
    <2>3. capture'[k] = "ended"
      BY <1>16 DEF CaptureFails, CaptureGoto
    <2>4. ~overlapped /\ ~lateCapture => StoredRecorderEnded'
      BY <2>1, <2>2, <2>3 DEF StoredRecorderEnded
    <2>5. QED BY <2>1, <2>4
  <1>17. ASSUME NEW k \in Threads, LoopStep(k) PROVE FlagInv'
    BY <1>17, <1>a DEF LoopStep, LoopTest, GetChunk, Process, EmitSubtitle
  <1>18. ASSUME UNCHANGED vars PROVE FlagInv'
    BY <1>18, <1>a DEF vars
  <1>19. QED
    BY <1>1, <1>2, <1>3, <1>4, <1>5, <1>6, <1>7, <1>8, <1>9, <1>10, <1>11, <1>12, <1>13,
       <1>14, <1>15, <1>16, <1>17, <1>18 DEF Next, CallStep, CaptureStep

Processes(k) == loop[k] \in {"test", "get", "process", "second"}

OneProcessor ==
  ~overlapped /\ ~lateLoop =>
    \A k \in Threads :
      Processes(k) =>
        /\ k = thread
        /\ \A c \in Callers : ~InStart(c)
        /\ running \/ \E c \in Callers : InStop(c)

LEMMA ProcessorStep ==
  ASSUME TypeOK, CallsApart, Usable, OneProcessor, [Next]_vars PROVE OneProcessor'
  <1> USE DEF TypeOK, CallsApart, OneProcessor, InStart, InStop, StartPoints, StopPoints,
        Processes, dubVars, capVars, callVars, history, Goto
  <1>1. ASSUME NEW c \in Callers, NEW m \in Mode, SetMode(c, m) PROVE OneProcessor'
    BY <1>1 DEF SetMode
  <1>2. ASSUME NEW c \in Callers, Stop(c) PROVE OneProcessor'
    BY <1>2 DEF Stop, Overlap
  <1>3. ASSUME NEW c \in Callers, CheckMode(c) PROVE OneProcessor'
    BY <1>3 DEF CheckMode
  <1>4. ASSUME NEW c \in Callers, LoadTts(c) PROVE OneProcessor'
    BY <1>4 DEF LoadTts
  <1>5. ASSUME NEW c \in Callers, Enter(c) PROVE OneProcessor'
    <2>1. CASE running
      BY <1>5, <2>1 DEF Enter
    <2>2. CASE ~running
      BY <1>5, <2>2 DEF Enter, Overlap
    <2>3. QED BY <2>1, <2>2
  <1>6. ASSUME NEW c \in Callers,
               \/ Voice(c) \/ CaptureTest(c) \/ CaptureArm(c) \/ CaptureMake(c) \/ CaptureGo(c)
        PROVE OneProcessor'
    BY <1>6 DEF Voice, CaptureTest, CaptureArm, CaptureMake, CaptureGo
  <1>7. ASSUME NEW c \in Callers, Make(c) PROVE OneProcessor'
    BY <1>7 DEF Make, Unused
  <1>8. ASSUME NEW c \in Callers, Go(c) PROVE OneProcessor'
    BY <1>8 DEF Go, StartRaises
  <1>9. ASSUME NEW c \in Callers, StopCapture(c) \/ ClearCapture(c) \/ RecorderStored(c)
        PROVE OneProcessor'
    BY <1>9 DEF StopCapture, ClearCapture, RecorderStored
  <1>10. ASSUME NEW c \in Callers, RecorderAlive(c) PROVE OneProcessor'
    BY <1>10 DEF RecorderAlive, Usable
  <1>11. ASSUME NEW c \in Callers, AwaitCapture(c) \/ JoinCapture(c) PROVE OneProcessor'
    BY <1>11 DEF AwaitCapture, JoinCapture, Usable, JoinRaises
  <1>12. ASSUME NEW c \in Callers, StopLoop(c) PROVE OneProcessor'
    BY <1>12 DEF StopLoop, Threads
  <1>13. ASSUME NEW c \in Callers, AwaitLoop(c) PROVE OneProcessor'
    BY <1>13 DEF AwaitLoop, JoinRaises
  <1>14. ASSUME NEW c \in Callers, JoinLoop(c) PROVE OneProcessor'
    <2> SUFFICES ASSUME ~overlapped', ~lateLoop', NEW k \in Threads, Processes(k)'
                 PROVE FALSE
      OBVIOUS
    <2>1. ~overlapped /\ ~lateLoop /\ thread \notin Running(loop)
      BY <1>14 DEF JoinLoop
    <2>2. Processes(k)
      BY <1>14 DEF JoinLoop
    <2>3. QED BY <2>1, <2>2 DEF Running
  <1>15. ASSUME NEW k \in Threads, CaptureStep(k) PROVE OneProcessor'
    <2>1. UNCHANGED <<overlapped, lateLoop, loop, thread, pc, running>>
      BY <1>15 DEF CaptureStep, CaptureLoop, Record, Put, CaptureFails
    <2>2. QED BY <2>1
  <1>16. ASSUME NEW k \in Threads, LoopStep(k) PROVE OneProcessor'
    <2>1. UNCHANGED <<overlapped, lateLoop, thread, pc, running>>
      BY <1>16 DEF LoopStep, LoopTest, GetChunk, Process, EmitSubtitle
    <2>2. Processes(k) /\ \E p : loop' = [loop EXCEPT ![k] = p]
      BY <1>16 DEF LoopStep, LoopTest, GetChunk, Process, EmitSubtitle, LoopGoto
    <2>3. \A j \in Threads : Processes(j)' => Processes(j)
      BY <2>2
    <2>4. QED BY <2>1, <2>3
  <1>17. ASSUME UNCHANGED vars PROVE OneProcessor'
    BY <1>17 DEF vars
  <1>18. QED
    BY <1>1, <1>2, <1>3, <1>4, <1>5, <1>6, <1>7, <1>8, <1>9, <1>10, <1>11, <1>12, <1>13,
       <1>14, <1>15, <1>16, <1>17 DEF Next, CallStep

\* Unless a stop and a start have overlapped, between the calls a running pipeline
\* records, its own recorder has failed or a recorder was given up before; a stopped
\* one does not record and has no thread left but those that a join has given up.
THEOREM CaptureFollowsDubber == Spec => []CaptureFollows
  <1> DEFINE Inv == CallsApart /\ Usable /\ OneRecorder /\ FlagInv /\ OneProcessor
  <1>1. Init => Inv
    <2> SUFFICES ASSUME Init PROVE Inv
      OBVIOUS
    <2>1. CallsApart /\ Usable /\ OneRecorder
      BY DEF Init, CallsApart, Usable, OneRecorder, InStart, InStop, StartPoints, StopPoints, Records
    <2>2. FlagInv /\ OneProcessor
      BY DEF Init, FlagInv, OneProcessor, InStart, InStop, Processes
    <2>3. QED BY <2>1, <2>2
  <1>2. TypeOK /\ Inv /\ [Next]_vars => Inv'
    BY ApartStep, UsableStep, RecorderStep, FlagStep, ProcessorStep
  <1>3. TypeOK /\ Inv => CaptureFollows
    <2> SUFFICES ASSUME TypeOK, Inv, Quiet, ~overlapped
                 PROVE  IF running
                          THEN capturing \/ StoredRecorderEnded \/ lateCapture
                          ELSE /\ ~capturing
                               /\ Running(capture) # {} => lateCapture
                               /\ Running(loop) # {} => lateLoop
      BY DEF CaptureFollows
    <2>1. \A c \in Callers : pc[c] = "idle"
      BY DEF Quiet, Going
    <2>2. running => capturing \/ StoredRecorderEnded \/ lateCapture
      BY <2>1 DEF FlagInv
    <2>3. ~running => ~capturing
      BY <2>1 DEF FlagInv
    <2>4. ~running /\ ~lateCapture => Running(capture) = {}
      BY <2>1 DEF OneRecorder, InStop, StopPoints, Running, Records, TypeOK, CapturePoint
    <2>5. ~running /\ ~lateLoop => Running(loop) = {}
      BY <2>1 DEF OneProcessor, InStop, StopPoints, Running, Processes, TypeOK, LoopPoint
    <2>6. QED BY <2>2, <2>3, <2>4, <2>5
  <1> HIDE DEF Inv
  <1>4. QED BY Typing, <1>1, <1>2, <1>3, PTL DEF Spec
=============================================================================
