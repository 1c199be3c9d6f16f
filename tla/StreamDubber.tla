----------------------------- MODULE StreamDubber ----------------------------
(***************************************************************************)
(* The dubbing pipeline: StreamDubber (src/src/stream_dubber.py) with the  *)
(* AudioCapture it owns (src/src/audio_capture.py), called through the     *)
(* AudioPipeline of src/src/wire_audio_pipeline.py.                        *)
(*                                                                         *)
(* A session has two threads: one records chunks into a bounded queue, one *)
(* takes them and dubs or subtitles them.  Both run while a flag without a *)
(* lock says so, and stop() waits for each of them for a limited time.     *)
(* start_dubbing(), set_mode() and stop_dubbing() come from any thread;    *)
(* the lock of the dubber covers the test and the setting of its flag, the *)
(* rest of a call runs outside it and may overlap with other calls.  Each  *)
(* read of the attribute _thread is a step of its own, so that a thread    *)
(* may be stored and not yet started, or gone, when a call uses it.        *)
(***************************************************************************)
EXTENDS Integers, FiniteSets

CONSTANTS
  Callers,    \* threads that call the pipeline
  Starters,   \* those that start it; the others set the mode; all may stop it
  MaxStarts,  \* bound: sessions
  MaxQueue    \* MAX_QUEUE_SIZE of the capture queue

ASSUME DubberAssumption ==
  Starters \subseteq Callers /\ MaxStarts \in Nat /\ MaxQueue \in Nat \ {0}

Mode    == {"dub", "subtitle"}
Threads == 1..MaxStarts

VARIABLES
  running,    \* StreamDubber._running
  mode,       \* StreamDubber._mode
  voiceTried, \* the loading of _tts_engine has been tried
  thread,     \* StreamDubber._thread: a processing thread, or 0
  loop,       \* where each processing thread is
  capturing,  \* AudioCapture._running
  capThread,  \* AudioCapture._thread: a recording thread, or 0
  capture,    \* where each recording thread is
  queued,     \* chunks in the capture queue
  pc,         \* where each caller is
  want,       \* the mode a caller passed to set_mode
  starts,     \* sessions begun
  overlapped, \* history: a stop began inside a start, or a start inside a stop
  lateLoop,   \* history: a join of a processing thread timed out before any overlap
  lateCapture \* history: a join of a recording thread timed out before any overlap

dubVars  == <<running, mode, voiceTried, thread, loop>>
capVars  == <<capturing, capThread, capture, queued>>
callVars == <<pc, want>>
history  == <<starts, overlapped, lateLoop, lateCapture>>
vars     == <<dubVars, capVars, callVars, history>>

LoopPoint    == {"none", "made", "test", "get", "process", "second", "ended"}
CapturePoint == {"none", "made", "test", "record", "put", "ended"}
ModePoints   == {"setMode", "setLoad", "startMode", "startLoad", "enter"}
StartPoints  == {"voice", "voiceLoad", "capTest", "capArm", "capMake", "capGo", "make", "go"}
StopPoints   == {"stopCapture", "clear", "stored", "alive", "awaitCapture", "joinCapture",
                 "stopLoop", "awaitLoop", "joinLoop"}
Point        == {"idle"} \cup ModePoints \cup StartPoints \cup StopPoints

Running(f) == {k \in Threads : f[k] \notin {"none", "made", "ended"}}
Unused(f)  == {k \in Threads : f[k] = "none" /\ \A j \in Threads : j < k => f[j] # "none"}
Going      == {c \in Callers : pc[c] # "idle"}
Quiet      == Going = {}

Init ==
  /\ running = FALSE
  /\ mode = "dub"
  /\ voiceTried = FALSE
  /\ thread = 0
  /\ loop = [k \in Threads |-> "none"]
  /\ capturing = FALSE
  /\ capThread = 0
  /\ capture = [k \in Threads |-> "none"]
  /\ queued = 0
  /\ pc = [c \in Callers |-> "idle"]
  /\ want = [c \in Callers |-> "dub"]
  /\ starts = 0
  /\ overlapped = FALSE
  /\ lateLoop = FALSE
  /\ lateCapture = FALSE

Goto(c, p) == pc' = [pc EXCEPT ![c] = p]

\* Where start() and join() of the stored thread t raise: it is None by now, has been
\* started (start) or has not been started (join).
StartRaises(t, f) == \A k \in Threads : t = k => f[k] # "made"
JoinRaises(t, f)  == \A k \in Threads : t = k => f[k] = "made"

\* A start and a stop overlap, which makes nothing of the joins before.
Overlap(inside) ==
  /\ overlapped' = (overlapped \/ inside)
  /\ lateLoop' = (lateLoop /\ ~inside)
  /\ lateCapture' = (lateCapture /\ ~inside)

-----------------------------------------------------------------------------
(* set_mode, alone or as the first part of start_dubbing                   *)

SetMode(c, m) ==
  /\ pc[c] = "idle"
  /\ mode' = m
  /\ want' = [want EXCEPT ![c] = m]
  /\ \/ c \notin Starters /\ Goto(c, "setMode")
     \/ /\ c \in Starters
        /\ starts + Cardinality({d \in Callers : pc[d] \in {"startMode", "startLoad", "enter"}})
             < MaxStarts
        /\ Goto(c, "startMode")
  /\ UNCHANGED <<running, voiceTried, thread, loop, capVars, history>>

\* Mutant: only start() loads the voice.
CheckModeNever(c) ==
  /\ pc[c] \in {"setMode", "startMode"}
  /\ Goto(c, IF pc[c] = "setMode" THEN "idle" ELSE "enter")
  /\ UNCHANGED <<dubVars, capVars, want, history>>

\* The mode is set before the flag is read; start() does it the other way round.
CheckMode(c) ==
  /\ pc[c] \in {"setMode", "startMode"}
  /\ IF want[c] = "dub" /\ running
       THEN Goto(c, IF pc[c] = "setMode" THEN "setLoad" ELSE "startLoad")
       ELSE Goto(c, IF pc[c] = "setMode" THEN "idle" ELSE "enter")
  /\ want' = [want EXCEPT ![c] = "dub"]
  /\ UNCHANGED <<dubVars, capVars, history>>

\* _ensure_tts_loaded returns: the model is there, or its loading has failed.
LoadTts(c) ==
  /\ \/ pc[c] = "setLoad" /\ Goto(c, "idle")
     \/ pc[c] = "startLoad" /\ Goto(c, "enter")
     \/ pc[c] = "voiceLoad" /\ Goto(c, "capTest")
  /\ voiceTried' = TRUE
  /\ UNCHANGED <<running, mode, thread, loop, capVars, want, history>>

-----------------------------------------------------------------------------
(* start                                                                   *)

\* A start of a running pipeline raises.
Enter(c) ==
  /\ pc[c] = "enter"
  /\ IF running
       THEN Goto(c, "idle") /\ UNCHANGED <<running, history>>
       ELSE /\ running' = TRUE
            /\ starts' = starts + 1
            /\ Overlap(\E d \in Callers : pc[d] \in StopPoints)
            /\ Goto(c, "voice")
  /\ UNCHANGED <<mode, voiceTried, thread, loop, capVars, want>>

Voice(c) ==
  /\ pc[c] = "voice"
  /\ Goto(c, IF mode = "dub" THEN "voiceLoad" ELSE "capTest")
  /\ UNCHANGED <<dubVars, capVars, want, history>>

\* AudioCapture.start ignores the call when it is recording already.
CaptureTest(c) ==
  /\ pc[c] = "capTest"
  /\ Goto(c, IF capturing THEN "make" ELSE "capArm")
  /\ UNCHANGED <<dubVars, capVars, want, history>>

CaptureArm(c) ==
  /\ pc[c] = "capArm"
  /\ capturing' = TRUE
  /\ Goto(c, "capMake")
  /\ UNCHANGED <<dubVars, capThread, capture, queued, want, history>>

\* Mutant: a thread object that is there is used again.
CaptureMakeOnce(c) ==
  /\ pc[c] = "capMake"
  /\ IF capThread # 0
       THEN UNCHANGED <<capture, capThread>>
       ELSE \E k \in Unused(capture) :
              /\ capture' = [capture EXCEPT ![k] = "made"]
              /\ capThread' = k
  /\ Goto(c, "capGo")
  /\ UNCHANGED <<dubVars, capturing, queued, want, history>>

CaptureMake(c) ==
  /\ pc[c] = "capMake"
  /\ \E k \in Unused(capture) :
       /\ capture' = [capture EXCEPT ![k] = "made"]
       /\ capThread' = k
  /\ Goto(c, "capGo")
  /\ UNCHANGED <<dubVars, capturing, queued, want, history>>

\* self._thread.start() reads the attribute again.
CaptureGo(c) ==
  /\ pc[c] = "capGo"
  /\ IF StartRaises(capThread, capture)
       THEN Goto(c, "idle") /\ UNCHANGED capture
       ELSE Goto(c, "make") /\ capture' = [capture EXCEPT ![capThread] = "test"]
  /\ UNCHANGED <<dubVars, capturing, capThread, queued, want, history>>

Make(c) ==
  /\ pc[c] = "make"
  /\ \E k \in Unused(loop) :
       /\ loop' = [loop EXCEPT ![k] = "made"]
       /\ thread' = k
  /\ Goto(c, "go")
  /\ UNCHANGED <<running, mode, voiceTried, capVars, want, history>>

Go(c) ==
  /\ pc[c] = "go"
  /\ IF StartRaises(thread, loop)
       THEN UNCHANGED loop
       ELSE loop' = [loop EXCEPT ![thread] = "test"]
  /\ Goto(c, "idle")
  /\ UNCHANGED <<running, mode, voiceTried, thread, capVars, want, history>>

-----------------------------------------------------------------------------
(* stop                                                                    *)

Stop(c) ==
  /\ pc[c] = "idle"
  /\ running
  /\ running' = FALSE
  /\ Overlap(\E d \in Callers : pc[d] \in StartPoints)
  /\ Goto(c, "stopCapture")
  /\ UNCHANGED <<mode, voiceTried, thread, loop, capVars, want, starts>>

\* AudioCapture.stop does nothing when nothing is recorded.
StopCapture(c) ==
  /\ pc[c] = "stopCapture"
  /\ Goto(c, IF capturing THEN "clear" ELSE "stopLoop")
  /\ UNCHANGED <<dubVars, capVars, want, history>>

\* Mutant: the recording goes on.
ClearForgotten(c) ==
  /\ pc[c] = "clear"
  /\ Goto(c, "stored")
  /\ UNCHANGED <<dubVars, capVars, want, history>>

ClearCapture(c) ==
  /\ pc[c] = "clear"
  /\ capturing' = FALSE
  /\ Goto(c, "stored")
  /\ UNCHANGED <<dubVars, capThread, capture, queued, want, history>>

\* self._thread is not None
RecorderStored(c) ==
  /\ pc[c] = "stored"
  /\ Goto(c, IF capThread = 0 THEN "stopLoop" ELSE "alive")
  /\ UNCHANGED <<dubVars, capVars, want, history>>

\* Mutant: the recording thread is not waited for.
RecorderLeft(c) ==
  /\ pc[c] = "alive"
  /\ Goto(c, "stopLoop")
  /\ UNCHANGED <<dubVars, capVars, want, history>>

\* self._thread.is_alive()
RecorderAlive(c) ==
  /\ pc[c] = "alive"
  /\ IF capThread = 0
       THEN Goto(c, "idle")
       ELSE Goto(c, IF capThread \in Running(capture) THEN "awaitCapture" ELSE "stopLoop")
  /\ UNCHANGED <<dubVars, capVars, want, history>>

AwaitCapture(c) ==
  /\ pc[c] = "awaitCapture"
  /\ Goto(c, IF JoinRaises(capThread, capture) THEN "idle" ELSE "joinCapture")
  /\ UNCHANGED <<dubVars, capVars, want, history>>

\* join(timeout=2.0): the thread has ended, or it is left to itself.  Which thread it
\* was makes no difference to the call; without an overlap it is still the stored one.
JoinCapture(c) ==
  /\ pc[c] = "joinCapture"
  /\ lateCapture' = (lateCapture \/ (~overlapped /\ capThread \in Running(capture)))
  /\ capThread' = 0
  /\ Goto(c, "stopLoop")
  /\ UNCHANGED <<dubVars, capturing, capture, queued, want, starts, overlapped, lateLoop>>

StopLoop(c) ==
  /\ pc[c] = "stopLoop"
  /\ Goto(c, IF thread = 0 THEN "idle" ELSE "awaitLoop")
  /\ UNCHANGED <<dubVars, capVars, want, history>>

AwaitLoop(c) ==
  /\ pc[c] = "awaitLoop"
  /\ Goto(c, IF JoinRaises(thread, loop) THEN "idle" ELSE "joinLoop")
  /\ UNCHANGED <<dubVars, capVars, want, history>>

\* join(timeout=3.0), likewise; whatever thread is stored by then is forgotten.
JoinLoop(c) ==
  /\ pc[c] = "joinLoop"
  /\ lateLoop' = (lateLoop \/ (~overlapped /\ thread \in Running(loop)))
  /\ thread' = 0
  /\ Goto(c, "idle")
  /\ UNCHANGED <<running, mode, voiceTried, loop, capVars, want, starts, overlapped, lateCapture>>

-----------------------------------------------------------------------------
(* The recording thread                                                    *)

CaptureGoto(k, p) == capture' = [capture EXCEPT ![k] = p]

CaptureLoop(k) ==
  /\ capture[k] = "test"
  /\ CaptureGoto(k, IF capturing THEN "record" ELSE "ended")
  /\ UNCHANGED <<dubVars, capturing, capThread, queued, callVars, history>>

\* A chunk for which the queue has no room is dropped.
Record(k) ==
  /\ capture[k] = "record"
  /\ CaptureGoto(k, IF queued < MaxQueue THEN "put" ELSE "test")
  /\ UNCHANGED <<dubVars, capturing, capThread, queued, callVars, history>>

\* put() waits for room.
Put(k) ==
  /\ capture[k] = "put"
  /\ queued < MaxQueue
  /\ queued' = queued + 1
  /\ CaptureGoto(k, "test")
  /\ UNCHANGED <<dubVars, capturing, capThread, callVars, history>>

\* No device, or an exception of the recorder.
CaptureFails(k) ==
  /\ capture[k] \in {"test", "record"}
  /\ capturing' = FALSE
  /\ CaptureGoto(k, "ended")
  /\ UNCHANGED <<dubVars, capThread, queued, callVars, history>>

-----------------------------------------------------------------------------
(* The processing thread                                                   *)

LoopGoto(k, p) == loop' = [loop EXCEPT ![k] = p]

LoopTest(k) ==
  /\ loop[k] = "test"
  /\ LoopGoto(k, IF running THEN "get" ELSE "ended")
  /\ UNCHANGED <<running, mode, voiceTried, thread, capVars, callVars, history>>

\* Mutant: an empty queue is polled again without a look at the flag.
GetChunkAgain(k) ==
  /\ loop[k] = "get"
  /\ queued > 0
  /\ queued' = queued - 1
  /\ LoopGoto(k, "process")
  /\ UNCHANGED <<running, mode, voiceTried, thread, capturing, capThread, capture, callVars, history>>

\* get_chunk(timeout=1.0)
GetChunk(k) ==
  /\ loop[k] = "get"
  /\ IF queued > 0
       THEN queued' = queued - 1 /\ LoopGoto(k, "process")
       ELSE LoopGoto(k, "test") /\ UNCHANGED queued
  /\ UNCHANGED <<running, mode, voiceTried, thread, capturing, capThread, capture, callVars, history>>

\* A chunk of silence, one without text and one that raises are done with; the
\* others are dubbed in DUB mode.
Process(k) ==
  /\ loop[k] = "process"
  /\ \/ LoopGoto(k, "test")
     \/ mode # "dub" /\ LoopGoto(k, "second")
  /\ UNCHANGED <<running, mode, voiceTried, thread, capVars, callVars, history>>

\* elif self._mode == SUBTITLE: the mode is read again
EmitSubtitle(k) ==
  /\ loop[k] = "second"
  /\ LoopGoto(k, "test")
  /\ UNCHANGED <<running, mode, voiceTried, thread, capVars, callVars, history>>

-----------------------------------------------------------------------------
CallStep(c) ==
  \/ CheckMode(c) \/ LoadTts(c)
  \/ Enter(c) \/ Voice(c)
  \/ CaptureTest(c) \/ CaptureArm(c) \/ CaptureMake(c) \/ CaptureGo(c) \/ Make(c) \/ Go(c)
  \/ StopCapture(c) \/ ClearCapture(c) \/ RecorderStored(c) \/ RecorderAlive(c)
  \/ AwaitCapture(c) \/ JoinCapture(c) \/ StopLoop(c) \/ AwaitLoop(c) \/ JoinLoop(c)

CaptureStep(k) == CaptureLoop(k) \/ Record(k) \/ Put(k) \/ CaptureFails(k)

LoopStep(k) == LoopTest(k) \/ GetChunk(k) \/ Process(k) \/ EmitSubtitle(k)

Next ==
  \/ \E c \in Callers : (\E m \in Mode : SetMode(c, m)) \/ Stop(c) \/ CallStep(c)
  \/ \E k \in Threads : CaptureStep(k) \/ LoopStep(k)

Spec == Init /\ [][Next]_vars

\* A thread in a call or in the processing loop is scheduled; loading a model
\* and processing a chunk come to an end.  Nobody has to call anything, and the
\* sound device may hang.
FairSpec ==
  /\ Spec
  /\ \A c \in Callers : WF_vars(CallStep(c))
  /\ \A k \in Threads : WF_vars(LoopStep(k))

-----------------------------------------------------------------------------
\* Every variable keeps its type, and the queue its limit.
TypeOK ==
  /\ running \in BOOLEAN /\ voiceTried \in BOOLEAN /\ capturing \in BOOLEAN
  /\ mode \in Mode
  /\ thread \in {0} \cup Threads
  /\ capThread \in {0} \cup Threads
  /\ loop \in [Threads -> LoopPoint]
  /\ capture \in [Threads -> CapturePoint]
  /\ queued \in 0..MaxQueue
  /\ pc \in [Callers -> Point]
  /\ want \in [Callers -> Mode]
  /\ starts \in Nat
  /\ overlapped \in BOOLEAN /\ lateLoop \in BOOLEAN /\ lateCapture \in BOOLEAN

\* With no call in progress, a pipeline that runs in DUB mode has tried to load
\* its voice, however set_mode and start have overlapped: one writes the mode
\* and then reads the flag, the other writes the flag and then reads the mode.
VoiceReady == Quiet /\ running /\ mode = "dub" => voiceTried

\* The thread that _thread names has stopped recording.
StoredRecorderEnded == \E k \in Threads : capThread = k /\ capture[k] = "ended"

\* Unless a stop and a start have overlapped, the capture follows the dubber
\* between the calls: a running pipeline records, its own recorder has failed, or a
\* recorder that an earlier stop gave up has switched the capture off; a stopped one
\* does not record, and only threads given up by a join are left.
CaptureFollows ==
  Quiet /\ ~overlapped =>
    IF running
      THEN capturing \/ StoredRecorderEnded \/ lateCapture
      ELSE /\ ~capturing
           /\ Running(capture) # {} => lateCapture
           /\ Running(loop) # {} => lateLoop

\* A recording thread that has seen room in the queue finds it: put() does not
\* block.  It holds while one thread records: until a start and a stop overlap, or a
\* recorder that a stop gave up is revived by the next start.
PutFindsRoom ==
  ~overlapped /\ ~lateCapture =>
    \A k \in Threads : capture[k] = "put" => queued < MaxQueue

\* start() raises only for a pipeline that is running already, and stop() never: where
\* a call uses the stored thread, it can.
CallsDoNotRaise ==
  \A c \in Callers :
    /\ pc[c] = "capGo" => ~StartRaises(capThread, capture)
    /\ pc[c] = "go" => ~StartRaises(thread, loop)
    /\ pc[c] = "alive" => capThread # 0
    /\ pc[c] = "awaitCapture" => ~JoinRaises(capThread, capture)
    /\ pc[c] = "awaitLoop" => ~JoinRaises(thread, loop)

\* They do not as long as no stop begins inside a start and no start inside a stop,
\* whatever devices fail and joins time out.
RaisesOnlyOverlapped == ~overlapped => CallsDoNotRaise

\* After the last stop every processing thread ends, also one that a join has
\* given up or a later session has taken over.
LoopsEnd == <>[]~running => <>[](Running(loop) = {})

-----------------------------------------------------------------------------
(* What the code does not have (see the README)                            *)

\* A pipeline that is not running does not record.
StoppedIsSilent == Quiet /\ ~running => ~capturing

\* "The capture runs until stop() is called": while the pipeline runs it records,
\* unless its own recorder has failed.
RecordsUntilStop ==
  Quiet /\ ~overlapped /\ running => capturing \/ StoredRecorderEnded

\* One thread processes the chunks.
OneLoop == Cardinality(Running(loop)) <= 1

\* A segment with speech is dubbed or subtitled.
SegmentHeard == [][\A k \in Threads : loop[k] = "second" /\ loop'[k] # "second" => mode = "subtitle"]_vars

\* A session does not process what an earlier one has recorded.
StartsFresh == [][running' /\ ~running => queued = 0]_vars
=============================================================================
