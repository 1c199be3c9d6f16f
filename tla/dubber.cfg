SPECIFICATION FairSpec
CONSTANTS
  Callers = {c1, c2}
  Starters = {c1}
  MaxStarts = 2
  MaxQueue = 1
INVARIANTS VoiceReady CaptureFollows PutFindsRoom RaisesOnlyOverlapped
PROPERTY LoopsEnd
\* Sessions are bounded.
CHECK_DEADLOCK FALSE
