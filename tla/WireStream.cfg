\* The reader ends when its transport fails.
CHECK_DEADLOCK FALSE
CONSTANTS
  MaxRun = 4
  Encode <- EncodeFrame
  Decode <- DecodeFrame
  Frames <- FrameSet
  Msgs <- MCMsgs
  Noise = {0, 3}
  MaxSent = 3
  MaxFaults = 2
  MaxStalls = 1
SPECIFICATION Spec
INVARIANTS
  TypeOK
  Resyncs
  ErrorsHaveCauses
  Detected
PROPERTY KeepsFrames
