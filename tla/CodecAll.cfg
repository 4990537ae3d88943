\* Nothing is left to change: a payload with all its edits.
CHECK_DEADLOCK FALSE
CONSTANTS
  MaxRun = 254
  Samples <- MCSamples
  Noise = {0, 1, 3, 17}
  MaxEdits = 2
  MaxLen = 60
SPECIFICATION Spec
INVARIANTS
  TypeOK
  RoundTrip
  Canonical
  CutRefused
  ShapesApart
  FramesFit
