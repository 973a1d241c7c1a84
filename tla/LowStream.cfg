CONSTANTS
  Second = 4
  Ages = 1
  Gaps <- MCGaps
  MaxFps = 8
  InitialFps = 4
  Dfps = 2
  Width = 3
  MaxFrames = 2
  QueueSize = 1
SPECIFICATION Spec
INVARIANTS TypeOK
PROPERTIES PredictionIsRate LowWithinShare
