CONSTANTS
  MaxVideo = 2
  MaxAudio = 2
  Gaps <- MCGraceGaps
  PillTimestamps <- MCZeroTimestamp
  Grace = 3
  MaxIterations = 2
  TimePerFrame = 1
  KeyFrames <- MCKeyFrames
  InitialJbSize = 4
  MaxJbSize = 8
  Forever = 4
SPECIFICATION Spec
INVARIANTS
  WorkersEndWithinGrace
  AudioHeldWhileBuffering
