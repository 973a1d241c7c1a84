CONSTANTS
  MaxVideo = 2
  MaxAudio = 1
  Gaps <- MCShortGaps
  PillTimestamps <- MCPillTimestamps
  Grace = 2
  MaxIterations = 2
  TimePerFrame = 1
  KeyFrames <- MCKeyFrames
  InitialJbSize = 1
  MaxJbSize = 2
  Forever = 4
SPECIFICATION Spec
INVARIANTS
  SleepsUntilNextFrame
