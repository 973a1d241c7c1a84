CONSTANTS
  MaxVideo = 2
  MaxAudio = 1
  Gaps <- MCGaps
  PillTimestamps <- MCPillTimestamps
  Grace = 3
  MaxIterations = 2
  TimePerFrame = 1
  KeyFrames <- MCKeyFrames
  InitialJbSize = 3
  MaxJbSize = 6
  Forever = 4
SPECIFICATION Spec
INVARIANTS
  TypeOK
  NoFrameLost
  LowFollowsHigh
  HighWorkNeverNull
  PacedByFrames
  OutlivedBySleepOnly
PROPERTIES
  RelaySpec
  TornDownOverSleepers
