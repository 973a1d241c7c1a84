CONSTANTS
  MaxVideo = 2
  MaxAudio = 1
  Gaps <- MCShortGaps
  PillTimestamps <- MCFarTimestamp
  Grace = 2
  MaxIterations = 2
  TimePerFrame = 1
  KeyFrames <- MCKeyFrames
  InitialJbSize = 1
  MaxJbSize = 1
  Forever = 4
SPECIFICATION FairSpec
PROPERTIES
  FramesEventuallySent
  WorkersStop
