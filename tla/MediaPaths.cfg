CONSTANTS
  Input = 16
  Opus = 15
  Messages = 75
  Period = 1600
  JbSize = 60
  Holds <- MCHolds
  MaxBacklog = 20
  MaxFailures = 1
  NalBytes = 2
  Capacity = 28
  Frames <- MCFrames
  HeaderCuts <- MCHeaderCuts
  Kinds <- MCKinds
  ChunkSizes <- MCChunkSizes
  Cuts <- MCCuts
  Sizes <- MCSizes
  Target = "target"
SPECIFICATION Spec
INVARIANTS TypeOK SamplesConserved ChunksDoNotMatter FramesConverted SlicesConverted PicturesArrive ScaleFitsPicture
PROPERTIES BacklogSettles
