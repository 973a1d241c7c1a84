CONSTANTS
  InitialJbSizes <- MCInitialJbSizes
  MaxJbSize = 100
  IncreaseWindow = 60
  MaxIterations = 3
  Fps <- MCFps
  MaxFrames = 2
  MaxTime = 70
  MaxRefills = 5
SPECIFICATION FairSpec
INVARIANTS
  TypeOK
  BelowTwiceMax
  GrowsOncePerRefill
PROPERTIES
  BufferingEnds
