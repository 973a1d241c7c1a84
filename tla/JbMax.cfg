CONSTANTS
  InitialJbSizes <- ShippedInitialJbSizes
  MaxJbSize = 2000
  IncreaseWindow = 15000
  MaxIterations = 2
  Fps <- ShippedFps
  MaxFrames = 1
  MaxTime = 15010
  MaxRefills = 8
SPECIFICATION Spec
INVARIANTS
  WithinMax
