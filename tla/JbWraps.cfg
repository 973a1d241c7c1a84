CONSTANTS
  InitialJbSizes <- WidestInitialJbSizes
  MaxJbSize = 65535
  IncreaseWindow = 15000
  MaxIterations = 2
  Fps <- ShippedFps
  MaxFrames = 1
  MaxTime = 15010
  MaxRefills = 8
SPECIFICATION Spec
PROPERTIES
  NeverShrinks
