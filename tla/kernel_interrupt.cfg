SPECIFICATION InterruptSpec
CONSTANTS
  a = a
  b = b
  c = c
  Timelines = {a, b}
  Maps <- PairMaps
  Route <- PairRoute
  Bodies <- LateBodies
  InitBodies <- LateInit
  InitHorizons = {0}
  EpochLengths = {4}
  NextActions = {"STOP_BEFORE_TIME"}
  MaxEpochs = 1
PROPERTY AdvanceReturns
CHECK_DEADLOCK FALSE
