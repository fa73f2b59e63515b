SPECIFICATION FairSpec
CONSTANTS
  a = a
  b = b
  c = c
  Timelines = {a, b}
  Maps <- PairMaps
  Route <- PairRoute
  Bodies <- QuietBodies
  InitBodies <- QuietInit
  InitHorizons = {0}
  EpochLengths = {6}
  NextActions = {"STOP_BEFORE_TIME"}
  MaxEpochs = 1
PROPERTY AdvanceReturns
