SPECIFICATION Spec
CONSTANTS
  a = a
  b = b
  c = c
  Timelines = {a, b}
  Maps <- PairMaps
  Route <- PairRoute
  Bodies <- LateBodies
  InitBodies <- LateInit
  InitHorizons = {0}
  EpochLengths = {3, 5}
  NextActions = {"STOP_BEFORE_TIME"}
  MaxEpochs = 2
INVARIANT LegalWritesDelivered
