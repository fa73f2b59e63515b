SPECIFICATION FairSpec
CONSTANTS
  a = a
  b = b
  c = c
  Timelines = {a, b, c}
  Maps <- RingMaps
  Route <- RingRoute
  Bodies <- RingBodies
  InitBodies <- RingInit
  InitHorizons = {0, 9}
  EpochLengths = {4, 5}
  NextActions = {"STOP_FUNCTION"}
  MaxEpochs = 1
INVARIANTS LegalWritesDelivered
PROPERTIES ImplementsParallelSim AdvanceReturns
