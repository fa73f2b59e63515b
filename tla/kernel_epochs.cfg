SPECIFICATION Spec
CONSTANTS
  a = a
  b = b
  c = c
  Timelines = {a, b}
  Maps <- PairMaps
  Route <- PairRoute
  Bodies <- QuietBodies
  InitBodies <- QuietInit
  InitHorizons = {0, 9}
  EpochLengths = {2, 3}
  NextActions = {"STOP_BEFORE_TIME","STOP_FUNCTION"}
  MaxEpochs = 2
INVARIANTS TypeOK WindowListIsolated SameWindow NoStraggler EpochComplete NoEventLost
PROPERTY ClockNeverBack
