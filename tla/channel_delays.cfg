SPECIFICATION Spec
CONSTANTS
  OutChannels = {o1}
  InChannels = {far1, far2}
  Crossing = {far1, far2}
  Delays = {1, 3}
  WriteDelays = {0, 1}
  CountMod = 4
  MaxTime = 4
  MaxBuffered = 2
INVARIANTS TypeOK WindowKeepsPromise MappedOnce
CHECK_DEADLOCK FALSE
