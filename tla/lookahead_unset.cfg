SPECIFICATION Spec
CONSTANTS
  OutChannels = {o1}
  InChannels = {far1, far2}
  Crossing = {far1, far2}
  Delays = {1}
  WriteDelays = {0}
  CountMod = 4
  MaxTime = 4
  MaxBuffered = 2
INVARIANTS LookaheadSound
CHECK_DEADLOCK FALSE
