SPECIFICATION Spec
CONSTANTS
  MSS = 1
  RcvWnd = 3
  SndWnd = 3
  SndBuf = 4
  ISS = 0
  MaxConWnd = 3
  InitThresh = 3
  MaxRxmit = 1
  client = client
  server = server
  ClientBytes = 5
  ServerBytes = 0
  SendSizes = {5}
  RecvSizes = {5}
  NetCap = 2
INVARIANTS
  TypeOK
  StreamPrefix
  AckedIsHeld
  EofIsEnd
  TimerMatchesState
  ResendBounds
  UntimedDataResent
  RecvMayWait
CHECK_DEADLOCK FALSE
