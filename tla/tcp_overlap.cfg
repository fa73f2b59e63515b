SPECIFICATION Spec
CONSTANTS
  MSS = 2
  RcvWnd = 4
  SndWnd = 4
  SndBuf = 4
  ISS = 0
  MaxConWnd = 4
  InitThresh = 4
  MaxRxmit = 1
  client = client
  server = server
  ClientBytes = 3
  ServerBytes = 0
  SendSizes = {1, 2}
  RecvSizes = {5}
  NetCap = 2
INVARIANTS
  NoPartialOverlap
CHECK_DEADLOCK FALSE
