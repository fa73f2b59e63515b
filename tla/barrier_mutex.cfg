SPECIFICATION FairSpec
CONSTANTS
  Threads = {t1, t2, t3}
  Offers = {0, 1}
  MaxRounds = 3
INVARIANTS
  TypeOK
  CycleTellsRounds
  OneSerialThread
PROPERTIES
  ImplementsMinBarrier
  WaitReturns
