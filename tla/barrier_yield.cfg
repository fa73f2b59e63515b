SPECIFICATION FairSpec
CONSTANTS
  count = 3
  Offers = {1, 2}
  MaxRounds = 2
INVARIANTS
  TypeOK
  ValuesStable
PROPERTIES
  ImplementsMinBarrier
  WaitReturns
CHECK_DEADLOCK FALSE
