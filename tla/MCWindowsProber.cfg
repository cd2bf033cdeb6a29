SPECIFICATION FairSpec

CONSTANTS
  a = a
  b = b
  Probes = {0, 1}
  Points = {a, b}
  Sessions <- MCSessions
  mQueueSize = 1
  DriverMayFail = TRUE

INVARIANTS StartIsAllOrNothing StreamsMatchDriver
PROPERTY SetStateReturns
