SPECIFICATION FairSpec

CONSTANTS
  Reader = r
  NullPtr = NullPtr
  QueueMaxBlocks = 2
  Faults = TRUE

INVARIANTS NoOrphanSession ReadersGetAnEnd
PROPERTIES StopReturns ImplementsWppClient

\* The reader's assertion may abort the process: the behaviour ends there.
CHECK_DEADLOCK FALSE
