SPECIFICATION FairSpec

CONSTANTS
  Cores = {c0, c1}
  Reader = r
  NullPtr = NullPtr
  QueueMaxBlocks = 2
  StartFaults = TRUE
  DeviceFaults = TRUE
  SpuriousWakeups = TRUE
  MaxStuck = 2

INVARIANTS StopNeverAsserts VotesBalanced NoStaleBlocks
PROPERTIES StopReturns ReaderReleased

\* The reader's assertion may abort the process: the behaviour ends there.
CHECK_DEADLOCK FALSE
