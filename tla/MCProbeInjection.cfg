SPECIFICATION FairSpec

CONSTANTS
  Writer = w
  Injector = i
  QueueSize = 3
  BufferSize = 4
  SampleByteSize = 2
  Contents <- MCContents
  MaxPosition = 6

INVARIANTS WholeSamples StopLeavesNothing
PROPERTIES StopReturns WriterReleased

\* A failed assertion aborts the process: the behaviour ends there.
CHECK_DEADLOCK FALSE
