SPECIFICATION Spec

CONSTANTS
  small = small
  large = large
  huge = huge
  NullPtr = NullPtr
  Elements = {small, large, huge}
  ElementSize <- MCElementSize
  MaxByteSize = 3
  Consumers = {c1, c2, c3}
  SpuriousWakeups = TRUE
  Quiescent = FALSE

INVARIANTS Accounting NoLostWakeup
PROPERTY ImplementsElementQueue

\* A failed assertion aborts the process: the behaviour ends there.
CHECK_DEADLOCK FALSE
