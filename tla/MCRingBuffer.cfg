SPECIFICATION Spec

CONSTANTS
  Bytes = {0, 1}
  Size = 2
  Writers = {w}
  Readers = {r}
  Contents <- MCContents
  Requests = {0, 1, 2, 3}
  MaxPosition = 4

INVARIANT BlockedForAReason
PROPERTY ImplementsBytePipe
