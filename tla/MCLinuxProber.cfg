SPECIFICATION FairSpec

CONSTANTS
  a = a
  b = b
  Probes = {0, 1}
  Readers = {1}
  Points = {a, b}
  Configs <- MCConfigs
  NoConfig <- Off
  mMaxExtractionProbes = 2
  mMaxInjectionProbes = 1
  QueueMaxPackets = 1
  ReconfigureWhileActive = FALSE
  MaxEscapes = 1

INVARIANTS SessionIsWired NoForeignPackets
PROPERTIES ReaderReleased
