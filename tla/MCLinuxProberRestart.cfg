SPECIFICATION Spec

CONSTANTS
  a = a
  b = b
  Probes = {0, 1}
  Readers = {0, 1}
  Points = {a, b}
  Configs <- MCConfigs
  NoConfig <- Off
  mMaxExtractionProbes = 2
  mMaxInjectionProbes = 1
  QueueMaxPackets = 1
  ReconfigureWhileActive = TRUE
  MaxEscapes = 0

INVARIANTS StopClosesQueues
