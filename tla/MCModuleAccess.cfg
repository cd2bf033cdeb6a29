SPECIFICATION Spec
CONSTANTS
  Filled <- FilledWith
  SizeOf <- SizeOfType
  HeaderSize <- SizeInHeader
  ReadInto <- ReadOver
  Write <- Written
  MaxParameterPayloadSize = 160
  MOD_INST_PROPS = 254
  MOD_INST_ENABLE = 6
  TlvBufferSize = 128
  ControlParameters <- MCControlParameters
  Platforms = {"linux", "windows"}
  Main = main
  Clients = {c1, c2}
  ClientRequests <- MCClientRequests
  Firmwares <- MCFirmwares
  StreamBuffer = 32
  MaxFaults = 1
  MaxRequests = 2
SYMMETRY MCSymmetry
CHECK_DEADLOCK FALSE
INVARIANTS
  NoSpuriousErrors
  AnswersAreTrue
  SuccessMeansApplied
  AccessesReturnTheirVote
