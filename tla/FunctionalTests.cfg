SPECIFICATION Spec
CONSTANTS
  Filled <- FilledWith
  SizeOf <- SizeOfType
  HeaderSize <- SizeInHeader
  ReadInto <- ReadOver
  Write <- Written
  MaxParameterPayloadSize = 4096
  TlvBufferSize = 2048
  MOD_INST_PROPS = 254
  MOD_INST_ENABLE = 6
  MaxNumber = 255
  ModuleNames <- TestModuleNames
  TypeNames   <- TestTypeNames
  Collections <- TestCollections
  Tests <- AllTests
  LoggerCores <- TestLoggerCores
  ControlParameters <- TestControlParameters
INVARIANTS
  CommandsAreThoseExpected
  RequestsAreAnswered
