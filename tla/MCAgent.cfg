SPECIFICATION FairSpec

CONSTANTS
  log = log
  injection = injection
  logService = logService
  probeService = probeService
  NoHolder = NoHolder
  HttpThreads = {t1, t2, t3}
  Services = {logService, probeService}
  LogService = logService
  OutStreams = {log}
  InStreams = {injection}
  ServiceOf <- MCServiceOf

INVARIANT StreamsAreExclusive
PROPERTIES AThreadGetsFree DeadClientsAreDropped OnlyOpenQueuesKeepTheAgent

\* The agent ends.
CHECK_DEADLOCK FALSE
