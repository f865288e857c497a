CONSTANTS
  Workers = {w1}
  BridgeWorkers = {}
  Pipes <- MCOnePipe
  ClientOf <- MCClientOf
  PipeOrder <- MCOneOrder
  Topics <- MCTopics
  RetainTopics = {}
  Filters <- MCFilters
  Match <- MCMatch
  SysTopic = "sys"
  WillTopic = "t"
  Forwards = {}
  UpTopics = {}
  Upstream = Upstream
  ClientCmds = {}
  MaxPkts = 2
  MaxUp = 0
  AllowMalformed = TRUE
  AllowPlainDisconnect = FALSE
  NoMsg = NoMsg
  NoSession = NoSession
SPECIFICATION Spec
INVARIANT IndexTreeDual
CHECK_DEADLOCK FALSE
