CONSTANTS
  Workers = {w1}
  BridgeWorkers = {b1}
  Pipes <- MCOnePipe
  ClientOf <- MCClientOf
  PipeOrder <- MCOneOrder
  Topics <- MCTopics
  RetainTopics = {}
  Filters <- MCFilters
  Match <- MCMatch
  SysTopic = "sys"
  WillTopic = "t"
  Forwards = {"t"}
  UpTopics = {"t", "sys"}
  Upstream = Upstream
  ClientCmds = {"PUBACK"}
  MaxPkts = 2
  MaxUp = 2
  AllowMalformed = FALSE
  AllowPlainDisconnect = FALSE
  NoMsg = NoMsg
  NoSession = NoSession
SPECIFICATION Spec
INVARIANT NoMsgLeak
CHECK_DEADLOCK FALSE
