CONSTANTS
  Workers = {w1}
  BridgeWorkers = {}
  Pipes <- MCOnePipe
  ClientOf <- MCClientOf
  PipeOrder <- MCOneOrder
  Topics <- MCTopics
  RetainTopics = {}
  Filters = {"#"}
  Match <- MCMatch
  SysTopic = "sys"
  WillTopic = "t"
  Forwards = {}
  UpTopics = {}
  Upstream = Upstream
  ClientCmds = {}
  MaxPkts = 0
  MaxUp = 0
  AllowMalformed = FALSE
  AllowPlainDisconnect = TRUE
  NoMsg = NoMsg
  NoSession = NoSession
SPECIFICATION Spec
INVARIANT NoMsgLeak
CHECK_DEADLOCK FALSE
