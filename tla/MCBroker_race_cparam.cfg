CONSTANTS
  Workers = {w1, w2}
  BridgeWorkers = {}
  Pipes <- MCOnePipe
  ClientOf <- MCClientOf
  PipeOrder <- MCOneOrder
  Topics <- MCTopics
  RetainTopics = {}
  Filters = {"#"}
  Match <- MCMatch
  SysTopic = "sys"
  WillTopic = "t"
  Forwards = {}
  UpTopics = {}
  Upstream = Upstream
  ClientCmds = {}
  MaxPkts = 1
  MaxUp = 0
  AllowMalformed = FALSE
  AllowPlainDisconnect = FALSE
  NoMsg = NoMsg
  NoSession = NoSession
SPECIFICATION Spec
INVARIANT CparamSafe
CHECK_DEADLOCK FALSE
