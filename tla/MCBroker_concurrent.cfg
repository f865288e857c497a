CONSTANTS
  Workers = {w1, w2}
  BridgeWorkers = {}
  Pipes <- MCPairPipes
  ClientOf <- MCClientOf
  PipeOrder <- MCPairOrder
  Topics <- MCTopics
  RetainTopics = {}
  Filters = {"#"}
  Match <- MCMatch
  SysTopic = "sys"
  WillTopic = "t"
  Forwards = {}
  UpTopics = {}
  Upstream = Upstream
  ClientCmds = {"PINGREQ", "PUBACK", "AUTH"}
  MaxPkts = 1
  MaxUp = 0
  AllowMalformed = TRUE
  AllowPlainDisconnect = TRUE
  NoMsg = NoMsg
  NoSession = NoSession
SPECIFICATION Spec
INVARIANT MsgRefSafe
CHECK_DEADLOCK FALSE
