CONSTANTS
  Workers = {w1}
  BridgeWorkers = {b1}
  Pipes <- MCOnePipe
  ClientOf <- MCClientOf
  PipeOrder <- MCOneOrder
  Topics <- MCTopics
  RetainTopics = {}
  Filters = {"#"}
  Match <- MCMatch
  SysTopic = "sys"
  WillTopic = "t"
  Forwards = {}
  UpTopics = {"t"}
  Upstream = Upstream
  ClientCmds = {"PUBACK"}
  MaxPkts = 1
  MaxUp = 1
  AllowMalformed = FALSE
  AllowPlainDisconnect = FALSE
  NoMsg = NoMsg
  NoSession = NoSession
SPECIFICATION Spec
INVARIANT BridgeBinding
CHECK_DEADLOCK FALSE
