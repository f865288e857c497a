CONSTANTS
  Workers = {w1}
  BridgeWorkers = {}
  Pipes <- MCTwoPipes
  ClientOf <- MCClientOf
  PipeOrder <- MCTwoOrder
  Topics <- MCTopics
  RetainTopics = {}
  Filters = {"#"}
  Match <- MCMatch
  SysTopic = "sys"
  WillTopic = "t"
  Forwards = {}
  UpTopics = {}
  Upstream = Upstream
  ClientCmds = {}
  MaxPkts = 1
  MaxUp = 0
  AllowMalformed = FALSE
  AllowPlainDisconnect = FALSE
  NoMsg = NoMsg
  NoSession = NoSession
SPECIFICATION Spec
PROPERTY SubIndexRefined
CHECK_DEADLOCK FALSE
