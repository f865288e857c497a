\* Two work items replay the same retained message to two subscribers.
CONSTANTS
  Workers = {w1, w2}
  BridgeWorkers = {}
  Pipes <- MCPairPipes
  ClientOf <- MCClientOf
  PipeOrder <- MCPairOrder
  Topics <- MCTopics
  RetainTopics = {"t"}
  Filters = {"t"}
  Match <- MCMatch
  SysTopic = "sys"
  WillTopic = "t"
  Forwards = {}
  UpTopics = {}
  Upstream = Upstream
  ClientCmds = {}
  MaxPkts = 2
  MaxUp = 0
  AllowMalformed = FALSE
  AllowPlainDisconnect = FALSE
  NoMsg = NoMsg
  NoSession = NoSession
SPECIFICATION Spec
CONSTRAINT MCStayOpen
CHECK_DEADLOCK FALSE
INVARIANT RetainedToSubscriber
