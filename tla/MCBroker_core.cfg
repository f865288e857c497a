\* One broker work item, no bridge: the sequential core.
CONSTANTS
  Workers = {w1}
  BridgeWorkers = {}
  Pipes <- MCTwoPipes
  ClientOf <- MCClientOf
  PipeOrder <- MCTwoOrder
  Topics <- MCTopics
  RetainTopics = {"t"}
  Filters = {"#"}
  Match <- MCMatch
  SysTopic = "sys"
  WillTopic = "t"
  Forwards = {}
  UpTopics = {}
  Upstream = Upstream
  ClientCmds = {}
  MaxPkts = 2
  MaxUp = 0
  AllowMalformed = FALSE
  AllowPlainDisconnect = FALSE
  NoMsg = NoMsg
  NoSession = NoSession
SPECIFICATION Spec
INVARIANT TypeOK
INVARIANT IndexTreeDual
INVARIANT NoMsgLeak
CHECK_DEADLOCK FALSE
PROPERTY Quiescence
