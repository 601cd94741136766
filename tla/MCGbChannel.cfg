SPECIFICATION FairSpec
CONSTANTS
  CmdBytes <- MCCmdBytes
  KnownCmds <- MCKnownCmds
  CmdLens <- MCCmdLens
  RspLens <- MCRspLens
  BadLens <- MCBadLens
  BufSize = 100
  MaxCmds = 2
  MaxFaults = 1
  StartOrders = {TRUE, FALSE}
INVARIANTS
  TypeOK
  NoLostStatusUpdate
  RegionsNotShared
  CallReturnsItsResponse
PROPERTIES
  ImplementsSyncChannel
  FittingCommandAnswered
CHECK_DEADLOCK FALSE
