SPECIFICATION FairSpec
CONSTANTS
  CmdBytes <- MCCmdBytes
  KnownCmds <- MCKnownCmds
  CmdLens <- TodaysCmdLens
  RspLens <- TodaysRspLens
  BadLens = {}
  BufSize = 100
  MaxCmds = 2
  MaxFaults = 1
  StartOrders = {TRUE}
PROPERTIES
  EveryCommandAnswered
CHECK_DEADLOCK FALSE
