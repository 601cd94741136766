SPECIFICATION FairSpec
CONSTANTS
  CmdBytes <- MCCmdBytes
  KnownCmds <- MCKnownCmds
  CmdLens <- FirstLongCmd
  RspLens <- TodaysRspLens
  BadLens = {}
  BufSize = 100
  MaxCmds = 2
  MaxFaults = 0
  StartOrders = {TRUE}
PROPERTIES
  EveryCommandAnswered
CHECK_DEADLOCK FALSE
