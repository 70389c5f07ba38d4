CONSTANTS
  a = a
  b = b
  Endpoints = {a, b}
  WireIds = 8
  SendDelay = 1
  Expired = 2
  PackageSize = 12
  MsgSize <- MCMsgSize
  Start <- MCStart
  MaxMsgs <- MCMaxMsgs
  MaxTick <- MCMaxTick
  MaxQueue = 3
  Damage = {}
SPECIFICATION Spec
INVARIANT AssertHolds
CHECK_DEADLOCK FALSE
