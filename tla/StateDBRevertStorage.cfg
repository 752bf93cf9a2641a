SPECIFICATION Spec
CONSTANTS
  Addrs = {"s", "c", "n"}
  Sender = "s"
  Keys = {"k"}
  Values = {0, 1}
  WeiPerUnibi = 2
  Amounts = {1}
  Genesis <- MCNew
  MaxPrecompileCalls = 2
  Instructions = {"Call", "SStore", "PrecompileWrite"}
  MaxOps = 3
  MaxTxs = 1
PROPERTY RevertRestoresView
CHECK_DEADLOCK FALSE
