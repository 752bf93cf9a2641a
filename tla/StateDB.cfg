SPECIFICATION Spec
CONSTANTS
  Addrs = {"s", "c", "n"}
  Sender = "s"
  Keys = {"k", "l"}
  Values = {0, 1}
  WeiPerUnibi = 2
  Amounts = {0, 1}
  Genesis <- MCGenesis
  MaxPrecompileCalls = 1
  Instructions = {"Call", "Create", "SLoad", "SStore", "SelfDestruct", "Log", "Refund", "TStore",
                  "PrecompileWrite", "PrecompileSend", "PrecompileFail"}
  MaxOps = 3
  MaxTxs = 1
INVARIANTS RevertRestoresModules RevertPanicsOnlyAfterDestruct
PROPERTIES RevertRestoresFrames CommitPersistsView SupplyNeverGrows
CHECK_DEADLOCK FALSE
