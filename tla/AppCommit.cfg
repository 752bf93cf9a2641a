SPECIFICATION Spec
CONSTANTS
    Blocked = {2}
    WeiPerUnibi = 2
    BaseFee = 1
    MinGasPrice = 1
    Intrinsic = 2
    RefundQuotient = 2
    BlockGasLimit = 6
    MaxUint64 = 6
    CodeAccounts = {}
    Contracts = {4, 5}
    Creator <- MCCreator
    GovModule = 9
    None = 0
    FeeDenom = "unibi"
    Users = {1, 3}
    EthTxs <- MCEthTxs
    SdkTxs = {}
    Submitted = {}
    Outcomes <- MCOutcomes
    ParamsSet <- MCParams
    Genesis <- MCGenesis
    MaxNonce = 1
    Singles <- MCToModule
    Pairs = {}
    MaxHeight = 2
    MaxTxs = 1
    MaxPool = 2
PROPERTY ErrorsAreNotCommitted
CHECK_DEADLOCK FALSE
