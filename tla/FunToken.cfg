SPECIFICATION FTSpec
CONSTANTS
    alice = alice
    bob = bob
    Users = {alice, bob}
    Module = evm
    Pot = pot
    Coins = {"unibi", "atom"}
    NativeDenom = "unibi"
    Tokens = {"usdc"}
    FeePercentage <- MCFeePercentage
    ERC20Denom <- MCERC20Denom
    CreateAddress <- MCCreateAddress
    CreateFuntokenFee = 1
    GenesisCoins <- MCGenesisCoins
    GenesisTokens <- MCGenesisTokens
    GenesisMetadata = {"unibi", "atom"}
    Amounts = {1, 2}
    MaxNonce = 4
INVARIANTS MappingsUnique EscrowBacked
PROPERTY ConversionsExact
CHECK_DEADLOCK FALSE
