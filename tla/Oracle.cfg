SPECIFICATION OracleSpec
CONSTANTS
    v1 = v1
    v2 = v2
    v3 = v3
    feeder = feeder
    Feeders = {feeder}
    Pairs <- MCPairs
    Ballots <- MCBallots
    Geneses <- MCGeneses
    ParamEdits <- MCEdits
    Precision = 1000
    Funds <- MCFunds
    MaxHeight = 4
INVARIANTS
    CommitBeforeReveal
    RewardsBacked
    OnlyDissentersSlashed
    OnlyRemovedOperatorsHalt
    TwapWithinPrices
PROPERTIES
    PrevoteSurvivesRevealPeriod
    PriceIsMedianOfVotes
    WhitelistFollowsParams
CHECK_DEADLOCK FALSE
