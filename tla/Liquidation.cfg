SPECIFICATION GridSpec
CONSTANTS
    BASE_PARAMS = 10
    BASE_INTEREST = 4
    CollatBase = 2
    MaxUint = 1000000
    Users = {u1}
    NoOne = NoOne
    MaxVaults = 1
    MaxBalance = 1000000
    Contracts = {}
    StableAmounts = {1, 3, 8, 100}
    CollateralAmounts = {}
    Prices = {1, 3}
    InitialParams <- MCGridParams
    ParamChoices <- MCNoChoices
    WhitelistTargets = {}
    RemoteFees = {}
    ForeignDebt = 0
    MaxForeignDebt = 0
    MaxBadDebt = 100
    MaxTime = 0
    MaxActions = 1
    MaxCollateral = 100
    MaxCirculating = 100
    GridCollateral = {0, 1, 5, 11, 16, 21}
    GridDebts = {0, 1, 4, 9, 13, 18}
    GridAccumulators = {4, 5}
CHECK_DEADLOCK FALSE
INVARIANTS
    CanAlwaysBeLiquidated
PROPERTIES
    EveryStepIsBacked
    TargetNotOvershot
    NoBadDebtFromCoveredVaults
    OnlyGovernanceLeavesDust
