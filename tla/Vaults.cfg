SPECIFICATION ConfiguredSpec
CONSTANTS
    BASE_PARAMS = 10
    BASE_INTEREST = 4
    CollatBase = 1
    MaxUint = 1000000
    Users = {u1, c1}
    NoOne = NoOne
    MaxVaults = 2
    MaxBalance = 1000000
    Contracts = {c1}
    StableAmounts = {2, 5}
    CollateralAmounts = {3}
    Prices = {1, 3}
    InitialParams <- MCParams
    ParamChoices <- MCChoices
    WhitelistTargets = {NoOne, u1}
    RemoteFees <- MCRemoteFees
    ForeignDebt = 0
    MaxForeignDebt = 2
    MaxBadDebt = 0
    MaxTime = 1
    MaxActions = 2
    MaxCollateral = 6
    MaxCirculating = 4
CONSTRAINT Families
CHECK_DEADLOCK FALSE
INVARIANTS
    TypeOK
    DebtConservation
    ParamsConsistent
    CollateralCustody
    FreeVaultsAreEmpty
    CachedAccumulatorIsFresh
PROPERTIES
    EveryStepIsBacked
    OnlyTimeAccrues
    RiskierVaultsAreSolvent
