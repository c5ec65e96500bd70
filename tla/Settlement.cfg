SPECIFICATION SettlementSpec
CONSTANTS
    VaultIDs = {v1, v2}
    Users = {u1, u2}
    BASE_PARAMS = 2
    BASE_INTEREST = 2
    BASE_STABLECOIN = 4
    CollatBase = 1
    DURATION = 0
    CollateralFactor = 1
    Collaterals = {1, 3}
    Debts = {1, 3}
    Accumulators = {3}
    Prices = {2}
    Stablecoins = {2}
    Amounts = {1, 2}
    MaxTime = 1
    MaxDepth = 2
    MaxActivations = 1
    MaxClaimPeriods = 1
    MaxRedeemed = 4
SYMMETRY MCSymmetry
CHECK_DEADLOCK FALSE
INVARIANTS
    SettlementTypeOK
    PaidOnce
    RedemptionsAreCovered
