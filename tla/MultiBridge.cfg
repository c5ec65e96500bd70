SPECIFICATION MultiBridgeSpec
CONSTANTS
    BridgeTokens = {b1,b2}
    OutsideTokens = {b1, b2}
    Holders = {u1}
    This = agToken
    BASE_PARAMS = 2
    HOUR = 2
    Amounts = {2}
    Limits = {2}
    HourlyLimits = {2}
    ChainLimits = {2}
    Fees = {1, 3}
    Exempted = {u1}
    MaxTime = 2
    MaxNative = 2
    MaxSupply = 2
SYMMETRY MCSymmetry
CHECK_DEADLOCK FALSE
INVARIANTS
    SwapsAreBacked
    RollingVolumesAreBounded
    ListedAreSupported
