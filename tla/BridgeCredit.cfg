SPECIFICATION ReadySpec
CONSTANTS
    BridgeTokens = {lz}
    OutsideTokens = {}
    Holders = {lz, u1}
    This = agToken
    BASE_PARAMS = 2
    HOUR = 1
    Amounts = {1}
    Limits = {}
    HourlyLimits = {}
    ChainLimits = {}
    Fees = {}
    Exempted = {}
    MaxTime = 0
    MaxNative = 2
    MaxSupply = 0
    Main = Main
    Side = Side
    LZ = lz
    MaxMessages = 2
    MaxMinted = 2
    MainSupply = 0
    FirstDetails <- MCDetails
    FirstChainLimit = 4
CHECK_DEADLOCK FALSE
INVARIANTS
    NotReceivedIsOwed
