SPECIFICATION Spec
CONSTANTS
    Accounts = {t1, m1, public, manager}
    FlashModules = {m1}
    NoModule = NoModule
    NoTreasury = NoTreasury
    Public = public
    BASE_PARAMS = 2
    Treasuries = {t1}
    VaultManagers = {v1, v2}
    FirstTreasury = t1
    OtherMinters = {o1}
    Recipient = manager
    NoManager = NoManager
    Managers = {}
    BASE_9 = 2
    Amounts = {}
    Shares = {}
    FlashParams = {}
    MinterChoices = {o1}
    DirectRoles = FALSE
    MaxBacking = 0
    MaxCallback = 0
    FirstModule = m1
CHECK_DEADLOCK FALSE
INVARIANTS
    FlashLoanersAreInitialized
