SPECIFICATION ConfiguredSpec
CONSTANTS
    Accounts = {t1, m1, public, manager}
    FlashModules = {m1}
    NoModule = NoModule
    NoTreasury = NoTreasury
    Public = public
    BASE_PARAMS = 1
    Treasuries = {t1}
    VaultManagers = {v1, v2}
    FirstTreasury = t1
    OtherMinters = {o1}
    Recipient = manager
    NoManager = NoManager
    Managers = {manager}
    BASE_9 = 2
    Amounts = {0, 1}
    Shares = {1}
    FlashParams <- MCFlashParams
    MinterChoices = {o1}
    DirectRoles = FALSE
    MaxBacking = 2
    MaxCallback = 1
    FirstModule = m1
SYMMETRY MCSymmetry
CHECK_DEADLOCK FALSE
INVARIANTS
    TypeOK
    StablecoinsAddUp
    BufferIsBacked
    LossesComeFirst
PROPERTIES
    PaidOnlyWithoutLosses
