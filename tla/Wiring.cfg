SPECIFICATION Spec
CONSTANTS
    Accounts = {t1, t2, m1, m2, public, manager}
    FlashModules = {m1, m2}
    NoModule = NoModule
    NoTreasury = NoTreasury
    Public = public
    BASE_PARAMS = 2
    Treasuries = {t1, t2}
    VaultManagers = {v1, v2}
    FirstTreasury = t1
    OtherMinters = {o1}
    Recipient = manager
    NoManager = NoManager
    Managers = {}
    BASE_9 = 2
    Amounts = {}
    Shares = {}
    FlashParams = {}
    MinterChoices = {o1}
    DirectRoles = TRUE
    MaxBacking = 0
    MaxCallback = 0
    FirstModule = m1
SYMMETRY MCSymmetry
CHECK_DEADLOCK FALSE
INVARIANTS
    RegistryConsistent
    RegisteredCanMint
    MintersHaveAReason
