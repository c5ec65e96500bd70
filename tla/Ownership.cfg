SPECIFICATION PermitSpec
CONSTANTS
    Users = {u1, u2, u3}
    NoOne = NoOne
    MaxVaults = 2
    MaxBalance = 3
    Deadlines = {0}
    MaxSigned = 2
    MaxNonce = 1
    MaxTimestamp = 1
CONSTRAINT SignaturesOrTwoVaults
SYMMETRY MCSymmetry
CHECK_DEADLOCK FALSE
INVARIANTS
    BalancesCountOwners
    FreeIDsCarryNoRights
    PermitsAreUsedOnce
PROPERTIES
    OwnershipChangesCleanly
