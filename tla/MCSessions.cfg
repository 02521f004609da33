SPECIFICATION Spec
CONSTANTS
    Users = {u1}
    NoUser = NoUser
    NoRow = NoRow
    Requests = {r1, r2}
    Roles = {admin, viewer}
    SessionLife = 2
    AccessLife = 1
    LockLife = 1
    MaxFails = 2
    MaxSid = 1
    MaxHead = 2
    MaxTries = 2
    MaxTime = 3
INVARIANTS
    AcceptedPostdateReset
    OnlyLegacyUpgradeUndoesReset
    RoleChangesArriveInTime
    LockedOnlyAfterEnoughTries
SYMMETRY Symmetry
