SPECIFICATION Spec
CONSTANTS
    Users = {u1, u2}
    Accounts = {a1, a2}
    NoAid = NoAid
    UninitAid <- AnyAid
    MaxOnline = 2
    MaxInFlight = 2
SYMMETRY Symmetry
INVARIANTS
    SessionInv
    OneSessionPerAccount
    UsedAccountsActive
    WorldMatchesRoles
PROPERTIES
    AccountFixed
