SPECIFICATION FairSpec
CONSTANTS
    Users = {u1, u2}
    Accounts = {a1}
    NoAid = NoAid
    UninitAid <- FreshAid
    MaxOnline = 2
    MaxInFlight = 2
PROPERTIES
    LoginAnswered
    DisconnectFreesAccount
