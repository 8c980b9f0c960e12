SPECIFICATION Spec
CONSTANTS
    u1 = u1  u2 = u2  x1 = x1  x2 = x2
    None = None
    Users <- MCUsers
    AliasOf <- MCAliasOf
    MaxScreens = 3
    MaxAlerts = 1
    MaxPushes = 2
    MaxLogins = 2
INVARIANTS
    TokenHasItsUser
    ScreenOfTheSession
    AliasOfTheSession
