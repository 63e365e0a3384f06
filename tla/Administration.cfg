SPECIFICATION Spec
CONSTANTS
    Nil = Nil
    Client = {c1, c2}
    MaxAccounts = 2
    MaxFlights = 2
    Email = {admin, e1}
    AdminEmail = admin
    Number = {n1, n2}
    TokenLife = 1
    Rows = 1
INVARIANTS TypeOK EmailUnique NumberUnique TokenRoleTrue CabinComplete
PROPERTIES IdsLiveOnce GhostTokensEnd
CHECK_DEADLOCK FALSE
