SPECIFICATION Spec
CONSTANTS
    None = None
    r1 = r1
    r2 = r2
    e1 = e1
    e2 = e2
    Emails = {e1, e2}
    Requests = {r1, r2}
    Events <- Faults
    MaxUsers = 2
    MaxTokens = 3
    MaxConnections = 3
SYMMETRY Symmetric
INVARIANTS TypeOK EmailsUnique OnlyDeleteLeaks SessionsReplaced IInv
PROPERTIES SessionEndsByLogin DeletedUserKept ImplementsSessions
