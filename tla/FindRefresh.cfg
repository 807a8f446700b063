SPECIFICATION Spec
CONSTANTS
    None = None
    r1 = r1
    r2 = r2
    e1 = e1
    e2 = e2
    Emails = {e1, e2}
    Requests = {r1}
    Events <- Calm
    MaxUsers = 1
    MaxTokens = 2
    MaxConnections = 2
PROPERTIES RefreshFound
