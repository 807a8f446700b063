SPECIFICATION FairSpec
CONSTANTS
    None = None
    r1 = r1
    r2 = r2
    e1 = e1
    e2 = e2
    Emails = {e1}
    Requests = {r1, r2}
    Events <- Faults
    MaxUsers = 1
    MaxTokens = 3
    MaxConnections = 2
PROPERTIES Answered
