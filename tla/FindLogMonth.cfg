SPECIFICATION Spec
CONSTANTS
    p1 = p1
    p2 = p2
    admin = admin
    other = other
    guest = guest
    Processes = {p1}
    Commands <- Container
    Tables <- FourTables
    Emails = {admin}
    Seeds <- OneSeed
    Months = 12
    MaxUsers = 1
INVARIANTS LogMonth
