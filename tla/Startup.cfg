SPECIFICATION Spec
CONSTANTS
    p1 = p1
    p2 = p2
    admin = admin
    other = other
    guest = guest
    Processes = {p1, p2}
    Commands <- Deployment
    Tables <- FourTables
    Emails = {admin, other, guest}
    Seeds <- TwoSeeds
    Months = 1
    MaxUsers = 3
SYMMETRY Symmetric
INVARIANTS TypeOK NoTwin FailsForAReason ServesPrepared IInv
