SPECIFICATION Spec
CONSTANTS
    NL = NL
    BEGIN = BEGIN
    END = END
    None = None
    stem = stem
    a = a
    b = b
    r1 = r1
    r2 = r2
    alice = alice
    bob = bob
    Text <- MCText
    Stems <- MCStems
    Events <- Restarts
    UploadNames <- TwoNames
    VerifyNames <- OneName
    Bodies <- Short
    Requests = {r1}
    Users = {alice, bob}
    MaxDocs = 2
    MaxKeys = 1
SYMMETRY SymmetricUsers
INVARIANTS UploadFaithful VerdictOwn OnlySignatureAccepted AloneOK
