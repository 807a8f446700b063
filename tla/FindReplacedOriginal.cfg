SPECIFICATION Spec
CONSTANTS
    NL = NL
    BEGIN = BEGIN
    END = END
    None = None
    stem = stem
    a = a
    b = b
    r1 = r1
    r2 = r2
    alice = alice
    bob = bob
    Text <- MCText
    Stems <- MCStems
    Events <- Traffic
    UploadNames <- OneName
    VerifyNames <- OneName
    Bodies <- TwoLines
    Requests = {r1}
    Users = {alice}
    MaxDocs = 2
    MaxKeys = 1
INVARIANTS SignedTextKept
