SPECIFICATION Spec
CONSTANTS
    NL = NL
    BEGIN = BEGIN
    END = END
    None = None
    stem = stem
    a = a
    b = b
    r1 = r1
    r2 = r2
    alice = alice
    bob = bob
    Text <- MCText
    Stems <- MCStems
    Events <- Troubled
    UploadNames <- TwoNames
    VerifyNames = {}
    Bodies <- OneLine
    Requests = {r1, r2}
    Users = {alice}
    MaxDocs = 2
    MaxKeys = 2
SYMMETRY Symmetric
INVARIANTS SignatureBinds SignedFileKept FilesOK
