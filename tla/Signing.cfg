SPECIFICATION Spec
CONSTANTS
    NL = NL
    BEGIN = BEGIN
    END = END
    None = None
    stem = stem
    a = a
    b = b
    r1 = r1
    r2 = r2
    alice = alice
    bob = bob
    Text <- MCText
    Stems <- MCStems
    Events <- Quiet
    UploadNames <- OneName
    VerifyNames <- OneName
    Bodies <- OneLine
    Requests = {r1, r2}
    Users = {alice}
    MaxDocs = 2
    MaxKeys = 1
SYMMETRY Symmetric
INVARIANTS TypeOK IInv SignatureBinds VerdictSound TempReclaimed SignedFileKept OriginalKept
PROPERTIES RowsKept ImplementsLedger
