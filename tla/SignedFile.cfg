SPECIFICATION Spec
CONSTANTS
    NL = NL
    BEGIN = BEGIN
    END = END
    a = a
    Text <- MCText
    MaxLength = 5
    Keys = {1, 2}
CHECK_DEADLOCK FALSE
INVARIANTS  ReadsWhatIsThere
