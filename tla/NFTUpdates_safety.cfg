CONSTANTS
    Updates <- MCUpdates
    StoredDocs <- MCStoredDocs
    Attributes = {"", "a0", "a1"}
    URIs = {"u1", "u2"}
    TokenKeys = {"TKN-01", "TKN"}
    AccountKeys = {"A-TKN-01", "-TKN"}
    Absent = Absent
    MaxBatch = 2
    MaxBlocks = 2
    MaxRedeliveries = 1
    IssuedKeys = {"TKN"}
    Issuer = Issuer
    NewOwner = NewOwner
SPECIFICATION Spec
CHECK_DEADLOCK FALSE
INVARIANT TypeOK
INVARIANT NoDuplicateURIs
PROPERTIES TokenFieldsKept
