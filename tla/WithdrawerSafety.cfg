SPECIFICATION Spec
CONSTANTS
    r1 = r1
    r2 = r2
    r3 = r3
    f1 = f1
    NoRow = NoRow
    NoHash = NoHash
    Requests = {r1, r2}
    Unsignable = {}
    Foreign = {f1}
    Batch = 2
    Confirmations = 2
    MaxHeight = 4
    MaxReorgs = 0
    MaxReorgDepth = 0
    MaxLag = 0
    MaxFailures = 1
    MaxEvictions = 1
SYMMETRY RequestSymmetry
INVARIANTS
    TypeOK
    NonceUnique
    LedgerMatchesStatus
    RefundedNotPaid
PROPERTIES
    ImplementsOutbox
