SPECIFICATION Spec
CONSTANTS
    r1 = r1
    r2 = r2
    r3 = r3
    f1 = f1
    NoRow = NoRow
    NoHash = NoHash
    Requests = {r1}
    Unsignable = {}
    Foreign = {}
    Batch = 1
    Confirmations = 2
    MaxHeight = 4
    MaxReorgs = 0
    MaxReorgDepth = 0
    MaxLag = 1
    MaxFailures = 0
    MaxEvictions = 0
INVARIANTS
    RefundedNotPaid
