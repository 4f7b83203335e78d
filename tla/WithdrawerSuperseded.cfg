SPECIFICATION FairSpec
CONSTANTS
    r1 = r1
    r2 = r2
    r3 = r3
    f1 = f1
    NoRow = NoRow
    NoHash = NoHash
    Requests = {r1}
    Unsignable = {}
    Foreign = {f1}
    Batch = 1
    Confirmations = 1
    MaxHeight = 3
    MaxReorgs = 0
    MaxReorgDepth = 0
    MaxLag = 0
    MaxFailures = 1
    MaxEvictions = 0
PROPERTIES
    PayoutNotAbandoned
