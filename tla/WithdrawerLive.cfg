SPECIFICATION FairSpec
CONSTANTS
    r1 = r1
    r2 = r2
    r3 = r3
    f1 = f1
    NoRow = NoRow
    NoHash = NoHash
    Requests = {r1, r2, r3}
    Unsignable = {r3}
    Foreign = {}
    Batch = 2
    Confirmations = 1
    MaxHeight = 3
    MaxReorgs = 1
    MaxReorgDepth = 1
    MaxLag = 0
    MaxFailures = 1
    MaxEvictions = 0
INVARIANTS
    GapFree
    SettledIsPaid
PROPERTIES
    MinedPayoutResolved
    PayoutNotAbandoned
