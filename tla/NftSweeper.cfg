SPECIFICATION FairSpec
CONSTANTS
    t1 = t1
    t2 = t2
    p1 = p1
    a1 = a1
    Tokens = {t1, t2}
    AddressOf <- OneAddress
    Payouts = {p1}
    MayRevert = {t1}
    NoRow = NoRow
    Confirmations = 1
    MaxAttempts = 2
    MaxHeight = 3
    MaxLag = 0
    MaxGifts = 1
    MaxRedeposits = 1
    MaxFailures = 1
CHECK_DEADLOCK FALSE
INVARIANTS TypeOK FundNonceOwned SweptIsMoved GasBounded
PROPERTIES SweptUnlessReturned
