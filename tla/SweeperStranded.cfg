SPECIFICATION FairSpec
CONSTANTS
    t1 = t1
    t2 = t2
    p1 = p1
    a1 = a1
    Tokens = {t1, t2}
    AddressOf <- OneAddress
    Payouts = {}
    MayRevert = {}
    NoRow = NoRow
    Confirmations = 1
    MaxAttempts = 2
    MaxHeight = 3
    MaxLag = 0
    MaxGifts = 0
    MaxRedeposits = 0
    MaxFailures = 1
CHECK_DEADLOCK FALSE
PROPERTY FundedIsSwept
