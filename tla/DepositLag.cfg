SPECIFICATION FairSpec
CONSTANTS
    t1 = t1
    t2 = t2
    s1 = s1
    alice = alice
    bob = bob
    NoCursor = NoCursor
    NoHash = NoHash
    ZeroHash = ZeroHash
    Txs = {t1, t2}
    Users = {alice}
    Recipients <- OnePayment
    Bases = {0}
    LogIndexes = {0}
    Sims = {s1}
    Salts = {0}
    StartBlock = 1
    Confirmations = 1
    Margin = 2
    MaxHeight = 5
    MaxReorgs = 0
    MaxReorgDepth = 0
    MaxLag = 2
    MaxFailures = 1
PROPERTY RecordedIsCredited
