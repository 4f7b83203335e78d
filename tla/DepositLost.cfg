SPECIFICATION FairSpec
CONSTANTS
    t1 = t1
    t2 = t2
    s1 = s1
    alice = alice
    bob = bob
    NoCursor = NoCursor
    NoHash = NoHash
    ZeroHash = ZeroHash
    Txs = {t1}
    Users = {alice}
    Recipients <- OnePayment
    Bases = {0}
    LogIndexes = {0}
    Sims = {}
    Salts = {0, 1}
    StartBlock = 1
    Confirmations = 1
    Margin = 3
    MaxHeight = 4
    MaxReorgs = 1
    MaxReorgDepth = 2
    MaxLag = 0
    MaxFailures = 0
PROPERTIES
    DepositEventuallyCredited
