SPECIFICATION Spec
CONSTANTS
    t1 = t1
    t2 = t2
    s1 = s1
    alice = alice
    bob = bob
    NoCursor = NoCursor
    NoHash = NoHash
    ZeroHash = ZeroHash
    Txs = {t1}
    Users = {alice, bob}
    Recipients <- PayBoth
    Bases = {0, 1}
    LogIndexes = {0, 1, 2}
    Sims = {}
    Salts = {0, 1}
    StartBlock = 1
    Confirmations = 0
    Margin = 3
    MaxHeight = 3
    MaxReorgs = 1
    MaxReorgDepth = 2
    MaxLag = 0
    MaxFailures = 0
INVARIANTS
    CreditedToRecipient
