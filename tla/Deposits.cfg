SPECIFICATION FairSpec
CONSTANTS
    t1 = t1
    t2 = t2
    s1 = s1
    alice = alice
    bob = bob
    NoCursor = NoCursor
    NoHash = NoHash
    ZeroHash = ZeroHash
    Txs = {t1}
    Users = {alice}
    Recipients <- OnePayment
    Bases = {0, 1}
    LogIndexes = {0, 1}
    Sims = {s1}
    Salts = {0}
    StartBlock = 1
    Confirmations = 1
    Margin = 2
    MaxHeight = 3
    MaxReorgs = 2
    MaxReorgDepth = 3
    MaxLag = 0
    MaxFailures = 1
INVARIANTS
    TypeOK
    LedgerMatchesRows
    NoDoubleCredit
    CursorNeverSkips
PROPERTIES
    CreditedOnlyFinal
    ImplementsCreditBook
    EventuallyBacked
    DepositCreditedUnlessReorg
