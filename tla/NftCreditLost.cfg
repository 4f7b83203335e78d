SPECIFICATION FairSpec
CONSTANTS
    l1 = l1
    l2 = l2
    k1 = k1
    alice = alice
    bob = bob
    Logs = {l1, l2}
    Tokens = {k1}
    Users = {alice, bob}
    TokenOf <- OneToken
    RecipientOf <- TwoRecipients
    Salts = {0, 1}
    NoUser = NoUser
    NoCursor = NoCursor
    NoHash = NoHash
    StartBlock = 0
    Confirmations = 1
    Margin = 3
    MaxHeight = 4
    MaxReorgs = 1
    MaxReorgDepth = 4
    MaxLag = 0
    MaxFailures = 0
CHECK_DEADLOCK FALSE
PROPERTY CanonicalCreditIsHeld
