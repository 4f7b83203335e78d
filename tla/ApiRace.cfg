SPECIFICATION Spec
CONSTANTS
    alice = alice
    bob = bob
    c1 = c1
    c2 = c2
    c3 = c3
    c4 = c4
    c5 = c5
    None = None
    Calls = {c1, c2, c3, c4, c5}
    Users = {alice, bob}
    Kind <- RetryKind
    User <- RetryUser
    Peer <- Other
    ClientKey <- OneKey
    Amount <- One
    UserLimits <- Unlimited
    GlobalLimits <- Unlimited
    Opening <- Balances
    MaxTime = 0
    MaxFailures = 0
    MaxCredits = 0
CHECK_DEADLOCK FALSE
INVARIANT SameKeySameResult
