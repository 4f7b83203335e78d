SPECIFICATION Spec
CONSTANTS
    alice = alice
    bob = bob
    c1 = c1
    c2 = c2
    c3 = c3
    c4 = c4
    c5 = c5
    None = None
    Calls = {c1, c2}
    Users = {alice, bob}
    Kind <- SendKind
    User <- SendUser
    Peer <- Other
    ClientKey <- OneKey
    Amount <- One
    UserLimits <- Windowed
    GlobalLimits <- GlobalWindowed
    Opening <- Balances
    MaxTime = 2
    MaxFailures = 1
    MaxCredits = 0
CHECK_DEADLOCK FALSE
INVARIANT FaucetSentOnce
