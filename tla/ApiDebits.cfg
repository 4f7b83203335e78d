SPECIFICATION FairSpec
CONSTANTS
    alice = alice
    bob = bob
    c1 = c1
    c2 = c2
    c3 = c3
    c4 = c4
    c5 = c5
    None = None
    Calls = {c1, c2, c3, c4}
    Users = {alice, bob}
    Kind <- DebitKind
    User <- DebitUser
    Peer <- Other
    ClientKey <- DebitKey
    Amount <- DebitAmount
    UserLimits <- Unlimited
    GlobalLimits <- Unlimited
    Opening <- Balances
    MaxTime = 0
    MaxFailures = 1
    MaxCredits = 1
CHECK_DEADLOCK FALSE
INVARIANT NoOverspend
PROPERTY EveryCallAnswered
PROPERTY ImplementsBank
