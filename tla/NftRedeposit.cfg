SPECIFICATION FairSpec
CONSTANTS
    m1 = m1
    d1 = d1
    x = x
    y = y
    z = z
    alice = alice
    bob = bob
    Mints = {}
    Deposited = {d1}
    Keys = {x}
    Calls = {1}
    CallOf <- WithdrawAndTransfer
    Users = {alice, bob}
    UserOf <- ForAlice
    MayRevert = {}
    ToDeposit = {x}
    Depositor = bob
    NoUser = NoUser
    NoRow = NoRow
    Confirmations = 1
    MaxHeight = 3
    MaxFailures = 0
CHECK_DEADLOCK FALSE
PROPERTY RedepositIsHeld
