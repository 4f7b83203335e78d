SPECIFICATION Spec
CONSTANTS
    m1 = m1
    d1 = d1
    x = x
    y = y
    z = z
    alice = alice
    bob = bob
    Mints = {m1}
    Deposited = {d1}
    Keys = {x, z}
    Calls = {1, 2, 3}
    CallOf <- WithdrawAndTransfer
    Users = {alice, bob}
    UserOf <- ForAlice
    MayRevert = {m1}
    ToDeposit = {z}
    Depositor = alice
    NoUser = NoUser
    NoRow = NoRow
    Confirmations = 1
    MaxHeight = 3
    MaxFailures = 1
CHECK_DEADLOCK FALSE
INVARIANTS TypeOK NoncesGapFree WithdrawingIsOpen CustodyMatchesHoldings
PROPERTIES ImplementsOutbox
