SPECIFICATION Spec
CONSTANTS
    m1 = m1
    d1 = d1
    x = x
    y = y
    z = z
    alice = alice
    bob = bob
    Mints = {}
    Deposited = {d1}
    Keys = {x, z}
    Calls = {1, 2, 3, 4}
    CallOf <- WithdrawAgain
    Users = {alice, bob}
    UserOf <- ForAlice
    MayRevert = {x}
    ToDeposit = {}
    Depositor = alice
    NoUser = NoUser
    NoRow = NoRow
    Confirmations = 1
    MaxHeight = 4
    MaxFailures = 1
CHECK_DEADLOCK FALSE
INVARIANT WithdrawingIsOpen
PROPERTY ImplementsOutbox
