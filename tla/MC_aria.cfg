CONSTANTS
    a1 = a1
    a2 = a2
    x = x
    y = y
    Txs = {0, 1, 2}
    Addresses = {a1, a2}
    Slots = {x, y}
    StaticCalled = {a1}
    NoTid = NoTid
    Setups <- MCSetups
SPECIFICATION Spec
INVARIANTS
    RoundSerializable
    OneRoundLosesOnlyFalse
    RoundInv
    TablesExact
    CommitsInOrder
PROPERTIES
    UnconflictedCommits
    OneWayOut
    Finishes
