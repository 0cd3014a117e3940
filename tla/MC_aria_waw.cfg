CONSTANTS
    a1 = a1
    a2 = a2
    x = x
    y = y
    Txs = {0, 1}
    Addresses = {a1, a2}
    Slots = {x, y}
    StaticCalled = {}
    NoTid = NoTid
    Setups <- MCRaceSetup
SPECIFICATION Spec
INVARIANTS
    CommittedDontShareWrites
