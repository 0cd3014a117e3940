CONSTANTS
    a1 = a1
    x = x
    y = y
    Addresses = {a1}
    Slots = {x, y}
    StaticCalled = {a1}
    Txs = {0, 1, 2}
    Methods = {"ConnectedComponents", "DegreeZero", "MIS"}
    Predictions <- MCPredictions
    NoPrediction = NoPrediction
    Behaviours <- MCBehaviours
SPECIFICATION Spec
INVARIANTS
    BlockSerializable
    BlockInv
