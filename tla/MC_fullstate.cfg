CONSTANTS
    c1 = c1
    c2 = c2
    s1 = s1
    s2 = s2
    x = x
    y = y
    Addresses = {c1, c2, s1, s2}
    Slots = {x, y}
    NoValue = NoValue
    Txs = {0, 1, 2}
    Predictions = {}
    NoPrediction = NoPrediction
    Methods = {"DegreeZero", "MIS"}
    IntrinsicGas = 3
    ClearRefund = 4
    RefundQuotient = 5
    Blocks <- MCBlocks
    Database <- MCDatabase
SPECIFICATION Spec
INVARIANTS
    RoundsSerial
    AnswersLikeDatabase
    NoNilPrediction
    TracerCovers
    RefundsBounded
    SupplyGrowsByRefunds
    FullStateInvariant
