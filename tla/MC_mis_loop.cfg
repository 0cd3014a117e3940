CONSTANTS
    x = x
    y = y
    Txs = {0, 1, 2, 3, 4}
    Mixed = {}
    First = {0, 1, 2, 3, 4}
    Joined = {}
    Predictions <- MCPredictions
    NoPrediction = NoPrediction
    Methods = {"MIS"}
    MaxUint = 15
SPECIFICATION MisSpec
PROPERTIES
    MisEnds
