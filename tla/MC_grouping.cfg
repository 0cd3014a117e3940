CONSTANTS
    x = x
    y = y
    Txs = {0, 1, 2, 3, 4, 5, 6}
    Mixed = {0, 1, 2, 3}
    First = {0, 1, 2, 3, 4}
    Joined = {0, 1, 2, 3}
    Predictions <- MCPredictions
    NoPrediction = NoPrediction
    Methods = {"ConnectedComponents", "DegreeZero", "MIS"}
    MaxUint = 15
SPECIFICATION Spec
INVARIANTS
    GroupsAreComponents
    GroupsPartition
    LayersKeepOrder
    LayersTight
    LayersPartition
    RoundsIndependent
    RoundsPartition
    RoundsNonempty
    MisNeverPanics
    SearchInv
    MisRoundsInv
PROPERTIES
    Ends
