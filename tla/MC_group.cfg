CONSTANTS
    a1 = a1
    a2 = a2
    k1 = k1
    v0 = v0
    v1 = v1
    c1 = c1
    Addresses = {a1, a2}
    Slots = {k1}
    Values = {v0, v1}
    ZeroValue = v0
    NoValue = NoValue
    Nil = Nil
    Codes = {c1}
    NoCode = NoCode
    Amounts = {}
    Nonces = {}
    InitialDB <- MCInitialDB
    Predictions <- MCPredictions
    MaxTxs = 2
    MaxJournal = 2
    MaxRevisions = 4
    MaxDepth = 2
    MaxLogs = 0
SPECIFICATION Spec
INVARIANTS
    CacheTellsTruth
    StaleReadsInvalidate
    MergeIsSerial
    GhostInv
