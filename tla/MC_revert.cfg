CONSTANTS
    a1 = a1
    a2 = a2
    k1 = k1
    v0 = v0
    v1 = v1
    c1 = c1
    Addresses = {a1, a2}
    Slots = {k1}
    Values = {v0, v1}
    ZeroValue = v0
    NoValue = NoValue
    Nil = Nil
    Codes = {c1}
    NoCode = NoCode
    Amounts = {1}
    Nonces = {2}
    InitialDB <- MCInitialDB
    Predictions <- MCPredictions
    MaxTxs = 1
    MaxJournal = 2
    MaxRevisions = 3
    MaxDepth = 3
    MaxLogs = 1
SPECIFICATION Spec
INVARIANTS
    TypeOK
    IInv
    NoPanic
PROPERTIES
    RevertRestores
