CONSTANTS
    Tids = {0, 1, 2}
    Addresses = {a}
    Slots = {x, y}
    NoTid = NoTid
    Workers = 2
SPECIFICATION Spec
INVARIANTS
    TypeOK
    CalmInv
PROPERTIES
    ReservesLowest
SYMMETRY Symmetry
