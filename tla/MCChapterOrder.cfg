SPECIFICATION Spec
CONSTANTS
    Ids = {c1, c2, c3, c4, c5}
    Requests = {r1, r2, r3}
    NoId = NoId
    MaxImport = 2
SYMMETRY Symmetry
INVARIANTS
    TypeOK
    Numbering
PROPERTIES
    OrderPreserved
CHECK_DEADLOCK FALSE
