SPECIFICATION Spec
CONSTANTS
    Crates = {k1, k2}
    MaxDepth = 3
    MaxCalls = 4
    MaxConds = 2
SYMMETRY Symmetry
INVARIANTS
    ResignalsItsOwn ReportsItsOwn UndisturbedClassification
CHECK_DEADLOCK FALSE
