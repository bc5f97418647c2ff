SPECIFICATION Spec
CONSTANTS
    Crates = {k1}
    MaxDepth = 2
    MaxCalls = 2
    MaxConds = 2
SYMMETRY Symmetry
INVARIANTS
    DocumentedClassification
CHECK_DEADLOCK FALSE
