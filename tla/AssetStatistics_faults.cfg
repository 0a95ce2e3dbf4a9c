\* Query and save failures, transfers visible in any order.
CONSTANTS
    n1 = n1
    n2 = n2
    Names <- MCNames
    MaxId = 3
    MaxAmount = 1
    Precision = 1
    Faults = TRUE
    InOrderCommit = FALSE
SYMMETRY MCSymmetry
SPECIFICATION Spec
INVARIANTS NoOverCount
PROPERTIES CounterSpec

