\* No query or save failure, transfers visible in id order.
CONSTANTS
    n1 = n1
    n2 = n2
    Names <- MCNames
    MaxId = 3
    MaxAmount = 2
    Precision = 1
    Faults = FALSE
    InOrderCommit = TRUE
SPECIFICATION Spec
INVARIANTS CountExact
PROPERTIES CatchUp
