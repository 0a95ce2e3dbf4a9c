CONSTANTS
    poly = poly
    eth = eth
    bsc = bsc
    Chains <- MCChains
    Poly = poly
    Ref = eth
    MaxTx = 2
    MaxAddr = 1
    Faults = TRUE
    Overlap = FALSE

SPECIFICATION Spec

INVARIANT ChainNoOverCount
PROPERTY ChainFoldSound
