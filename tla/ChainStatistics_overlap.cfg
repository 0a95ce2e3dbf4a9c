CONSTANTS
    poly = poly
    eth = eth
    bsc = bsc
    Chains <- MCChains
    Poly = poly
    Ref = eth
    MaxTx = 2
    MaxAddr = 1
    Faults = FALSE
    Overlap = TRUE

SPECIFICATION Spec

INVARIANT ChainNoOverCount
