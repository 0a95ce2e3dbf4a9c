CONSTANTS
    k1 = k1
    k2 = k2
    k3 = k3
    Keys <- MCKeys
    Times = {1, 2, 3}
    StepSeq <- MCStepSeq
    BasicTables <- MCBasicTables
    BridgeTables <- MCBridgeTables
    PageSize = 2
    VerifyLimit = 1
    Faults = TRUE
SPECIFICATION Spec
INVARIANT LossReported
CHECK_DEADLOCK FALSE
