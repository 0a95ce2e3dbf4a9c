CONSTANTS
    b1 = b1
    b2 = b2
    c1 = c1
    c2 = c2
    c3 = c3
    Basics <- MCBasics
    Chains <- MCChains
    Entries <- MCEntries
    Home <- MCHome
    Extra <- MCExtra
    Misprecise <- MCMisprecise
    Unlisted <- MCUnlisted
    Overridden <- MCOverridden
    OverrideVal <- MCOverrideVal
    O3Basic = b1
    O3Flow = 1
    Price <- MCPrice
    Threshold = 1
    Values = {0, 1}
    Reasons <- MCReasons
    AllNodesDown = "all node is not working"
    Faults = TRUE
SPECIFICATION Spec
INVARIANT BalancedNoAlert
CHECK_DEADLOCK FALSE
