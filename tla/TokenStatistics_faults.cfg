CONSTANTS
    t1 = t1
    t2 = t2
    b1 = b1
    Tokens <- MCTokens
    Home <- MCHome
    Basics <- MCBasics
    BasicOf <- MCBasicOf
    Epoch = 100
    MaxIds = 2
    Faults = TRUE
    GuardAsWritten = FALSE

SPECIFICATION Spec

INVARIANT InNoOverCount
INVARIANT BasicNoOverCount
 
PROPERTY InCounterSpec
