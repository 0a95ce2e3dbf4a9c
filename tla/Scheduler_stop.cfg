CONSTANTS
    p1 = p1
    p2 = p2
    p3 = p3
    Passes <- MCPasses

SPECIFICATION Spec

PROPERTY StopReturns
