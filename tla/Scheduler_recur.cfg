CONSTANTS
    p1 = p1
    p2 = p2
    p3 = p3
    Passes <- MCPasses

SPECIFICATION Spec

PROPERTY PassesRecur
PROPERTY WaitAfterLoops

\* Once Stop has returned the engine is meant to be stopped, so a state with
\* nothing left to do is allowed.
CHECK_DEADLOCK FALSE
