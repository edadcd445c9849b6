SPECIFICATION Spec
CONSTANTS
    p1 = p1
    p2 = p2
    t1 = t1
    Pairs <- MCPairs
    Threads <- MCThreads
    Capacity <- MCCapacity
    Rules <- MCRules
    TopK = 2
    MaxCalls = 5
INVARIANTS
    SplitsDisjoint
    ServedLabelCounted
CHECK_DEADLOCK FALSE
