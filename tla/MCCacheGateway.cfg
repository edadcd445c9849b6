SPECIFICATION FairSpec
CONSTANTS
    k1 = k1
    k2 = k2
    t1 = t1
    t2 = t2
    Keys <- MCKeys
    Threads <- MCThreads
    Policies <- MCPolicies
    MaxEntries = 1
    MaxCalls = 4
    MaxRestarts = 1
INVARIANTS
    TrackedWithinCapacity
    SearchableTracked
PROPERTIES
    VictimByHistory
    CallsReturn
CHECK_DEADLOCK FALSE
